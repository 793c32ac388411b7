---------------------------- MODULE ResearchProofs ----------------------------
(***************************************************************************)
(* What the properties of Research rest on, for any commands, requests,     *)
(* search results, minutes, kills and moves by hand.                        *)
(*                                                                         *)
(* A command that gathers holds a modeled cycle without a run, what it was  *)
(* asked passed its parser, and what it has attempted matches the sources   *)
(* of its plan.  A command that saves holds stages each of which is sound   *)
(* and follows the one before it; since a save compares the stored cycle    *)
(* with the one the stage was derived from, the stored cycle is sound and   *)
(* follows as well.                                                         *)
(***************************************************************************)
EXTENDS Research, FiniteSetTheorems, TLAPS

\* What holds of a cycle whoever holds it.
Shaped(it) ==
  it \in [stage : {it.stage}, filled : {it.filled}, autonomy : {it.autonomy}, risk : {it.risk},
         approvals : {it.approvals}, run : {it.run}, review : {it.review}, decision : {it.decision}]

Blank(it) == it.run = NoRun /\ it.review = "none" /\ it.decision = NoDecision

Warranted(it) ==
  /\ Decided(it, Kinds) =>
       /\ it.review = "pass" /\ it.run.request.separate
       /\ Grounded(it.run, it.decision.selected)
  /\ it.decision # NoDecision /\ it.review # "pass" => it.run = NoRun
  /\ Decided(it, {"repository", "sources"}) => it.run.minutes <= PlannedMinutes(it.run)
  /\ Decided(it, {"search"}) => it.run.late <= PlannedMinutes(it.run)

CycleOK(it) ==
  /\ Shaped(it)
  /\ it.stage \in Stages \ {"created", "observed"}
  /\ it.run.by \in Someone /\ it.decision.by \in Someone
  /\ it.review \in {"none", "pass", "inconclusive"}
  /\ it.stage = "modeled" => Blank(it)
  /\ Warranted(it)

\* One cycle is stored after another.
Follows(it, next) ==
  /\ CanTransition(it.stage, next.stage)
  /\ it.run # NoRun => next.run = it.run
  /\ it.review # "none" => next.review = it.review
  /\ it.decision # NoDecision => next.decision = it.decision

----------------------------------------------------------------------------
\* The one row with these fields.
RowOf(at, request, view, started, began, answers, attempts, steps) ==
  [at : {at}, request : {request}, view : {view}, started : {started}, began : {began},
   answers : {answers}, attempts : {attempts}, steps : {steps}]

IsRow(j) ==
  j \in RowOf(j.at, j.request, j.view, j.started, j.began, j.answers, j.attempts, j.steps)

\* The request of a command that gathers, and how far it has come with it.
AskedOK(j) ==
  /\ IsRequest(j.request)
  /\ j.request.kind = "repository" => j.at \in {"inspect", "review"}
  /\ j.request.kind = "repository" /\ j.at = "review" =>
       j.request.separate /\ Sufficient(j.request.m.inspection, j.request.m.budget)
  /\ j.request.kind = "candidates" =>
       j.at = "review" /\ j.request.separate /\ IsCandidateManifest(j.request.m)
  /\ j.request.kind = "handoff" => j.at = "review"
  /\ j.request.kind = "sources" => j.at \in {"sources", "capture", "review"}
  /\ j.request.kind = "search" =>
       /\ j.at \in {"queries", "asking", "select", "sources", "capture", "review"}
       /\ "minutes" \in DOMAIN j.request.m.budget
       /\ MinutesBetween(j.started, j.began) <= j.request.m.budget.minutes

AttemptsOK(j) ==
  /\ List(j.attempts)
  /\ j.at \in {"queries", "asking", "select"} => j.attempts = <<>>
  /\ j.at \in {"sources", "capture"} => Len(j.attempts) < Len(j.request.m.sources)
  /\ j.at = "review" /\ j.request.kind \in {"sources", "search"} =>
       Len(j.attempts) = Len(j.request.m.sources)

Gathers(j) == j.at \notin {"new", "ended", "save"}

StepsOK(view, steps) ==
  /\ List(steps) /\ steps # <<>>
  /\ Follows(view, steps[1])
  /\ \A i \in 1..Len(steps) :
       /\ CycleOK(steps[i])
       /\ steps[i].stage = "inconclusive" => steps[i].review # "pass"
       /\ i < Len(steps) => Follows(steps[i], steps[i + 1])

JobOK(j) ==
  /\ IsRow(j)
  /\ j.started \in Nat /\ j.began \in Nat
  /\ Gathers(j) =>
       AskedOK(j) /\ AttemptsOK(j) /\ CycleOK(j.view) /\ j.view.stage = "modeled"
  /\ j.at = "save" => StepsOK(j.view, j.steps)
  /\ j.at # "save" => j.steps = <<>>

ResearchInv ==
  /\ CycleOK(cycle)
  /\ cycle.stage = "inconclusive" => cycle.review # "pass" \/ moves > 0
  /\ job = [c \in Commands |-> job[c]]
  /\ \A c \in Commands : JobOK(job[c])
  /\ clock \in 0..MaxClock /\ kills \in 0..MaxKills /\ moves \in 0..MaxMoves

----------------------------------------------------------------------------
(* Lists and stages. *)

LEMMA EmptyList == List(<<>>)
  BY DEF List, ToSet

LEMMA ListFacts ==
  ASSUME NEW s, List(s)
  PROVE  Len(s) \in Nat /\ DOMAIN s = 1..Len(s)
  BY DEF List

LEMMA AppendList ==
  ASSUME NEW s, List(s), NEW x
  PROVE  List(Append(s, x)) /\ Len(Append(s, x)) = Len(s) + 1
<1> DEFINE t == Append(s, x)
           S == ToSet(s) \cup {x}
<1>1. s \in Seq(S) /\ x \in S
  BY DEF List
<1>2. t \in Seq(S) /\ Len(t) = Len(s) + 1 /\ Len(s) \in Nat /\ DOMAIN t = 1..Len(t)
  BY <1>1
<1>3. \A i \in 1..Len(t) : t[i] \in ToSet(t)
  BY <1>2 DEF ToSet
<1> HIDE DEF t, S
<1>4. t \in Seq(ToSet(t))
  BY <1>2, <1>3
<1> QED
  BY <1>2, <1>4 DEF List, t

LEMMA TailList ==
  ASSUME NEW s, List(s), s # <<>>
  PROVE  /\ List(Tail(s)) /\ Len(Tail(s)) = Len(s) - 1 /\ Head(s) = s[1] /\ Len(s) \in Nat \ {0}
         /\ \A i \in 1..Len(Tail(s)) : Tail(s)[i] = s[i + 1]
<1> DEFINE t == Tail(s)
           S == ToSet(s)
<1>1. s \in Seq(S)
  BY DEF List
<1>2. Len(s) \in Nat \ {0} /\ Head(s) = s[1]
  BY <1>1
<1>3. t \in Seq(S) /\ Len(t) = Len(s) - 1 /\ DOMAIN t = 1..Len(t) /\ \A i \in 1..Len(t) : t[i] = s[i + 1]
  BY <1>1, <1>2
<1>4. \A i \in 1..Len(t) : t[i] \in ToSet(t)
  BY <1>3 DEF ToSet
<1> HIDE DEF t, S
<1>5. t \in Seq(ToSet(t))
  BY <1>2, <1>3, <1>4
<1> QED
  BY <1>2, <1>3, <1>5 DEF List, t

LEMMA TupleLists ==
  ASSUME NEW a, NEW b, NEW c, NEW d
  PROVE  /\ List(<<a, b>>) /\ Len(<<a, b>>) = 2
         /\ List(<<a, b, c, d>>) /\ Len(<<a, b, c, d>>) = 4
  BY DEF List, ToSet

LEMMA PathIs ==
  /\ Path[1] = "created" /\ Path[2] = "observed" /\ Path[3] = "modeled" /\ Path[4] = "diagnosed"
  /\ Path[5] = "researched" /\ Path[6] = "decided" /\ Path[7] = "planned" /\ Path[8] = "executing"
  /\ Path[9] = "implemented" /\ Path[10] = "verified" /\ Path[11] = "measured"
  /\ Path[12] = "learned" /\ Path[13] = "meta-improved" /\ Path[14] = "completed"
  BY DEF Path

LEMMA StagesAre ==
  Stages = {"created", "observed", "modeled", "diagnosed", "researched", "decided", "planned",
            "executing", "implemented", "verified", "measured", "learned", "meta-improved",
            "completed", "rejected", "rolled-back", "inconclusive"}
  BY PathIs DEF Stages, TerminalStages

\* The stages of a research command follow one another, and no stage after a
\* modeled one comes before it.
LEMMA ResearchStages ==
  /\ CanTransition("modeled", "diagnosed") /\ CanTransition("diagnosed", "researched")
  /\ CanTransition("researched", "decided") /\ CanTransition("decided", "planned")
  /\ CanTransition("diagnosed", "inconclusive")
<1>1. /\ 3 \in 1..13 /\ 4 \in 1..13 /\ 5 \in 1..13 /\ 6 \in 1..13
      /\ 3 + 1 = 4 /\ 4 + 1 = 5 /\ 5 + 1 = 6 /\ 6 + 1 = 7
  OBVIOUS
<1>2. /\ "diagnosed" \in Successors("modeled") /\ "researched" \in Successors("diagnosed")
      /\ "decided" \in Successors("researched") /\ "planned" \in Successors("decided")
  BY <1>1, PathIs DEF Successors
<1>3. "diagnosed" \in RejectableStages
  BY PathIs DEF RejectableStages
<1> QED
  BY <1>2, <1>3 DEF CanTransition

LEMMA NeverBack ==
  ASSUME NEW from \in Stages, NEW to \in Stages, CanTransition(from, to), from \notin {"created", "observed"}
  PROVE  to \notin {"created", "observed", "modeled"}
<1>1. CASE to \in Successors(from)
  <2>1. PICK j \in 1..13 : Path[j] = from /\ to = Path[j + 1]
    BY <1>1 DEF Successors
  <2>2. j \notin {1, 2}
    BY <2>1, PathIs
  <2>3. j + 1 \in 4..14
    BY <2>2
  <2> QED
    BY <2>1, <2>3, PathIs
<1>2. CASE to \notin Successors(from)
  BY <1>2 DEF CanTransition
<1> QED
  BY <1>1, <1>2

----------------------------------------------------------------------------
(* Rows. *)

LEMMA RowFields ==
  ASSUME NEW at, NEW request, NEW view, NEW started, NEW began, NEW answers, NEW attempts, NEW steps,
         NEW j, j \in RowOf(at, request, view, started, began, answers, attempts, steps)
  PROVE  /\ IsRow(j)
         /\ j.at = at /\ j.request = request /\ j.view = view /\ j.started = started
         /\ j.began = began /\ j.answers = answers /\ j.attempts = attempts /\ j.steps = steps
  BY DEF IsRow, RowOf

LEMMA IdleRow ==
  ASSUME NEW at
  PROVE  Idle(at) \in RowOf(at, NoRequest, NoRun, 0, 0, <<>>, <<>>, <<>>)
  BY DEF Idle, RowOf

\* A command that ends keeps nothing.
LEMMA EndedOK == JobOK(Idle("ended")) /\ JobOK(Idle("new"))
<1>1. ASSUME NEW at \in {"ended", "new"} PROVE JobOK(Idle(at))
  BY IdleRow, RowFields DEF JobOK, Gathers
<1> QED
  BY <1>1

\* A step of one command that stores nothing.
LEMMA JobStep ==
  ASSUME ResearchInv, NEW c \in Commands, NEW row, JobOK(row), job' = [job EXCEPT ![c] = row],
         cycle' = cycle, clock' = clock, moves' = moves, kills' \in 0..MaxKills
  PROVE  ResearchInv'
<1>1. job' = [d \in Commands |-> job'[d]] /\ \A d \in Commands : job'[d] = IF d = c THEN row ELSE job[d]
  BY DEF ResearchInv
<1>2. \A d \in Commands : JobOK(job'[d])
  BY <1>1 DEF ResearchInv
<1> QED
  BY <1>1, <1>2 DEF ResearchInv

LEMMA GatherStep ==
  ASSUME ResearchInv, NEW c \in Commands, NEW row, JobOK(row), Put(c, row), Gathering
  PROVE  ResearchInv'
  BY JobStep DEF Put, Gathering, ResearchInv

LEMMA EndStep ==
  ASSUME ResearchInv, NEW c \in Commands, EndJob(c), Gathering
  PROVE  ResearchInv'
  BY GatherStep, EndedOK DEF EndJob

----------------------------------------------------------------------------
(* The steps a command prepares. *)

LEMMA Moving ==
  ASSUME NEW it, Shaped(it), NEW to, NEW added
  PROVE  /\ Shaped(Moved(it, to, added)) /\ Moved(it, to, added).stage = to
         /\ Moved(it, to, added).run = it.run /\ Moved(it, to, added).review = it.review
         /\ Moved(it, to, added).decision = it.decision
  BY DEF Shaped, Moved

LEMMA Recording ==
  ASSUME NEW it, Shaped(it), NEW run
  PROVE  LET next == [it EXCEPT !.run = run] IN
         /\ Shaped(next) /\ next.stage = it.stage
         /\ next.run = run /\ next.review = it.review /\ next.decision = it.decision
  BY DEF Shaped

\* A cycle without a run, and one without a decision, have nothing to warrant.
LEMMA Unwarranted ==
  ASSUME NEW it, \/ it.run = NoRun
                 \/ it.decision = NoDecision /\ it.run.by \in Commands
  PROVE  Warranted(it)
<1>1. it.decision = NoDecision => it.decision.by = "none"
  BY DEF NoDecision
<1> QED
  BY <1>1, RequestAssumption DEF Warranted, Decided

LEMMA RowToSave ==
  ASSUME NEW j, IsRow(j), NEW view, NEW steps
  PROVE  [j EXCEPT !.view = view, !.steps = steps]
         \in RowOf(j.at, j.request, view, j.started, j.began, j.answers, j.attempts, steps)
  BY DEF IsRow, RowOf

LEMMA PreparedStep ==
  ASSUME ResearchInv, NEW c \in Commands, NEW steps, StepsOK(job[c].view, steps),
         Prepare(c, steps), Gathering
  PROVE  ResearchInv'
<1> DEFINE idle == Idle("save")
           view == job[c].view
           row == [idle EXCEPT !.view = view, !.steps = steps]
<1>1. idle \in RowOf("save", NoRequest, NoRun, 0, 0, <<>>, <<>>, <<>>) /\ Put(c, row)
  BY IdleRow DEF Prepare
<1>2. /\ IsRow(idle) /\ idle.at = "save" /\ idle.request = NoRequest /\ idle.started = 0 /\ idle.began = 0
      /\ idle.answers = <<>> /\ idle.attempts = <<>>
  BY <1>1, RowFields
<1> HIDE DEF idle, view
<1>2a. row \in RowOf("save", NoRequest, view, 0, 0, <<>>, <<>>, steps)
  BY <1>2, RowToSave
<1> HIDE DEF row
<1>3. IsRow(row) /\ row.at = "save" /\ row.view = view /\ row.steps = steps /\ row.started = 0 /\ row.began = 0
  BY <1>2a, RowFields
<1>4. JobOK(row)
  BY <1>3 DEF JobOK, Gathers, view
<1> QED
  BY <1>1, <1>4, GatherStep

\* What a run warrants that is decided upon.
InTime(run) ==
  /\ run.request.kind \in {"repository", "sources"} => run.minutes <= PlannedMinutes(run)
  /\ run.request.kind = "search" => run.late <= PlannedMinutes(run)

Decides(run, selected) == run.request.separate /\ Grounded(run, selected) /\ InTime(run)

LEMMA DiagnosedOK ==
  ASSUME NEW c \in Commands, CycleOK(job[c].view), job[c].view.stage = "modeled"
  PROVE  /\ CycleOK(Diagnosed(c)) /\ Diagnosed(c).stage = "diagnosed" /\ Blank(Diagnosed(c))
         /\ Follows(job[c].view, Diagnosed(c))
<1>1. /\ Shaped(Diagnosed(c)) /\ Diagnosed(c).stage = "diagnosed" /\ Blank(Diagnosed(c))
      /\ Blank(job[c].view)
  BY Moving DEF CycleOK, Diagnosed, Blank
<1>2. CycleOK(Diagnosed(c))
  BY <1>1, StagesAre, Unwarranted DEF CycleOK, Blank, NoRun, NoDecision, Someone
<1>3. Follows(job[c].view, Diagnosed(c))
  BY <1>1, ResearchStages DEF Follows, Blank
<1> QED
  BY <1>1, <1>2, <1>3

LEMMA InconclusiveOK ==
  ASSUME NEW c \in Commands, CycleOK(job[c].view), job[c].view.stage = "modeled"
  PROVE  StepsOK(job[c].view, Inconclusive(c))
<1> DEFINE first == Diagnosed(c)
           run == RunOf(c, <<>>)
           moved == Moved(first, "inconclusive", {"research"})
           next == [moved EXCEPT !.run = run, !.review = "inconclusive"]
<1>1. CycleOK(first) /\ first.stage = "diagnosed" /\ Blank(first) /\ Follows(job[c].view, first)
  BY DiagnosedOK
<1>2. run.by = c /\ Inconclusive(c) = <<first, next>>
  BY DEF RunOf, Inconclusive
<1> HIDE DEF first, run
<1>3. Shaped(moved) /\ moved.stage = "inconclusive" /\ Blank(moved)
  BY <1>1, Moving DEF Blank, CycleOK
<1> HIDE DEF moved
<1>4. /\ Shaped(next) /\ next.stage = "inconclusive" /\ next.run = run
      /\ next.review = "inconclusive" /\ next.decision = NoDecision
  BY <1>3 DEF Shaped, Blank
<1> HIDE DEF next
<1>5. CycleOK(next)
  BY <1>2, <1>4, StagesAre, Unwarranted DEF CycleOK, NoDecision, Someone
<1>6. Follows(first, next)
  BY <1>1, <1>4, ResearchStages DEF Follows, Blank
<1> DEFINE steps == <<first, next>>
<1>7. List(steps) /\ Len(steps) = 2 /\ steps # <<>> /\ steps[1] = first /\ steps[2] = next
  BY TupleLists
<1> HIDE DEF steps
<1>8. StepsOK(job[c].view, steps)
  BY <1>1, <1>4, <1>5, <1>6, <1>7 DEF StepsOK
<1> QED
  BY <1>2, <1>8 DEF steps

LEMMA CompletedOK ==
  ASSUME NEW c \in Commands, CycleOK(job[c].view), job[c].view.stage = "modeled",
         NEW run, NEW review, NEW selected,
         \/ run = NoRun /\ review = "none"
         \/ run.by = c /\ review = "pass" /\ Decides(run, selected)
  PROVE  StepsOK(job[c].view, Completed(c, run, review, selected))
<1> DEFINE first == Diagnosed(c)
           decision == [by |-> c, selected |-> selected]
           gathered == Moved(first, "researched", {"research"})
           researched == [gathered EXCEPT !.run = run]
           judged == Moved(researched, "decided", {"decision"})
           decided == [judged EXCEPT !.review = review, !.decision = decision]
           planned == Moved(decided, "planned", {"plan", "rollback"})
<1>1. CycleOK(first) /\ first.stage = "diagnosed" /\ Blank(first) /\ Follows(job[c].view, first)
  BY DiagnosedOK
<1>2. Completed(c, run, review, selected) = <<first, researched, decided, planned>>
  BY DEF Completed
<1>3. decision.by = c
  OBVIOUS
<1> HIDE DEF first, decision
<1>4. Shaped(gathered) /\ gathered.stage = "researched" /\ Blank(gathered)
  BY <1>1, Moving DEF Blank, CycleOK
<1> HIDE DEF gathered
<1>5. /\ Shaped(researched) /\ researched.stage = "researched" /\ researched.run = run
      /\ researched.review = "none" /\ researched.decision = NoDecision
  BY <1>4, Recording DEF Blank
<1> HIDE DEF researched
<1>6. /\ Shaped(judged) /\ judged.stage = "decided" /\ judged.run = run
  BY <1>5, Moving
<1> HIDE DEF judged
<1>7. /\ Shaped(decided) /\ decided.stage = "decided" /\ decided.run = run
      /\ decided.review = review /\ decided.decision = decision
  BY <1>6 DEF Shaped
<1> HIDE DEF decided
<1>8. /\ Shaped(planned) /\ planned.stage = "planned" /\ planned.run = run
      /\ planned.review = review /\ planned.decision = decision
  BY <1>7, Moving
<1> HIDE DEF planned
<1>9. CycleOK(researched)
  BY <1>5, StagesAre, Unwarranted DEF CycleOK, NoRun, NoDecision, Someone
<1>10. ASSUME NEW it, it.run = run, it.review = review, it.decision = decision, Shaped(it),
              it.stage \in {"decided", "planned"}
       PROVE  CycleOK(it)
  <2>1. Warranted(it)
    <3>1. CASE run = NoRun
      BY <1>10, <3>1, Unwarranted
    <3>2. CASE run # NoRun
      <4>1. run.by = c /\ review = "pass" /\ Decides(run, decision.selected)
        BY <3>2 DEF decision
      <4> QED
        BY <1>10, <4>1 DEF Warranted, Decided, Decides, InTime
    <3> QED
      BY <3>1, <3>2
  <2>2. it.run.by \in Someone /\ it.decision.by \in Someone
    BY <1>3, <1>10 DEF Someone, NoRun
  <2> QED
    BY <1>10, <2>1, <2>2, StagesAre DEF CycleOK
<1>11. CycleOK(decided) /\ CycleOK(planned)
  BY <1>7, <1>8, <1>10
<1>12. Follows(first, researched) /\ Follows(researched, decided) /\ Follows(decided, planned)
  BY <1>1, <1>5, <1>7, <1>8, ResearchStages DEF Follows, Blank
<1> DEFINE steps == <<first, researched, decided, planned>>
<1>13. /\ List(steps) /\ Len(steps) = 4 /\ steps # <<>>
       /\ steps[1] = first /\ steps[2] = researched /\ steps[3] = decided /\ steps[4] = planned
  BY TupleLists
<1> HIDE DEF steps
<1>14. \A i \in 1..Len(steps) :
         /\ CycleOK(steps[i]) /\ steps[i].stage # "inconclusive"
         /\ i < Len(steps) => Follows(steps[i], steps[i + 1])
  BY <1>1, <1>5, <1>7, <1>8, <1>9, <1>11, <1>12, <1>13
<1>15. StepsOK(job[c].view, steps)
  BY <1>1, <1>13, <1>14 DEF StepsOK
<1> QED
  BY <1>2, <1>15 DEF steps

\* A command that concludes, and one that decides.
LEMMA ConcludeStep ==
  ASSUME ResearchInv, NEW c \in Commands, Gathers(job[c]), Conclude(c), Gathering
  PROVE  ResearchInv'
  BY InconclusiveOK, PreparedStep DEF Conclude, ResearchInv, JobOK

LEMMA AcceptStep ==
  ASSUME ResearchInv, NEW c \in Commands, Gathers(job[c]), NEW selected,
         Decides(RunOf(c, job[c].attempts), selected), Accept(c, selected), Gathering
  PROVE  ResearchInv'
<1> DEFINE run == RunOf(c, job[c].attempts)
           steps == Completed(c, run, "pass", selected)
<1>1. run.by = c
  BY DEF RunOf
<1>2. Prepare(c, steps)
  BY DEF Accept
<1> HIDE DEF run
<1>3. CycleOK(job[c].view) /\ job[c].view.stage = "modeled"
  BY DEF ResearchInv, JobOK
<1>4. StepsOK(job[c].view, steps)
  BY <1>1, <1>3, CompletedOK DEF run
<1> HIDE DEF steps
<1> QED
  BY <1>2, <1>4, PreparedStep

----------------------------------------------------------------------------
(* What the reviews establish. *)

LEMMA PassesMeans ==
  ASSUME NEW b, NEW budget, NEW usage, NEW separate \in BOOLEAN, PassesReview(b, budget, usage, separate)
  PROVE  separate /\ WithinBudget(usage, budget) /\ ContradictionsVisible(b)
<1>1. /\ "separateReviewer" \in DOMAIN Checks(b, budget, usage, separate)
      /\ "budgetCompliance" \in DOMAIN Checks(b, budget, usage, separate)
      /\ "contradictionVisibility" \in DOMAIN Checks(b, budget, usage, separate)
  BY DEF Checks
<1>2. /\ Checks(b, budget, usage, separate)["separateReviewer"]
      /\ Checks(b, budget, usage, separate)["budgetCompliance"]
      /\ Checks(b, budget, usage, separate)["contradictionVisibility"]
  BY <1>1 DEF PassesReview
<1> QED
  BY <1>2 DEF Checks

LEMMA BudgetMinutes ==
  ASSUME NEW usage, NEW budget, WithinBudget(usage, budget)
  PROVE  usage.minutes <= budget.minutes
  BY DEF WithinBudget

LEMMA ScoreBounds ==
  ASSUME NEW candidate, IsCandidate(candidate)
  PROVE  RawScore(candidate) \in Int /\ RawScore(candidate) > -1000
<1> DEFINE a == candidate.relevance b == candidate.impact c == candidate.reduction d == candidate.effort
<1>1. a \in 0..5 /\ b \in 0..5 /\ c \in 0..5 /\ d \in 1..5
  BY DEF IsCandidate
<1>2. RawScore(candidate) = 4 * a + 3 * b + 2 * c - d
  BY DEF RawScore
<1> HIDE DEF a, b, c, d
<1> QED
  BY <1>1, <1>2

\* The best candidate is the one leader among those that are open.
LEMMA BestLeads ==
  ASSUME NEW m, List(m.candidates), IsCandidateManifest(m), Covered(m)
  PROVE  CandidateGrounded(m, Best(m))
<1> DEFINE D == DOMAIN m.candidates
           Score(i) == SelectionScore(m.candidates[i])
           Raw(i) == RawScore(m.candidates[i])
           Open(i) == m.candidates[i].status # "completed"
           Wins(i) == \A j \in D : Score(i) > Score(j) \/ (Score(i) = Score(j) /\ i <= j)
<1>1. D \subseteq Nat
  BY ListFacts
<1>2. ASSUME NEW i \in D
      PROVE  Raw(i) \in Int /\ Raw(i) > -1000 /\ Score(i) = IF Open(i) THEN Raw(i) ELSE -1000
  <2>1. IsCandidate(m.candidates[i])
    BY DEF IsCandidateManifest
  <2>2. Raw(i) \in Int /\ Raw(i) > -1000
    BY <2>1, ScoreBounds
  <2> QED
    BY <2>2 DEF SelectionScore
<1>3. PICK i \in D : Leaders(m) = {i}
  <2>1. Cardinality(Leaders(m)) = 1
    BY DEF Covered
  <2>2. IsFiniteSet(D)
    BY ListFacts, FS_Interval
  <2>3. IsFiniteSet(Leaders(m)) /\ Leaders(m) \subseteq D
    BY <2>2, FS_Subset DEF Leaders, Eligible
  <2> QED
    BY <2>1, <2>3, FS_Singleton
<1>4. Open(i) /\ \A j \in D : Open(j) => Raw(i) >= Raw(j)
  BY <1>3 DEF Leaders, Eligible
<1>5. ASSUME NEW j \in D, j # i, Open(j) PROVE Raw(i) > Raw(j)
  <2>1. j \notin Leaders(m)
    BY <1>3, <1>5
  <2>2. PICK k \in D : Open(k) /\ ~(Raw(j) >= Raw(k))
    BY <1>5, <2>1 DEF Leaders, Eligible
  <2>3. Raw(i) >= Raw(k) /\ Raw(i) \in Int /\ Raw(j) \in Int /\ Raw(k) \in Int
    BY <1>2, <1>4, <2>2
  <2> HIDE DEF Raw
  <2> QED
    BY <2>2, <2>3
<1>6. ASSUME NEW j \in D, j # i PROVE Score(i) > Score(j)
  BY <1>2, <1>4, <1>5, <1>6
<1>7. Best(m) = CHOOSE k \in D : Wins(k)
  BY DEF Best
<1> HIDE DEF D, Score, Raw
<1>8. Score(i) \in Int /\ \A j \in D : Score(j) \in Int
  BY <1>2
<1>9. Wins(i)
  BY <1>1, <1>6, <1>8
<1>10. \A k \in D : Wins(k) => k = i
  BY <1>6, <1>8
<1>11. Best(m) = i
  BY <1>7, <1>9, <1>10
<1>12. \A j \in D : \A k \in DOMAIN m.candidates[j].evidence :
         Current(m.candidates[j].evidence[k], m.registry)
  BY DEF Covered, D
<1> QED
  BY <1>4, <1>5, <1>11, <1>12 DEF CandidateGrounded, D, Raw

\* As many pages answered as there are sources.
LEMMA PagesDistinct ==
  ASSUME NEW attempts, List(attempts), SourcesDistinct(attempts)
  PROVE  Cardinality({attempts[i].final : i \in DOMAIN attempts}) = Len(attempts)
<1> DEFINE n == Len(attempts)
           S == {attempts[i].final : i \in 1..n}
           page == [i \in 1..n |-> attempts[i].final]
<1>1. n \in Nat /\ DOMAIN attempts = 1..n
  BY ListFacts
<1>2. page \in Bijection(1..n, S)
  <2>1. page \in [1..n -> S]
    OBVIOUS
  <2>2. \A i, j \in 1..n : page[i] = page[j] => i = j
    BY <1>1 DEF SourcesDistinct
  <2>3. \A s \in S : \E i \in 1..n : page[i] = s
    OBVIOUS
  <2> HIDE DEF page, S
  <2> QED
    BY <2>1, <2>2, <2>3 DEF Bijection, Injection, Surjection, IsInjective
<1>3. ExistsBijection(1..n, S)
  BY <1>2 DEF ExistsBijection
<1> HIDE DEF S, n
<1>4. Cardinality(S) = n
  BY <1>1, <1>3, FS_CountingElements
<1> QED
  BY <1>1, <1>4 DEF S, n

LEMMA PublicHolds ==
  ASSUME NEW m, NEW attempts, NEW minutes, NEW separate \in BOOLEAN,
         {"queries", "sources", "claims", "contradictions", "budget"} \subseteq DOMAIN m,
         List(m.sources), List(attempts), Len(attempts) = Len(m.sources),
         PassesPublic(m, attempts, minutes, separate)
  PROVE  /\ separate /\ PublicGrounded(m, attempts)
         /\ minutes <= BundleBudget(m).minutes
<1> DEFINE b == PublicBundle(m)
<1>1. b.claims = m.claims /\ b.contradictions = m.contradictions
  BY DEF PublicBundle
<1> HIDE DEF b
<1>2. /\ PassesExternal(m, attempts)
      /\ PassesReview(b, BundleBudget(m), PublicUsage(m, minutes), separate)
  BY DEF PassesPublic, b
<1>3. /\ separate /\ WithinBudget(PublicUsage(m, minutes), BundleBudget(m))
      /\ ContradictionsVisible(b)
  BY <1>2, PassesMeans
<1>4. minutes <= BundleBudget(m).minutes
  BY <1>3, BudgetMinutes DEF PublicUsage
<1>5. \A i \in DOMAIN attempts : attempts[i].status \in {"clean", "edited"}
  BY <1>2 DEF PassesExternal, SourcesSafe, CapturedStatuses
<1>6. Cardinality({attempts[i].final : i \in DOMAIN attempts}) = Len(m.sources)
  BY <1>2, PagesDistinct DEF PassesExternal
<1>7. ASSUME NEW i \in DOMAIN m.claims
      PROVE  /\ m.claims[i].type # "user-problem"
             /\ \E s \in m.claims[i].support :
                  /\ attempts[s].status = "clean"
                  /\ m.claims[i].type # "limitation" =>
                       m.sources[s].class \notin {"community", "unverified"}
  <2>1. ClaimIsStrong(m, m.claims[i], attempts)
    BY <1>2 DEF PassesExternal
  <2> QED
    BY <2>1 DEF ClaimIsStrong, QuoteFound, StrongClasses
<1>8. ASSUME NEW i \in DOMAIN m.claims, m.claims[i].contrary # {}
      PROVE  \E k \in DOMAIN m.contradictions : i \in m.contradictions[k].claims
  BY <1>1, <1>3, <1>8 DEF ContradictionsVisible, Contradicted, Disclosed
<1> QED
  BY <1>3, <1>4, <1>5, <1>6, <1>7, <1>8 DEF PublicGrounded

----------------------------------------------------------------------------
(* The steps of a command that gathers. *)

LEMMA Gathered ==
  ASSUME ResearchInv, NEW c \in Commands, Gathers(job[c])
  PROVE  /\ IsRow(job[c]) /\ AskedOK(job[c]) /\ AttemptsOK(job[c]) /\ IsRequest(job[c].request)
         /\ CycleOK(job[c].view) /\ job[c].view.stage = "modeled" /\ job[c].steps = <<>>
         /\ job[c].started \in Nat /\ job[c].began \in Nat /\ clock \in Nat
  BY ResearchBoundAssumption DEF ResearchInv, JobOK, Gathers, AskedOK

\* What a gathering command turns into.
LEMMA GatherOK ==
  ASSUME ResearchInv, NEW c \in Commands, Gathers(job[c]),
         NEW row, IsRow(row), Gathers(row), row.view = job[c].view, row.steps = job[c].steps,
         row.started = job[c].started, row.began \in Nat, AskedOK(row), AttemptsOK(row),
         Put(c, row), Gathering
  PROVE  ResearchInv'
<1>1. JobOK(row)
  BY Gathered DEF JobOK, Gathers
<1> QED
  BY <1>1, GatherStep

LEMMA BeginOK ==
  ASSUME ResearchInv, NEW c \in Commands, Begin(c)
  PROVE  ResearchInv'
<1>1. PICK q \in Requests[c] :
        IF MayBegin(q) /\ Acceptable(q)
          THEN Put(c, [Idle(FirstStep(q)) EXCEPT !.request = q, !.view = cycle,
                                                 !.started = clock, !.began = clock])
          ELSE EndJob(c)
  BY DEF Begin
<1>2. Gathering
  BY DEF Begin
<1>3. CASE MayBegin(q) /\ Acceptable(q)
  <2> DEFINE at == FirstStep(q)
             idle == Idle(at)
             row == [idle EXCEPT !.request = q, !.view = cycle, !.started = clock, !.began = clock]
  <2>1. Put(c, row)
    BY <1>1, <1>3
  <2>2. idle \in RowOf(at, NoRequest, NoRun, 0, 0, <<>>, <<>>, <<>>)
    BY IdleRow
  <2>3. IsRequest(q)
    BY RequestAssumption
  <2>4. /\ q.kind \in Kinds
        /\ at = CASE q.kind = "repository" -> "inspect" [] q.kind = "sources" -> "sources"
                  [] q.kind = "search" -> "queries" [] OTHER -> "review"
    BY <2>3 DEF IsRequest, FirstStep
  <2> HIDE DEF at, idle
  <2>5. row \in RowOf(at, q, cycle, clock, clock, <<>>, <<>>, <<>>)
    BY <2>2 DEF RowOf
  <2> HIDE DEF row
  <2>6. /\ IsRow(row) /\ row.at = at /\ row.request = q /\ row.view = cycle /\ row.started = clock
        /\ row.began = clock /\ row.attempts = <<>> /\ row.steps = <<>>
    BY <2>5, RowFields
  <2>7. cycle.stage = "modeled" /\ clock \in Nat
    BY <1>3, ResearchBoundAssumption DEF MayBegin, ResearchInv
  <2>8. Gathers(row)
    BY <2>4, <2>6 DEF Gathers, Kinds
  <2>9. AskedOK(row)
    <3>1. ASSUME q.kind = "candidates" PROVE q.separate /\ IsCandidateManifest(q.m)
      BY <1>3, <3>1 DEF Acceptable
    <3>2. ASSUME q.kind = "search"
          PROVE  "minutes" \in DOMAIN q.m.budget /\ MinutesBetween(clock, clock) <= q.m.budget.minutes
      <4>1. SearchBudgetParses(q.m)
        BY <1>3, <3>2 DEF Acceptable, IsSearchManifest
      <4>2. "minutes" \in DOMAIN q.m.budget /\ q.m.budget["minutes"] > 0
        BY <4>1 DEF SearchBudgetParses
      <4>3. q.m.budget["minutes"] \in Nat
        BY <2>3, <3>2, <4>2 DEF IsRequest
      <4> QED
        BY <2>7, <4>2, <4>3 DEF MinutesBetween
    <3> QED
      BY <2>3, <2>4, <2>6, <3>1, <3>2 DEF AskedOK
  <2>10. AttemptsOK(row)
    <3>1. ASSUME q.kind = "sources" PROVE 0 < Len(q.m.sources)
      <4>1. q.m.sources # <<>>
        BY <1>3, <3>1 DEF Acceptable, IsPublicManifest
      <4>2. List(q.m.sources)
        BY <2>3, <3>1 DEF IsRequest
      <4> QED
        BY <4>1, <4>2, TailList
    <3> QED
      BY <2>4, <2>6, <3>1, EmptyList DEF AttemptsOK
  <2>11. CycleOK(row.view) /\ row.view.stage = "modeled" /\ row.at # "save"
    BY <2>6, <2>7, <2>8 DEF ResearchInv, Gathers
  <2>12. JobOK(row)
    BY <2>6, <2>7, <2>9, <2>10, <2>11 DEF JobOK
  <2> QED
    BY <1>2, <2>1, <2>12, GatherStep
<1>4. CASE ~(MayBegin(q) /\ Acceptable(q))
  BY <1>1, <1>2, <1>4, EndStep
<1> QED
  BY <1>3, <1>4

LEMMA InspectOK ==
  ASSUME ResearchInv, NEW c \in Commands, Inspect(c)
  PROVE  ResearchInv'
<1>1. job[c].at = "inspect" /\ Gathers(job[c]) /\ Gathering
  BY DEF Inspect, At, Gathers
<1>2. CASE ~job[c].request.separate
  BY <1>1, <1>2, EndStep DEF Inspect
<1>3. CASE job[c].request.separate
  <2>1. PICK inspection \in Inspections :
          LET budget == RepositoryBudget(Asked(c).budget)
          IN IF Sufficient(inspection, budget)
               THEN Put(c, [job[c] EXCEPT !.at = "review",
                              !.request.m = [inspection |-> inspection, budget |-> budget]])
               ELSE Conclude(c)
    BY <1>3 DEF Inspect
  <2> DEFINE budget == RepositoryBudget(Asked(c).budget)
             m == [inspection |-> inspection, budget |-> budget]
             j == job[c]
             row == [j EXCEPT !.at = "review", !.request.m = m]
             q == [kind |-> j.request.kind, separate |-> j.request.separate, m |-> m]
  <2>2. CASE ~Sufficient(inspection, budget)
    BY <1>1, <2>1, <2>2, ConcludeStep
  <2>3. CASE Sufficient(inspection, budget)
    <3>1. Put(c, row) /\ m.inspection = inspection /\ m.budget = budget
      BY <2>1, <2>3
    <3>2. IsRow(j) /\ AskedOK(j) /\ AttemptsOK(j) /\ IsRequest(j.request) /\ j.began \in Nat
      BY <1>1, Gathered
    <3>3. j.request = [kind |-> j.request.kind, separate |-> j.request.separate, m |-> j.request.m]
      BY <3>2 DEF IsRequest
    <3>4. j.at = "inspect" /\ j.request.separate
      BY <1>1, <1>3
    <3> HIDE DEF j, m, budget
    <3>5. row \in RowOf("review", q, j.view, j.started, j.began, j.answers, j.attempts, j.steps)
      BY <3>2, <3>3 DEF IsRow, RowOf
    <3>6. q.kind = j.request.kind /\ q.separate = j.request.separate /\ q.m = m
      OBVIOUS
    <3> HIDE DEF row
    <3>7. /\ IsRow(row) /\ row.at = "review" /\ row.request = q /\ row.view = j.view
          /\ row.started = j.started /\ row.began = j.began /\ row.attempts = j.attempts
          /\ row.steps = j.steps
      BY <3>5, RowFields
    <3>8. q.kind = "repository"
      BY <3>2, <3>4, <3>6 DEF AskedOK, IsRequest, Kinds
    <3>9. IsRequest(q)
      BY <3>2, <3>6, <3>8 DEF IsRequest
    <3> HIDE DEF q
    <3>10. AskedOK(row)
      BY <2>3, <3>1, <3>4, <3>6, <3>7, <3>8, <3>9 DEF AskedOK
    <3>11. AttemptsOK(row) /\ Gathers(row)
      BY <3>2, <3>7, <3>8 DEF AttemptsOK, Gathers
    <3> QED
      BY <1>1, <3>1, <3>2, <3>7, <3>10, <3>11, GatherOK DEF j
  <2> QED
    BY <2>2, <2>3
<1> QED
  BY <1>2, <1>3

\* A step that only moves on.
LEMMA AskOK ==
  ASSUME ResearchInv, NEW c \in Commands, Ask(c)
  PROVE  ResearchInv'
<1>1. job[c].at = "queries" /\ Gathers(job[c]) /\ Gathering
  BY DEF Ask, At, Gathers
<1>2. CASE ~MayQuery(c)
  BY <1>1, <1>2, ConcludeStep DEF Ask
<1>3. CASE MayQuery(c)
  <2> DEFINE j == job[c]
             row == [j EXCEPT !.at = "asking"]
  <2>1. Put(c, row)
    BY <1>3 DEF Ask, Do
  <2>2. IsRow(j) /\ AskedOK(j) /\ AttemptsOK(j) /\ IsRequest(j.request) /\ j.began \in Nat /\ j.at = "queries"
    BY <1>1, Gathered
  <2> HIDE DEF j
  <2>3. row \in RowOf("asking", j.request, j.view, j.started, j.began, j.answers, j.attempts, j.steps)
    BY <2>2 DEF IsRow, RowOf
  <2> HIDE DEF row
  <2>4. /\ IsRow(row) /\ row.at = "asking" /\ row.request = j.request /\ row.view = j.view
        /\ row.started = j.started /\ row.began = j.began /\ row.attempts = j.attempts
        /\ row.steps = j.steps
    BY <2>3, RowFields
  <2>5. AskedOK(row) /\ AttemptsOK(row) /\ Gathers(row)
    BY <2>2, <2>4 DEF AskedOK, AttemptsOK, Gathers, IsRequest, Kinds
  <2> QED
    BY <1>1, <2>1, <2>2, <2>4, <2>5, GatherOK DEF j
<1> QED
  BY <1>2, <1>3

LEMMA AnswerOK ==
  ASSUME ResearchInv, NEW c \in Commands, Answer(c) \/ QueryFails(c)
  PROVE  ResearchInv'
<1>1. job[c].at = "asking" /\ Gathers(job[c]) /\ Gathering
  BY DEF Answer, QueryFails, At, Gathers
<1>2. CASE Conclude(c)
  BY <1>1, <1>2, ConcludeStep
<1>3. CASE ~Conclude(c)
  <2> DEFINE j == job[c]
  <2>1. PICK reply \in Replies :
          LET answers == Append(job[c].answers, reply)
              all == Len(answers) = Len(Asked(c).queries)
          IN Put(c, [job[c] EXCEPT !.answers = answers, !.at = IF all THEN "select" ELSE "queries"])
    BY <1>3 DEF Answer, QueryFails
  <2> DEFINE answers == Append(job[c].answers, reply)
             at == IF Len(answers) = Len(Asked(c).queries) THEN "select" ELSE "queries"
             row == [j EXCEPT !.answers = answers, !.at = at]
  <2>2. Put(c, row) /\ at \in {"select", "queries"}
    BY <2>1
  <2>3. IsRow(j) /\ AskedOK(j) /\ AttemptsOK(j) /\ IsRequest(j.request) /\ j.began \in Nat /\ j.at = "asking"
    BY <1>1, Gathered
  <2> HIDE DEF j, answers, at
  <2>4. row \in RowOf(at, j.request, j.view, j.started, j.began, answers, j.attempts, j.steps)
    BY <2>3 DEF IsRow, RowOf
  <2> HIDE DEF row
  <2>5. /\ IsRow(row) /\ row.at = at /\ row.request = j.request /\ row.view = j.view
        /\ row.started = j.started /\ row.began = j.began /\ row.attempts = j.attempts
        /\ row.steps = j.steps
    BY <2>4, RowFields
  <2>6. AskedOK(row) /\ AttemptsOK(row) /\ Gathers(row)
    BY <2>2, <2>3, <2>5 DEF AskedOK, AttemptsOK, Gathers, IsRequest, Kinds
  <2> QED
    BY <1>1, <2>2, <2>3, <2>5, <2>6, GatherOK DEF j
<1> QED
  BY <1>2, <1>3

\* The manifest of the retrieval has the sources and the limits of the search.
LEMMA Addressed ==
  ASSUME NEW q, IsRequest(q), q.kind \in {"sources", "search"}, NEW answers
  PROVE  LET m == WithAddresses(q.m, answers) IN
         /\ {"queries", "sources", "claims", "contradictions", "budget"} \subseteq DOMAIN m
         /\ List(m.sources) /\ m.budget = q.m.budget
<1> DEFINE addressed == [i \in DOMAIN q.m.sources |->
                           [q.m.sources[i] EXCEPT !.url = Resolved(q.m, answers)[i]]]
           m == WithAddresses(q.m, answers)
<1>1. {"queries", "sources", "claims", "contradictions", "budget"} \subseteq DOMAIN q.m /\ List(q.m.sources)
  BY DEF IsRequest
<1>2. m = [q.m EXCEPT !.sources = addressed]
  BY DEF WithAddresses
<1>3. List(addressed)
  <2>1. DOMAIN q.m.sources = 1..Len(q.m.sources) /\ Len(q.m.sources) \in Nat
    BY <1>1, ListFacts
  <2> DEFINE n == Len(q.m.sources)
  <2>2. addressed \in [1..n -> ToSet(addressed)]
    BY <2>1 DEF ToSet
  <2> HIDE DEF addressed, n
  <2>3. addressed \in Seq(ToSet(addressed))
    BY <2>1, <2>2 DEF n
  <2> QED
    BY <2>3 DEF List
<1> HIDE DEF addressed, m
<1> QED
  BY <1>1, <1>2, <1>3 DEF m

LEMMA SelectOK ==
  ASSUME ResearchInv, NEW c \in Commands, Select(c)
  PROVE  ResearchInv'
<1> DEFINE m == WithAddresses(Asked(c), job[c].answers)
<1>1. job[c].at = "select" /\ Gathers(job[c]) /\ Gathering
  BY DEF Select, At, Gathers
<1>2. CASE Conclude(c) \/ EndJob(c)
  BY <1>1, <1>2, ConcludeStep, EndStep
<1>3. CASE ~(Conclude(c) \/ EndJob(c))
  <2> DEFINE j == job[c]
             row == [j EXCEPT !.at = "sources", !.request.m = m, !.answers = <<>>]
             q == [kind |-> j.request.kind, separate |-> j.request.separate, m |-> m]
  <2>1. IsPublicManifest(m) /\ Put(c, row)
    BY <1>3 DEF Select
  <2>2. IsRow(j) /\ AskedOK(j) /\ AttemptsOK(j) /\ IsRequest(j.request) /\ j.began \in Nat /\ j.at = "select"
    BY <1>1, Gathered
  <2>3. j.request.kind = "search" /\ j.attempts = <<>>
    BY <2>2 DEF AskedOK, AttemptsOK, IsRequest, Kinds
  <2>4. /\ {"queries", "sources", "claims", "contradictions", "budget"} \subseteq DOMAIN m
        /\ List(m.sources) /\ m.budget = j.request.m.budget
    BY <2>2, <2>3, Addressed DEF Asked
  <2>5. j.request = [kind |-> j.request.kind, separate |-> j.request.separate, m |-> j.request.m]
    BY <2>2 DEF IsRequest
  <2>6. 0 < Len(m.sources)
    BY <2>1, <2>4, TailList DEF IsPublicManifest
  <2> HIDE DEF j, m
  <2>7. row \in RowOf("sources", q, j.view, j.started, j.began, <<>>, j.attempts, j.steps)
    BY <2>2, <2>5 DEF IsRow, RowOf
  <2>8. q.kind = j.request.kind /\ q.separate = j.request.separate /\ q.m = m
    OBVIOUS
  <2> HIDE DEF row
  <2>9. /\ IsRow(row) /\ row.at = "sources" /\ row.request = q /\ row.view = j.view
        /\ row.started = j.started /\ row.began = j.began /\ row.attempts = j.attempts
        /\ row.steps = j.steps
    BY <2>7, RowFields
  <2>10. IsRequest(q)
    BY <2>2, <2>3, <2>4, <2>8 DEF IsRequest
  <2> HIDE DEF q
  <2>11. AskedOK(row)
    BY <2>2, <2>3, <2>4, <2>8, <2>9, <2>10 DEF AskedOK
  <2>12. AttemptsOK(row) /\ Gathers(row)
    BY <2>3, <2>6, <2>8, <2>9, EmptyList DEF AttemptsOK, Gathers
  <2> QED
    BY <1>1, <2>1, <2>2, <2>9, <2>11, <2>12, GatherOK DEF j
<1> QED
  BY <1>2, <1>3

\* The attempts stay as many as the sources that were tried.
LEMMA AttemptedOK ==
  ASSUME ResearchInv, NEW c \in Commands, job[c].at \in {"sources", "capture"},
         NEW attempt, Attempted(c, attempt), Gathering
  PROVE  ResearchInv'
<1> DEFINE j == job[c]
           attempts == Append(j.attempts, attempt)
           at == IF AllAttempted(attempts, Asked(c)) THEN "review" ELSE "sources"
           row == [j EXCEPT !.attempts = attempts, !.at = at]
<1>1. Put(c, row)
  BY DEF Attempted
<1>2. Gathers(j)
  BY DEF Gathers
<1>3. IsRow(j) /\ AskedOK(j) /\ AttemptsOK(j) /\ IsRequest(j.request) /\ j.began \in Nat
  BY <1>2, Gathered
<1>4. j.at \in {"sources", "capture"} /\ j.request.kind \in {"sources", "search"}
  BY <1>3 DEF AskedOK, IsRequest, Kinds
<1>5. List(attempts) /\ Len(attempts) = Len(j.attempts) + 1
  BY <1>3, AppendList DEF AttemptsOK
<1>6. Len(j.attempts) < Len(j.request.m.sources) /\ Len(j.attempts) \in Nat /\ Len(j.request.m.sources) \in Nat
  BY <1>3, <1>4, ListFacts DEF AttemptsOK, IsRequest
<1>7. at = IF Len(attempts) = Len(j.request.m.sources) THEN "review" ELSE "sources"
  BY DEF AllAttempted, Asked
<1> HIDE DEF j, attempts, at
<1>8. row \in RowOf(at, j.request, j.view, j.started, j.began, j.answers, attempts, j.steps)
  BY <1>3 DEF IsRow, RowOf
<1> HIDE DEF row
<1>9. /\ IsRow(row) /\ row.at = at /\ row.request = j.request /\ row.view = j.view
      /\ row.started = j.started /\ row.began = j.began /\ row.attempts = attempts
      /\ row.steps = j.steps
  BY <1>8, RowFields
<1>10. AskedOK(row)
  BY <1>3, <1>4, <1>7, <1>9 DEF AskedOK
<1>11. AttemptsOK(row) /\ Gathers(row)
  BY <1>5, <1>6, <1>7, <1>9 DEF AttemptsOK, Gathers
<1> QED
  BY <1>1, <1>2, <1>3, <1>9, <1>10, <1>11, GatherOK DEF j

\* A search starts to fetch a page only in the time of its plan.
LEMMA RetrieveOK ==
  ASSUME ResearchInv, NEW c \in Commands, Retrieve(c)
  PROVE  ResearchInv'
<1>1. job[c].at = "sources" /\ Gathers(job[c]) /\ Gathering
  BY DEF Retrieve, At, Gathers
<1>2. CASE ~MayRetrieve(c)
  BY <1>1, <1>2, AttemptedOK DEF Retrieve
<1>3. CASE MayRetrieve(c)
  <2> DEFINE j == job[c]
             row == [j EXCEPT !.at = "capture", !.began = clock]
  <2>1. Put(c, row)
    BY <1>3 DEF Retrieve
  <2>2. /\ IsRow(j) /\ AskedOK(j) /\ AttemptsOK(j) /\ IsRequest(j.request) /\ clock \in Nat
        /\ j.at = "sources" /\ j.started \in Nat
    BY <1>1, Gathered
  <2>3. ASSUME j.request.kind = "search"
        PROVE  MinutesBetween(j.started, clock) <= j.request.m.budget.minutes
    <3>1. "minutes" \in DOMAIN j.request.m.budget /\ j.request.m.budget["minutes"] \in Nat
      BY <2>2, <2>3 DEF AskedOK, IsRequest
    <3>2. ~(Minutes(c) > j.request.m.budget["minutes"])
      BY <1>3, <3>1 DEF MayRetrieve, RetrievalInTime, Exceeds, Asked
    <3>3. Minutes(c) = MinutesBetween(j.started, clock) /\ MinutesBetween(j.started, clock) \in Int
      BY <2>2 DEF Minutes, MinutesBetween
    <3> HIDE DEF j
    <3> QED
      BY <3>1, <3>2, <3>3
  <2> HIDE DEF j
  <2>4. row \in RowOf("capture", j.request, j.view, j.started, clock, j.answers, j.attempts, j.steps)
    BY <2>2 DEF IsRow, RowOf
  <2> HIDE DEF row
  <2>5. /\ IsRow(row) /\ row.at = "capture" /\ row.request = j.request /\ row.view = j.view
        /\ row.started = j.started /\ row.began = clock /\ row.attempts = j.attempts
        /\ row.steps = j.steps
    BY <2>4, RowFields
  <2>6. AskedOK(row)
    BY <2>2, <2>3, <2>5 DEF AskedOK, IsRequest, Kinds
  <2>7. AttemptsOK(row) /\ Gathers(row)
    BY <2>2, <2>5 DEF AttemptsOK, Gathers
  <2> QED
    BY <1>1, <2>1, <2>2, <2>5, <2>6, <2>7, GatherOK DEF j
<1> QED
  BY <1>2, <1>3

LEMMA CaptureOK ==
  ASSUME ResearchInv, NEW c \in Commands, CapturePage(c) \/ Quarantine(c) \/ CaptureFails(c)
  PROVE  ResearchInv'
  BY AttemptedOK DEF CapturePage, Quarantine, CaptureFails, At

----------------------------------------------------------------------------
(* The reviews. *)

LEMMA RunFields ==
  ASSUME NEW c, NEW attempts
  PROVE  /\ RunOf(c, attempts).by = c /\ RunOf(c, attempts).request = job[c].request
         /\ RunOf(c, attempts).attempts = attempts
         /\ RunOf(c, attempts).minutes = Minutes(c)
         /\ RunOf(c, attempts).late = MinutesBetween(job[c].started, job[c].began)
  BY DEF RunOf, Minutes

LEMMA ReviewRepositoryOK ==
  ASSUME ResearchInv, NEW c \in Commands, ReviewRepository(c)
  PROVE  ResearchInv'
<1> DEFINE m == Asked(c)
           b == RepositoryBundle(m.inspection, m.budget)
           run == RunOf(c, job[c].attempts)
           selected == b.decision.selected
           passes == IsBundle(b) /\ PassesReview(b, b.budget, RepositoryUsage(b, Minutes(c)), TRUE)
<1>1. /\ job[c].at = "review" /\ Gathers(job[c]) /\ Gathering /\ job[c].request.kind = "repository"
      /\ AcceptIf(passes, c, selected)
  BY DEF ReviewRepository, At, Gathers
<1>2. b.budget = m.budget /\ selected = Chosen(m.inspection)
  BY DEF RepositoryBundle
<1>3. m = run.request.m /\ run.request = job[c].request /\ run.minutes = Minutes(c)
  BY RunFields DEF Asked
<1>4. job[c].request.separate /\ Sufficient(m.inspection, m.budget)
  BY <1>1, Gathered DEF AskedOK, Asked
<1> HIDE DEF m, run, selected, b
<1>5. CASE passes
  <2>1. Minutes(c) <= m.budget.minutes
    <3>1. WithinBudget(RepositoryUsage(b, Minutes(c)), b.budget)
      BY <1>5, PassesMeans
    <3> QED
      BY <1>2, <3>1, BudgetMinutes DEF RepositoryUsage
  <2>2. RepositoryGrounded(m, selected)
    BY <1>2, <1>4 DEF RepositoryGrounded, Sufficient, Chosen, Foundation, UserStudy
  <2>3. Grounded(run, selected)
    BY <1>1, <1>3, <2>2 DEF Grounded
  <2>4. InTime(run)
    BY <1>1, <1>3, <2>1 DEF InTime, PlannedMinutes
  <2>5. Decides(run, selected)
    BY <1>3, <1>4, <2>3, <2>4 DEF Decides
  <2>6. Accept(c, selected)
    BY <1>1, <1>5 DEF AcceptIf
  <2> QED
    BY <1>1, <2>5, <2>6, AcceptStep DEF run
<1>6. CASE ~passes
  BY <1>1, <1>6, EndStep DEF AcceptIf
<1> QED
  BY <1>5, <1>6

LEMMA ReviewCandidatesOK ==
  ASSUME ResearchInv, NEW c \in Commands, ReviewCandidates(c)
  PROVE  ResearchInv'
<1> DEFINE m == Asked(c)
           b == CandidateBundle(m)
           run == RunOf(c, job[c].attempts)
           selected == b.decision.selected
           passes == IsBundle(b) /\ PassesReview(b, b.budget, CandidateUsage(b, Minutes(c)), TRUE)
<1>1. job[c].at = "review" /\ Gathers(job[c]) /\ Gathering /\ job[c].request.kind = "candidates"
  BY DEF ReviewCandidates, At, Gathers
<1>2. CASE ~Covered(m)
  BY <1>1, <1>2, ConcludeStep DEF ReviewCandidates
<1>3. CASE Covered(m)
  <2>1. AcceptIf(passes, c, selected)
    BY <1>3 DEF ReviewCandidates
  <2>2. CASE ~passes
    BY <1>1, <2>1, <2>2, EndStep DEF AcceptIf
  <2>3. CASE passes
    <3>1. selected = Best(m)
      BY DEF CandidateBundle
    <3>2. m = run.request.m /\ run.request = job[c].request
      BY RunFields DEF Asked
    <3>3. job[c].request.separate /\ IsCandidateManifest(m) /\ List(m.candidates)
      BY <1>1, Gathered DEF AskedOK, IsRequest, Asked
    <3> HIDE DEF m, run
    <3>4. CandidateGrounded(m, Best(m))
      BY <1>3, <3>3, BestLeads
    <3> HIDE DEF selected
    <3>5. Decides(run, selected)
      BY <1>1, <3>1, <3>2, <3>3, <3>4 DEF Decides, Grounded, InTime
    <3>6. Accept(c, selected)
      BY <2>1, <2>3 DEF AcceptIf
    <3> QED
      BY <1>1, <3>5, <3>6, AcceptStep DEF run
  <2> QED
    BY <2>2, <2>3
<1> QED
  BY <1>2, <1>3

LEMMA ReviewHandoffOK ==
  ASSUME ResearchInv, NEW c \in Commands, ReviewHandoff(c)
  PROVE  ResearchInv'
<1>1. Gathers(job[c]) /\ Gathering
  BY DEF ReviewHandoff, At, Gathers
<1> DEFINE steps == Completed(c, NoRun, "none", Asked(c).decision.selected)
<1>2. Prepare(c, steps)
  BY DEF ReviewHandoff
<1>3. StepsOK(job[c].view, steps)
  BY <1>1, Gathered, CompletedOK
<1> HIDE DEF steps
<1> QED
  BY <1>1, <1>2, <1>3, PreparedStep

LEMMA ReviewPublicOK ==
  ASSUME ResearchInv, NEW c \in Commands, ReviewPublic(c)
  PROVE  ResearchInv'
<1> DEFINE m == Asked(c)
           j == job[c]
           run == RunOf(c, j.attempts)
           selected == m.decision.selected
<1>1. /\ j.at = "review" /\ Gathers(j) /\ Gathering /\ j.request.kind \in {"sources", "search"}
  BY DEF ReviewPublic, At, Gathers
<1>2. CASE ~PublicPasses(c)
  BY <1>1, <1>2, ConcludeStep DEF ReviewPublic
<1>3. CASE PublicPasses(c)
  <2>1. Accept(c, selected)
    BY <1>3 DEF ReviewPublic
  <2>2. AskedOK(j) /\ AttemptsOK(j) /\ IsRequest(j.request)
    BY <1>1, Gathered
  <2>3. PassesPublic(m, j.attempts, ReviewedMinutes(c), j.request.separate)
    BY <1>3 DEF PublicPasses, PassesSearch
  <2>4. /\ {"queries", "sources", "claims", "contradictions", "budget"} \subseteq DOMAIN m
        /\ List(m.sources) /\ List(j.attempts) /\ Len(j.attempts) = Len(m.sources)
        /\ j.request.separate \in BOOLEAN
    BY <1>1, <2>2 DEF AttemptsOK, IsRequest, Asked
  <2>5. /\ m = run.request.m /\ run.request = j.request /\ run.attempts = j.attempts
        /\ run.minutes = Minutes(c) /\ run.late = MinutesBetween(j.started, j.began)
    BY RunFields DEF Asked
  <2>6. j.request.kind # "search" => ReviewedMinutes(c) = Minutes(c)
    BY DEF ReviewedMinutes
  <2>7. j.request.kind = "search" => MinutesBetween(j.started, j.began) <= m.budget.minutes
    BY <2>2 DEF AskedOK, Asked
  <2> HIDE DEF m, run, selected, j
  <2>8. j.request.separate /\ PublicGrounded(m, j.attempts) /\ ReviewedMinutes(c) <= BundleBudget(m).minutes
    BY <2>3, <2>4, PublicHolds
  <2>9. Grounded(run, selected)
    BY <1>1, <2>5, <2>8 DEF Grounded
  <2>10. InTime(run)
    BY <1>1, <2>5, <2>6, <2>7, <2>8 DEF InTime, PlannedMinutes
  <2>11. Decides(run, selected)
    BY <2>5, <2>8, <2>9, <2>10 DEF Decides
  <2> QED
    BY <1>1, <2>1, <2>11, AcceptStep DEF run, j
<1> QED
  BY <1>2, <1>3

----------------------------------------------------------------------------
(* Saves, and what happens around the commands. *)

\* What a save stores, and what it leaves to save.
LEMMA SavedStep ==
  ASSUME ResearchInv, NEW c \in Commands, Save(c), cycle' # cycle
  PROVE  /\ cycle = job[c].view /\ cycle' = job[c].steps[1] /\ StepsOK(job[c].view, job[c].steps)
         /\ job[c].at = "save"
  BY TailList DEF ResearchInv, JobOK, Save, At, UnchangedSince, EndJob, StepsOK

LEMMA SaveOK ==
  ASSUME ResearchInv, NEW c \in Commands, Save(c)
  PROVE  ResearchInv'
<1> DEFINE j == job[c]
<1>1. /\ IsRow(j) /\ j.at = "save" /\ StepsOK(j.view, j.steps) /\ j.started \in Nat /\ j.began \in Nat
      /\ UNCHANGED <<clock, kills, moves>>
  BY DEF Save, At, ResearchInv, JobOK
<1>2. CASE cycle # j.view
  <2>1. EndJob(c) /\ cycle' = cycle
    BY <1>2 DEF Save, UnchangedSince
  <2> QED
    BY <1>1, <2>1, JobStep, EndedOK DEF EndJob, Put, ResearchInv
<1>3. CASE cycle = j.view
  <2> DEFINE next == Head(j.steps)
             rest == Tail(j.steps)
             row == [j EXCEPT !.view = next, !.steps = rest]
  <2>1. cycle' = next /\ IF rest = <<>> THEN EndJob(c) ELSE Put(c, row)
    BY <1>3 DEF Save, UnchangedSince
  <2>2. /\ List(rest) /\ Len(rest) = Len(j.steps) - 1 /\ next = j.steps[1] /\ Len(j.steps) \in Nat \ {0}
        /\ \A i \in 1..Len(rest) : rest[i] = j.steps[i + 1]
    BY <1>1, TailList DEF StepsOK
  <2>3. CycleOK(next) /\ (next.stage = "inconclusive" => next.review # "pass")
    BY <1>1, <2>2 DEF StepsOK
  <2>4. JobOK(row) \/ rest = <<>>
    <3>1. SUFFICES ASSUME rest # <<>> PROVE JobOK(row)
      OBVIOUS
    <3>2. Len(rest) \in Nat \ {0}
      BY <2>2, <3>1, TailList
    <3>3. Follows(next, rest[1])
      <4> DEFINE m == Len(rest)
                 n == Len(j.steps)
      <4>1. 1 \in 1..n /\ 1 < n /\ 1 \in 1..m /\ 1 + 1 = 2
        <5>1. m \in Nat \ {0} /\ n \in Nat \ {0} /\ m = n - 1
          BY <2>2, <3>2
        <5> HIDE DEF m, n
        <5> QED
          BY <5>1
      <4>2. Follows(j.steps[1], j.steps[2])
        BY <1>1, <4>1 DEF StepsOK
      <4> QED
        BY <2>2, <4>1, <4>2
    <3>4. ASSUME NEW i \in 1..Len(rest)
          PROVE  /\ CycleOK(rest[i])
                 /\ rest[i].stage = "inconclusive" => rest[i].review # "pass"
                 /\ i < Len(rest) => Follows(rest[i], rest[i + 1])
      <4>1. i + 1 \in 1..Len(j.steps) /\ rest[i] = j.steps[i + 1]
        BY <2>2
      <4>2. i < Len(rest) => i + 1 < Len(j.steps) /\ i + 1 \in 1..Len(rest) /\ rest[i + 1] = j.steps[(i + 1) + 1]
        BY <2>2
      <4> QED
        BY <1>1, <4>1, <4>2 DEF StepsOK
    <3>5. StepsOK(next, rest)
      BY <2>2, <3>1, <3>3, <3>4 DEF StepsOK
    <3> HIDE DEF j, next, rest
    <3>6. row \in RowOf(j.at, j.request, next, j.started, j.began, j.answers, j.attempts, rest)
      BY <1>1, RowToSave
    <3> HIDE DEF row
    <3>7. IsRow(row) /\ row.at = "save" /\ row.view = next /\ row.steps = rest
          /\ row.started = j.started /\ row.began = j.began
      BY <1>1, <3>6, RowFields
    <3> QED
      BY <1>1, <3>5, <3>7 DEF JobOK, Gathers
  <2>5. PICK new : JobOK(new) /\ job' = [job EXCEPT ![c] = new]
    BY <2>1, <2>4, EndedOK DEF EndJob, Put
  <2>6. job' = [d \in Commands |-> job'[d]] /\ \A d \in Commands : JobOK(job'[d])
    BY <2>5 DEF ResearchInv
  <2> HIDE DEF next, rest, row, j
  <2> QED
    BY <1>1, <2>1, <2>3, <2>6 DEF ResearchInv
<1> QED
  BY <1>2, <1>3

LEMMA KillOK ==
  ASSUME ResearchInv, NEW c \in Commands, Kill(c)
  PROVE  ResearchInv'
<1>1. kills' \in 0..MaxKills
  BY ResearchBoundAssumption DEF Kill, ResearchInv
<1> QED
  BY <1>1, JobStep, EndedOK DEF Kill, EndJob, Put

\* A move by hand leaves runs and decisions alone.
LEMMA AdvanceStep ==
  ASSUME ResearchInv, Advance
  PROVE  Follows(cycle, cycle') /\ CycleOK(cycle')
<1>1. PICK to \in Stages :
        MayTransition(cycle, to, Buckets, FALSE) /\ cycle' = Moved(cycle, to, RequiredArtifacts(to))
  BY DEF Advance
<1>2. CycleOK(cycle) /\ Shaped(cycle) /\ cycle.stage \in Stages \ {"created", "observed"}
  BY DEF ResearchInv, CycleOK
<1> DEFINE added == RequiredArtifacts(to)
<1> HIDE DEF added
<1>3. /\ Shaped(cycle') /\ cycle'.stage = to
      /\ cycle'.run = cycle.run /\ cycle'.review = cycle.review /\ cycle'.decision = cycle.decision
  BY <1>1, <1>2, Moving DEF added
<1>4. CanTransition(cycle.stage, to)
  BY <1>1 DEF MayTransition
<1>5. to \notin {"created", "observed", "modeled"}
  BY <1>2, <1>4, NeverBack
<1>6. Warranted(cycle')
  BY <1>2, <1>3 DEF CycleOK, Warranted, Decided
<1> QED
  BY <1>2, <1>3, <1>4, <1>5, <1>6 DEF CycleOK, Follows

LEMMA AdvanceOK ==
  ASSUME ResearchInv, Advance
  PROVE  ResearchInv'
<1>1. moves' \in 0..MaxMoves /\ moves' > 0 /\ UNCHANGED <<job, clock, kills>>
  BY ResearchBoundAssumption DEF Advance, ResearchInv
<1> QED
  BY <1>1, AdvanceStep DEF ResearchInv

LEMMA TickOK ==
  ASSUME ResearchInv, Tick
  PROVE  ResearchInv'
  BY ResearchBoundAssumption DEF Tick, ResearchInv

----------------------------------------------------------------------------
LEMMA InitOK ==
  ASSUME Init
  PROVE  ResearchInv
<1>1. PICK profile \in Profiles : cycle = Loaded(profile)
  BY DEF Init
<1>2. Shaped(cycle) /\ cycle.stage = "modeled" /\ Blank(cycle)
  BY <1>1 DEF Loaded, Shaped, Blank
<1>3. CycleOK(cycle)
  BY <1>2, StagesAre, Unwarranted DEF CycleOK, Blank, NoRun, NoDecision, Someone
<1>4. job = [c \in Commands |-> job[c]] /\ \A c \in Commands : JobOK(job[c])
  BY EndedOK DEF Init
<1> QED
  BY <1>2, <1>3, <1>4, ResearchBoundAssumption DEF Init, ResearchInv

LEMMA NextOK ==
  ASSUME ResearchInv, [Next]_vars
  PROVE  ResearchInv'
<1>1. CASE UNCHANGED vars
  BY <1>1 DEF vars, ResearchInv
<1>2. ASSUME NEW c \in Commands, Step(c) PROVE ResearchInv'
  BY <1>2, BeginOK, InspectOK, AskOK, AnswerOK, SelectOK, RetrieveOK, CaptureOK, ReviewRepositoryOK,
     ReviewCandidatesOK, ReviewHandoffOK, ReviewPublicOK, SaveOK, KillOK DEF Step
<1> QED
  BY <1>1, <1>2, AdvanceOK, TickOK DEF Next

LEMMA ResearchInvariant == Spec => []ResearchInv
  BY InitOK, NextOK, PTL DEF Spec

\* Every reachable state of the stored cycle and of the commands is one that
\* the commands can leave, for any commands and requests.
THEOREM ResearchTypes == Spec => []TypeOK
<1>1. ResearchInv => TypeOK
  BY DEF ResearchInv, CycleOK, JobOK, StepsOK, TypeOK, At
<1> QED
  BY <1>1, ResearchInvariant, PTL

\* A decision that a research command saved was reviewed by another actor over
\* the very run that is stored with it, and its evidence holds
\* (evaluatePreparedResearch and the reviews around it).
THEOREM DecisionsHaveGrounds == Spec => []DecisionsAreGrounded
<1>1. ResearchInv => DecisionsAreGrounded
  BY DEF ResearchInv, CycleOK, Warranted, DecisionsAreGrounded
<1> QED
  BY <1>1, ResearchInvariant, PTL

\* What a repository or source review decides on was gathered within the minutes
\* of its plan (repository-research.ts and public-research.ts, the checks of usage).
\* Of a search only the start of its last fetch is bounded: public-search.ts reads
\* the time once, when the command begins, so what the search took in all is not.
THEOREM DecisionsWereInTime == Spec => []DecisionsInTime
<1>1. ResearchInv => DecisionsInTime
  BY DEF ResearchInv, CycleOK, Warranted, DecisionsInTime
<1> QED
  BY <1>1, ResearchInvariant, PTL

\* The stored cycle only moves along the transitions, and a run, a review or a
\* decision once stored is never replaced.
THEOREM StoredIsKept == Spec => ResearchIsAppended
<1>1. ResearchInv /\ [Next]_vars =>
        [/\ cycle' # cycle => CanTransition(cycle.stage, cycle'.stage)
         /\ cycle.run # NoRun => cycle'.run = cycle.run
         /\ cycle.review # "none" => cycle'.review = cycle.review
         /\ cycle.decision # NoDecision => cycle'.decision = cycle.decision]_vars
  <2> SUFFICES ASSUME ResearchInv, Next, cycle' # cycle PROVE Follows(cycle, cycle')
    BY DEF Follows
  <2>1. ASSUME NEW c \in Commands, Step(c) PROVE Save(c)
    BY <2>1 DEF Step, Gathering, Begin, Inspect, Ask, Answer, QueryFails, Select, Retrieve, CapturePage,
       Quarantine, CaptureFails, ReviewRepository, ReviewCandidates, ReviewHandoff, ReviewPublic, Kill
  <2>2. ASSUME NEW c \in Commands, Save(c) PROVE Follows(cycle, cycle')
    BY <2>2, SavedStep DEF StepsOK
  <2> QED
    BY <2>1, <2>2, AdvanceStep DEF Next, Tick
<1> QED
  BY <1>1, ResearchInvariant, PTL DEF Spec, ResearchIsAppended
=============================================================================
