------------------------------ MODULE Research ------------------------------
(***************************************************************************)
(* The research commands of one evolution cycle, from a modeled cycle to a *)
(* planned or an inconclusive one: research-repository, the candidate, the *)
(* public source and the public search commands, and prepare-handoff       *)
(* (packages/evolution-core/src/cli.ts, candidate-cli.ts, public-cli.ts,   *)
(* search-cli.ts and the modules they call).                               *)
(*                                                                         *)
(* A command loads the cycle, gathers evidence while other commands and    *)
(* the clock go on, reviews what it has in one step, and then saves the    *)
(* stages it prepared one after the other; a save is refused when the      *)
(* stored cycle is no longer the one the step was derived from, and a      *)
(* command may be killed before any of them.                               *)
(***************************************************************************)
EXTENDS CycleStages, PublicSearch, RepositoryResearch, CandidateResearch

CONSTANTS Commands,   \* the commands, each given once
          Requests,   \* what each command may be asked to do
          Inspections,\* what an inspection of the repository may find
          Profiles,   \* autonomy, risk and approvals of the cycle
          Urls,       \* addresses a search or a redirect can lead to
          Providers,  \* the search providers there are
          MaxResults, \* bound: ranked results of one search
          MaxClock,   \* bound: minutes that pass
          MaxKills,   \* bound: commands that are killed
          MaxMoves    \* bound: moves an operator makes by hand

Kinds == {"repository", "candidates", "sources", "search", "handoff"}
List(s) == s \in Seq(ToSet(s))

\* The parsers of all kinds see to it that lists are lists and limits numbers,
\* and the command line that a request has a kind.
IsRequest(q) ==
  /\ q = [kind |-> q.kind, separate |-> q.separate, m |-> q.m]
  /\ q.kind \in Kinds /\ q.separate \in BOOLEAN
  /\ q.kind = "candidates" => List(q.m.candidates)
  /\ q.kind \in {"sources", "search"} =>
       /\ {"queries", "sources", "claims", "contradictions", "budget"} \subseteq DOMAIN q.m
       /\ List(q.m.sources)
       /\ \A key \in DOMAIN q.m.budget : q.m.budget[key] \in Nat

ASSUME ResearchBoundAssumption == {MaxResults, MaxClock, MaxKills, MaxMoves} \subseteq Nat
ASSUME RequestAssumption ==
  "none" \notin Commands /\ \A c \in Commands : \A q \in Requests[c] : IsRequest(q)

VARIABLES cycle,  \* the stored cycle
          job,    \* what each command is doing
          clock,  \* minutes
          kills,
          moves

vars == <<cycle, job, clock, kills, moves>>

NoRun == [by |-> "none"]
NoDecision == [by |-> "none", selected |-> 0]
NoRequest == [kind |-> "none"]

Loaded(profile) ==
  [stage |-> "modeled", filled |-> {"baseline", "model"}, autonomy |-> profile.autonomy,
   risk |-> profile.risk, approvals |-> profile.approvals,
   run |-> NoRun, review |-> "none", decision |-> NoDecision]

Idle(at) ==
  [at |-> at, request |-> NoRequest, view |-> NoRun, started |-> 0, began |-> 0,
   answers |-> <<>>, attempts |-> <<>>, steps |-> <<>>]

At(c, at) == job[c].at = at
Asked(c) == job[c].request.m
Put(c, row) == job' = [job EXCEPT ![c] = row]
Do(c, at) == Put(c, [job[c] EXCEPT !.at = at])
EndJob(c) == Put(c, Idle("ended"))

\* The rest of the world does not move with a command that gathers.
Gathering == UNCHANGED <<cycle, clock, kills, moves>>

----------------------------------------------------------------------------
Init ==
  /\ \E profile \in Profiles : cycle = Loaded(profile)
  /\ job = [c \in Commands |-> Idle("new")]
  /\ clock = 0 /\ kills = 0 /\ moves = 0

\* prepare-handoff asks for no authorization.
MayBegin(q) ==
  /\ cycle.stage = "modeled"
  /\ q.kind = "repository" => Authorized(cycle, "run-checks")
  /\ q.kind \in {"candidates", "sources", "search"} => Authorized(cycle, "research")

\* The file is parsed, and for some commands the two actors are compared,
\* before anything is fetched.
Acceptable(q) ==
  CASE q.kind = "candidates" -> q.separate /\ IsCandidateManifest(q.m)
    [] q.kind = "sources" -> IsPublicManifest(q.m)
    [] q.kind = "search" -> q.separate /\ IsSearchManifest(q.m)
    [] q.kind = "handoff" -> IsBundle(q.m)
    [] OTHER -> TRUE

FirstStep(q) ==
  CASE q.kind = "repository" -> "inspect"
    [] q.kind = "sources" -> "sources"
    [] q.kind = "search" -> "queries"
    [] OTHER -> "review"

\* A request that is refused ends the command and leaves the cycle alone.
Begin(c) ==
  /\ At(c, "new")
  /\ \E q \in Requests[c] :
       IF MayBegin(q) /\ Acceptable(q)
         THEN Put(c, [Idle(FirstStep(q)) EXCEPT !.request = q, !.view = cycle,
                                                !.started = clock, !.began = clock])
         ELSE EndJob(c)
  /\ Gathering

----------------------------------------------------------------------------
(* The steps a command prepares *)

\* What the run record keeps.
RunOf(c, attempts) ==
  [by |-> c, request |-> job[c].request, attempts |-> attempts,
   minutes |-> MinutesBetween(job[c].started, clock),
   late |-> MinutesBetween(job[c].started, job[c].began)]

Diagnosed(c) == Moved(job[c].view, "diagnosed", {"diagnosis", "candidates"})

\* transitionCycle of each stage on the one before it, with what it appends.
Completed(c, run, review, selected) ==
  LET researched == [Moved(Diagnosed(c), "researched", {"research"}) EXCEPT !.run = run]
      decided == [Moved(researched, "decided", {"decision"}) EXCEPT
                    !.review = review, !.decision = [by |-> c, selected |-> selected]]
      planned == Moved(decided, "planned", {"plan", "rollback"})
  IN <<Diagnosed(c), researched, decided, planned>>

Inconclusive(c) ==
  <<Diagnosed(c),
    [Moved(Diagnosed(c), "inconclusive", {"research"}) EXCEPT
       !.run = RunOf(c, <<>>), !.review = "inconclusive"]>>

Prepare(c, steps) == Put(c, [Idle("save") EXCEPT !.view = job[c].view, !.steps = steps])
Conclude(c) == Prepare(c, Inconclusive(c))
Accept(c, selected) == Prepare(c, Completed(c, RunOf(c, job[c].attempts), "pass", selected))

\* A review that does not pass throws before anything is saved.
AcceptIf(passes, c, selected) == IF passes THEN Accept(c, selected) ELSE EndJob(c)

Minutes(c) == MinutesBetween(job[c].started, clock)

----------------------------------------------------------------------------
(* research-repository *)

\* The inventory is taken and the checks are run; only then are the actors
\* compared.
Inspect(c) ==
  /\ At(c, "inspect")
  /\ IF job[c].request.separate
       THEN \E inspection \in Inspections :
              LET budget == RepositoryBudget(Asked(c).budget)
              IN IF Sufficient(inspection, budget)
                   THEN Put(c, [job[c] EXCEPT !.at = "review",
                                  !.request.m = [inspection |-> inspection, budget |-> budget]])
                   ELSE Conclude(c)
       ELSE EndJob(c)
  /\ Gathering

ReviewRepository(c) ==
  /\ At(c, "review") /\ job[c].request.kind = "repository"
  /\ LET b == RepositoryBundle(Asked(c).inspection, Asked(c).budget)
     IN AcceptIf(IsBundle(b) /\ PassesReview(b, b.budget, RepositoryUsage(b, Minutes(c)), TRUE),
                 c, b.decision.selected)
  /\ Gathering

(* The candidate command gathers nothing: it reads two files. *)
ReviewCandidates(c) ==
  /\ At(c, "review") /\ job[c].request.kind = "candidates"
  /\ IF Covered(Asked(c))
       THEN LET b == CandidateBundle(Asked(c))
            IN AcceptIf(IsBundle(b) /\ PassesReview(b, b.budget, CandidateUsage(b, Minutes(c)), TRUE),
                        c, b.decision.selected)
       ELSE Conclude(c)
  /\ Gathering

(* prepare-handoff: a parsed bundle is decided without an evaluation. *)
ReviewHandoff(c) ==
  /\ At(c, "review") /\ job[c].request.kind = "handoff"
  /\ Prepare(c, Completed(c, NoRun, "none", Asked(c).decision.selected))
  /\ Gathering

----------------------------------------------------------------------------
(* The public search provider *)

\* `now` was read once, when the command began, so the time check of the loop
\* always sees the first minute.
QueryInTime(c) == MinutesBetween(job[c].started, job[c].started) <= Asked(c).budget.minutes

MayQuery(c) == Asked(c).provider \in Providers /\ QueryInTime(c)

Ask(c) ==
  /\ At(c, "queries")
  /\ IF MayQuery(c) THEN Do(c, "asking") ELSE Conclude(c)
  /\ Gathering

Replies == UNION {[1..n -> Urls] : n \in 0..MaxResults}

Answer(c) ==
  /\ At(c, "asking")
  /\ \E reply \in Replies :
       LET answers == Append(job[c].answers, reply)
           all == Len(answers) = Len(Asked(c).queries)
       IN IF IsAnswer(reply, Asked(c).queries[Len(answers)])
            THEN Put(c, [job[c] EXCEPT !.answers = answers, !.at = IF all THEN "select" ELSE "queries"])
            ELSE Conclude(c)
  /\ Gathering

\* The provider errs, or its response is for another query, incomplete, too
\* old, not canonical or not what its digests say.
QueryFails(c) ==
  /\ At(c, "asking")
  /\ Conclude(c)
  /\ Gathering

\* Every selected rank resolves, and to a result of its own; the results
\* become the sources of a manifest that is only now parsed.
Select(c) ==
  /\ At(c, "select")
  /\ LET m == WithAddresses(Asked(c), job[c].answers)
     IN IF ~Resolves(Asked(c), job[c].answers) THEN Conclude(c)
        ELSE IF ~IsPublicManifest(m) THEN EndJob(c)
        ELSE Put(c, [job[c] EXCEPT !.at = "sources", !.request.m = m, !.answers = <<>>])
  /\ Gathering

----------------------------------------------------------------------------
(* preparePublicSourceResearch *)

NextSource(c) == Asked(c).sources[Len(job[c].attempts) + 1]

Attempted(c, attempt) ==
  LET attempts == Append(job[c].attempts, attempt)
  IN Put(c, [job[c] EXCEPT !.attempts = attempts,
               !.at = IF AllAttempted(attempts, Asked(c)) THEN "review" ELSE "sources"])

Failed(url) == [status |-> "failed", final |-> url]

RetrievalUnchecked(c) == TRUE
RetrievalInTime(c) == ~Exceeds(Minutes(c), Asked(c), "minutes")
MayRetrieve(c) == ~Unaffordable(Asked(c)) /\ RetrievalInTime(c)

\* A source that the budget does not allow is a failed attempt.
Retrieve(c) ==
  /\ At(c, "sources")
  /\ IF MayRetrieve(c) THEN Put(c, [job[c] EXCEPT !.at = "capture", !.began = clock])
                       ELSE Attempted(c, Failed(NextSource(c).url))
  /\ Gathering

\* capturePublicSource follows redirects and returns a text of an allowed type,
\* in which the quotes may no longer stand.
CapturePage(c) ==
  /\ At(c, "capture")
  /\ \E status \in CapturedStatuses, final \in Urls :
       Attempted(c, [status |-> status, final |-> final])
  /\ Gathering

\* The text holds signals of hostile content; where it was found no longer
\* matters.
Quarantine(c) ==
  /\ At(c, "capture")
  /\ Attempted(c, [status |-> "quarantined", final |-> NextSource(c).url])
  /\ Gathering

\* An address that is not public, too many redirects, a refusal, another media
\* type, too many bytes or the timeout.
CaptureFails(c) ==
  /\ At(c, "capture")
  /\ Attempted(c, Failed(NextSource(c).url))
  /\ Gathering

\* Minutes that the review sees.  A search passes on the `now` it read when
\* it began as the time the run completed.
ReviewedMinutes(c) == IF job[c].request.kind = "search" THEN 1 ELSE Minutes(c)

PublicPasses(c) ==
  IF job[c].request.kind = "search"
    THEN PassesSearch(Asked(c), job[c].attempts, ReviewedMinutes(c), job[c].request.separate)
    ELSE PassesPublic(Asked(c), job[c].attempts, ReviewedMinutes(c), job[c].request.separate)

\* Any failed check makes the cycle inconclusive.
ReviewPublic(c) ==
  /\ At(c, "review") /\ job[c].request.kind \in {"sources", "search"}
  /\ IF PublicPasses(c) THEN Accept(c, Asked(c).decision.selected) ELSE Conclude(c)
  /\ Gathering

----------------------------------------------------------------------------
(* EvolutionStore.save, and what happens around the commands *)

UnchangedSinceBlind(view) == TRUE
UnchangedSince(view) == cycle = view

\* The next prepared stage; a conflict ends the command where it is.
Save(c) ==
  /\ At(c, "save")
  /\ IF UnchangedSince(job[c].view)
       THEN LET next == Head(job[c].steps) rest == Tail(job[c].steps)
            IN /\ cycle' = next
               /\ IF rest = <<>> THEN EndJob(c)
                  ELSE Put(c, [job[c] EXCEPT !.view = next, !.steps = rest])
       ELSE EndJob(c) /\ UNCHANGED cycle
  /\ UNCHANGED <<clock, kills, moves>>

Kill(c) ==
  /\ job[c].at \notin {"new", "ended"}
  /\ kills < MaxKills
  /\ kills' = kills + 1
  /\ EndJob(c)
  /\ UNCHANGED <<cycle, clock, moves>>

\* An operator moves the cycle with `advance`, naming the artifacts it needs.
Advance ==
  /\ moves < MaxMoves
  /\ \E to \in Stages :
       /\ MayTransition(cycle, to, Buckets, FALSE)
       /\ cycle' = Moved(cycle, to, RequiredArtifacts(to))
  /\ moves' = moves + 1
  /\ UNCHANGED <<job, clock, kills>>

\* Time passes while some command waits for the network or the checks.
Waiting == {"inspect", "asking", "capture"}

Tick ==
  /\ clock < MaxClock
  /\ \E c \in Commands : job[c].at \in Waiting
  /\ clock' = clock + 1
  /\ UNCHANGED <<cycle, job, kills, moves>>

Step(c) ==
  \/ Begin(c) \/ Inspect(c) \/ Ask(c) \/ Answer(c) \/ QueryFails(c) \/ Select(c)
  \/ Retrieve(c) \/ CapturePage(c) \/ Quarantine(c) \/ CaptureFails(c)
  \/ ReviewRepository(c) \/ ReviewCandidates(c) \/ ReviewHandoff(c) \/ ReviewPublic(c)
  \/ Save(c) \/ Kill(c)

Next == Advance \/ Tick \/ \E c \in Commands : Step(c)

Spec == Init /\ [][Next]_vars

----------------------------------------------------------------------------
Someone == Commands \cup {"none"}

\* Every stage, run and decision is one the commands can leave, and a command
\* that saves has something left to save.
TypeOK ==
  /\ cycle.stage \in Stages
  /\ cycle.run.by \in Someone /\ cycle.decision.by \in Someone
  /\ cycle.review \in {"none", "pass", "inconclusive"}
  /\ clock \in 0..MaxClock /\ kills \in 0..MaxKills /\ moves \in 0..MaxMoves
  /\ \A c \in Commands : At(c, "save") <=> job[c].steps # <<>>

Decided(it, kinds) ==
  it.run # NoRun /\ it.decision.by = it.run.by /\ it.run.request.kind \in kinds

\* Public claims rest on a quote found in the clean text of a strong source, no
\* source failed or was quarantined, no two are one page, and what speaks
\* against a claim is on the record.
PublicGrounded(m, attempts) ==
  /\ Len(attempts) = Len(m.sources)
  /\ \A i \in DOMAIN attempts : attempts[i].status \in {"clean", "edited"}
  /\ Cardinality({attempts[i].final : i \in DOMAIN attempts}) = Len(m.sources)
  /\ \A i \in DOMAIN m.claims :
       /\ m.claims[i].type # "user-problem"
       /\ \E s \in m.claims[i].support :
            /\ attempts[s].status = "clean"
            /\ m.claims[i].type # "limitation" => m.sources[s].class \notin {"community", "unverified"}
       /\ m.claims[i].contrary # {} => \E k \in DOMAIN m.contradictions : i \in m.contradictions[k].claims

\* The chosen candidate is open, outscores every other open one, and nothing
\* any candidate says of a capability is out of date.
CandidateGrounded(m, selected) ==
  /\ m.candidates[selected].status # "completed"
  /\ \A j \in DOMAIN m.candidates \ {selected} :
       m.candidates[j].status = "completed" \/ RawScore(m.candidates[selected]) > RawScore(m.candidates[j])
  /\ \A j \in DOMAIN m.candidates : \A k \in DOMAIN m.candidates[j].evidence :
       Current(m.candidates[j].evidence[k], m.registry)

\* User evidence is collected only on a foundation that is ready, and nothing
\* is decided on an inventory that was empty or cut short.
RepositoryGrounded(m, selected) ==
  /\ m.inspection.files > 0 /\ ~m.inspection.truncated
  /\ selected = UserStudy => m.inspection.ready /\ m.inspection.blockers = 0

Grounded(run, selected) ==
  LET m == run.request.m
  IN CASE run.request.kind \in {"sources", "search"} -> PublicGrounded(m, run.attempts)
       [] run.request.kind = "candidates" -> CandidateGrounded(m, selected)
       [] run.request.kind = "repository" -> RepositoryGrounded(m, selected)
       [] OTHER -> FALSE

\* A decision that a research command saved was reviewed by another actor than
\* its researcher, over the very run that is stored with it, and its evidence
\* holds.  Only prepare-handoff decides without a review.
DecisionsAreGrounded ==
  /\ Decided(cycle, Kinds) =>
       /\ cycle.review = "pass" /\ cycle.run.request.separate
       /\ Grounded(cycle.run, cycle.decision.selected)
  /\ cycle.decision # NoDecision /\ cycle.review # "pass" => cycle.run = NoRun
  /\ cycle.stage = "inconclusive" => cycle.review # "pass" \/ moves > 0

PlannedMinutes(run) ==
  IF run.request.kind = "sources" THEN BundleBudget(run.request.m).minutes
  ELSE run.request.m.budget.minutes

\* A decision respects the minutes of its plan: what a repository or source
\* command spent in all, and of a search only what it had spent when it last
\* began to fetch a page; what a search spends in all is not bounded.
DecisionsInTime ==
  /\ Decided(cycle, {"repository", "sources"}) => cycle.run.minutes <= PlannedMinutes(cycle.run)
  /\ Decided(cycle, {"search"}) => cycle.run.late <= PlannedMinutes(cycle.run)

\* Whatever commands overlap, are killed or lose to another, the stored cycle
\* only moves along the transitions, and a run, a review or a decision once
\* stored is never replaced by another command's.
ResearchIsAppended ==
  [][/\ cycle' # cycle => CanTransition(cycle.stage, cycle'.stage)
     /\ cycle.run # NoRun => cycle'.run = cycle.run
     /\ cycle.review # "none" => cycle'.review = cycle.review
     /\ cycle.decision # NoDecision => cycle'.decision = cycle.decision]_vars
=============================================================================
