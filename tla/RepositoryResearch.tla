------------------------- MODULE RepositoryResearch -------------------------
(***************************************************************************)
(* The single worker that researches a repository from its inventory, its  *)
(* checks and its scorecard                                                *)
(* (packages/evolution-core/src/repository-research.ts).  An inspection    *)
(* says whether files were found, whether the inventory was cut short,     *)
(* which dimensions of the scorecard pass, whether it calls the project    *)
(* ready for research, and whether it names blockers.                      *)
(***************************************************************************)
EXTENDS ResearchReview

RequiredQuestions == 5

RepositoryBudget(limits) == [key \in {"queries", "sources", "minutes"} |->
  Given(limits, key, IF key = "minutes" THEN 15 ELSE 8)]

\* An empty or a truncated inventory, or a budget below the coverage map, is
\* inconclusive.
Sufficient(inspection, budget) ==
  /\ inspection.files > 0
  /\ ~inspection.truncated
  /\ budget.queries >= RequiredQuestions
  /\ budget.sources >= 3
  /\ budget.minutes >= 1

\* 1 is the repository snapshot, 2 the check report, 3 the scorecard.
RepositorySources == [i \in 1..3 |-> [class |-> "repository"]]

FactIf(holds, support) ==
  [type |-> IF holds THEN "fact" ELSE "limitation", support |-> support, contrary |-> {}]

RepositoryClaims(inspection) ==
  LET Passes(dimension) == dimension \in inspection.passed
  IN <<FactIf(~inspection.truncated, {1}), FactIf(Passes("verification"), {2, 3}),
       FactIf(Passes("product-context"), {1, 3}), FactIf(Passes("automation"), {1, 3}),
       FactIf(Passes("risk-map"), {1, 3}), FactIf(FALSE, {3}), FactIf(FALSE, {2, 3})>>

\* Close the readiness gap, publish the audit, or collect user evidence: the
\* last one only when the foundation is ready.
RepositoryOpportunities == <<{1, 2, 3, 4, 5}, {1, 2, 3, 4, 5, 7}, {3, 6}>>
Foundation == 1
UserStudy == 3
Chosen(inspection) == IF inspection.ready /\ inspection.blockers = 0 THEN UserStudy ELSE Foundation

RepositoryBundle(inspection, budget) ==
  [queries |-> [i \in 1..RequiredQuestions |-> [parent |-> 0]],
   sources |-> RepositorySources,
   claims |-> RepositoryClaims(inspection),
   contradictions |-> <<[claims |-> {2, 7}, status |-> "accepted-uncertainty"]>>,
   opportunities |-> RepositoryOpportunities,
   decision |-> [selected |-> Chosen(inspection), rejected |-> {1, 2, 3} \ {Chosen(inspection)}],
   allowed |-> IF Chosen(inspection) = UserStudy THEN {"research"} ELSE {"docs"},
   forbidden |-> {"secrets", "production"},
   budget |-> budget]

RepositoryUsage(b, minutes) ==
  [queries |-> Len(b.queries), sources |-> Len(b.sources), minutes |-> minutes]
=============================================================================
