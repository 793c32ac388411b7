--------------------------- MODULE ResearchReview ---------------------------
(***************************************************************************)
(* What every research command hands to the same deterministic review: the *)
(* bundle parseResearchBundle accepts and the checks of                    *)
(* evaluatePreparedResearch (packages/evolution-core/src/research.ts and   *)
(* research-review.ts).                                                    *)
(*                                                                         *)
(* A bundle refers to its sources, claims and opportunities by position.   *)
(* A field it may leave out is absent from its record.  The wording of     *)
(* briefs, plans, experiments and handoffs is left out; of the handoff's   *)
(* two scopes the sets of names remain.                                    *)
(***************************************************************************)
EXTENDS Naturals, Sequences, FiniteSets

Classes == {"repository", "user-research", "primary-technical", "official-documentation",
            "independent-reproduction", "community", "unverified"}
ClaimTypes == {"fact", "mechanism", "limitation", "user-problem", "prediction", "recommendation"}
ContradictionStates == {"open", "resolved", "accepted-uncertainty"}

\* An index array names existing items, at least so many different ones.
Indexes(ids, n, minimum) == ids \subseteq 1..n /\ Cardinality(ids) >= minimum

\* A part that is left out has its default.
Given(part, key, fallback) == IF key \in DOMAIN part THEN part[key] ELSE fallback

BudgetOf(b, defaults) == [key \in DOMAIN defaults |-> Given(b.budget, key, defaults[key])]
BundleBudget(b) == BudgetOf(b, [queries |-> 20, sources |-> 30, minutes |-> 60])

QueriesParse(b) ==
  \A i \in DOMAIN b.queries : b.queries[i].parent \in {0} \cup DOMAIN b.queries

SourcesParse(b) == \A i \in DOMAIN b.sources : b.sources[i].class \in Classes

ClaimsParse(b) ==
  \A i \in DOMAIN b.claims :
    /\ b.claims[i].type \in ClaimTypes
    /\ Indexes(b.claims[i].support, Len(b.sources), 1)
    /\ Indexes(b.claims[i].contrary, Len(b.sources), 0)

ContradictionsParse(b) ==
  \A i \in DOMAIN b.contradictions :
    /\ b.contradictions[i].status \in ContradictionStates
    /\ Indexes(b.contradictions[i].claims, Len(b.claims), 2)

OpportunitiesParse(b) ==
  /\ Len(b.opportunities) >= 3
  /\ \A i \in DOMAIN b.opportunities : Indexes(b.opportunities[i], Len(b.claims), 1)

\* A decision that does not list what it rejects rejects everything else.
Rejected(b) ==
  Given(b.decision, "rejected", DOMAIN b.opportunities \ {b.decision.selected})

DecisionParse(b) ==
  /\ b.decision.selected \in DOMAIN b.opportunities
  /\ Indexes(Rejected(b), Len(b.opportunities), 0)
  /\ b.allowed # {} /\ b.forbidden # {}
  /\ \A key \in DOMAIN BundleBudget(b) : BundleBudget(b)[key] > 0

IsBundle(b) ==
  /\ QueriesParse(b)
  /\ SourcesParse(b)
  /\ ClaimsParse(b)
  /\ ContradictionsParse(b)
  /\ OpportunitiesParse(b)
  /\ DecisionParse(b)

----------------------------------------------------------------------------
(* evaluatePreparedResearch *)

\* Whole minutes, at least one.
MinutesBetween(from, to) == IF to > from THEN to - from ELSE 1

WithinBudget(usage, budget) ==
  \A key \in {"queries", "sources", "minutes"} : usage[key] <= budget[key]

\* A user's problem needs a source of user research.
UserEvidence(b) ==
  \A i \in DOMAIN b.claims :
    b.claims[i].type = "user-problem" =>
      \E s \in b.claims[i].support : b.sources[s].class = "user-research"

OpportunityPortfolio(b) ==
  Len(b.opportunities) >= 3 /\ \A i \in DOMAIN b.opportunities : b.opportunities[i] # {}

DecisionPreserved(b) == DOMAIN b.opportunities \ {b.decision.selected} \subseteq Rejected(b)

ScopesSeparate(b) == b.allowed \cap b.forbidden = {}

Contradicted(b) == {i \in DOMAIN b.claims : b.claims[i].contrary # {}}
Disclosed(b) == UNION {b.contradictions[i].claims : i \in DOMAIN b.contradictions}
ContradictionsVisible(b) == Contradicted(b) \subseteq Disclosed(b)

Checks(b, budget, usage, separate) ==
  [separateReviewer |-> separate,
   budgetCompliance |-> WithinBudget(usage, budget),
   sourceSupport |-> b.claims # <<>> /\ \A i \in DOMAIN b.claims : b.claims[i].support # {},
   userEvidence |-> UserEvidence(b),
   opportunityPortfolio |-> OpportunityPortfolio(b),
   decisionPreservation |-> DecisionPreserved(b),
   scopeSeparation |-> ScopesSeparate(b),
   contradictionVisibility |-> ContradictionsVisible(b)]

\* The verdict of a run that completed.
PassesReview(b, budget, usage, separate) ==
  \A id \in DOMAIN Checks(b, budget, usage, separate) : Checks(b, budget, usage, separate)[id]
=============================================================================
