-------------------------- MODULE CandidateResearch --------------------------
(***************************************************************************)
(* The ranking of named candidates from a manifest and the registry of     *)
(* capabilities (packages/evolution-core/src/candidate-research.ts).       *)
(*                                                                         *)
(* A manifest names candidates, each with its status, four priorities and  *)
(* its evidence, the execution backend, and limits that replace the        *)
(* defaults.  A piece of evidence has a kind, the id of its source, the    *)
(* capability it speaks of and what it expects of it ("any" when it says   *)
(* nothing).  The registry is the sequence of its entries.                 *)
(***************************************************************************)
EXTENDS ResearchReview, Integers, SequencesExt

EvidenceKinds == {"issue", "roadmap", "capability", "implementation"}
CandidateStatuses == {"completed", "active", "planned", "blocked"}
Backends == {"none", "trusted-local", "docker"}

IsEvidence(e) == e.kind \in EvidenceKinds /\ (e.kind = "capability" => e.capability # "none")

IsCandidate(candidate) ==
  /\ candidate.status \in CandidateStatuses
  /\ {candidate.relevance, candidate.impact, candidate.reduction} \subseteq 0..5
  /\ candidate.effort \in 1..5
  /\ \A i \in DOMAIN candidate.evidence : IsEvidence(candidate.evidence[i])
  /\ candidate.scope # {}

IsCandidateManifest(m) ==
  /\ m.backend \in Backends
  /\ Len(m.candidates) >= 3
  /\ \A i, j \in DOMAIN m.candidates : m.candidates[i].name = m.candidates[j].name => i = j
  /\ \A i \in DOMAIN m.candidates : IsCandidate(m.candidates[i])
  /\ \A key \in DOMAIN m.budget : m.budget[key] > 0

\* Of two entries with one id the later one counts.
Known(registry, id) == \E i \in DOMAIN registry : registry[i].id = id
Entry(registry, id) == registry[SelectLastInSeq(registry, LAMBDA entry : entry.id = id)]

CandidateBudget(m) ==
  LET n == Len(m.candidates)
  IN BudgetOf(m, [queries |-> n + 1, sources |-> IF 5 * n > 12 THEN 5 * n ELSE 12, minutes |-> 15])

BackendCapabilities(backend) ==
  CASE backend = "trusted-local" -> <<"temporary-workspace-assessment", "sandboxed-agent-execution">>
    [] backend = "docker" -> <<"sandboxed-agent-execution">>
    [] OTHER -> <<>>

RawScore(candidate) ==
  4 * candidate.relevance + 3 * candidate.impact + 2 * candidate.reduction - candidate.effort

SelectionScore(candidate) == IF candidate.status = "completed" THEN -1000 ELSE RawScore(candidate)

----------------------------------------------------------------------------
(* coverageReason *)

KindsComplete(candidate) ==
  {candidate.evidence[i].kind : i \in DOMAIN candidate.evidence} = EvidenceKinds

\* What the evidence says of a capability is what the registry says now.
Current(e, registry) ==
  e.kind = "capability" =>
    /\ Known(registry, e.capability)
    /\ e.expected.status \in {"any", Entry(registry, e.capability).status}
    /\ e.expected.verification \in {"any", Entry(registry, e.capability).verification}

BackendVerified(m) ==
  \A i \in DOMAIN BackendCapabilities(m.backend) :
    LET id == BackendCapabilities(m.backend)[i]
    IN Known(m.registry, id) /\ Entry(m.registry, id).verification = "passing"

\* The sources counted here are told apart by the ids the manifest gives them.
CountedSources(m) ==
  UNION {{m.candidates[i].evidence[k].id : k \in DOMAIN m.candidates[i].evidence} :
           i \in DOMAIN m.candidates}
  \cup {<<"capability", id>> : id \in ToSet(BackendCapabilities(m.backend))}

Eligible(m) == {i \in DOMAIN m.candidates : m.candidates[i].status # "completed"}

Leaders(m) ==
  {i \in Eligible(m) : \A j \in Eligible(m) : RawScore(m.candidates[i]) >= RawScore(m.candidates[j])}

Covered(m) ==
  /\ \A i \in DOMAIN m.candidates :
       /\ KindsComplete(m.candidates[i])
       /\ \A k \in DOMAIN m.candidates[i].evidence : Current(m.candidates[i].evidence[k], m.registry)
  /\ BackendVerified(m)
  /\ CandidateBudget(m).queries >= Len(m.candidates) + 1
  /\ CandidateBudget(m).sources >= Cardinality(CountedSources(m))
  /\ Cardinality(Leaders(m)) = 1

----------------------------------------------------------------------------
(* createBundle *)

\* Evidence of a capability in the registry is one source, whatever its id.
SourceId(e, registry) ==
  IF e.capability # "none" /\ Known(registry, e.capability)
    THEN <<"current", e.capability>> ELSE e.id

CandidateIds(m, i) ==
  [k \in DOMAIN m.candidates[i].evidence |-> SourceId(m.candidates[i].evidence[k], m.registry)]
BackendIds(m) ==
  [k \in DOMAIN BackendCapabilities(m.backend) |-> <<"current", BackendCapabilities(m.backend)[k]>>]

\* addSource
AddSource(ids, id) == IF Contains(ids, id) THEN ids ELSE Append(ids, id)

SourceIds(m) ==
  FoldLeft(AddSource, <<>>,
           FlattenSeq([i \in DOMAIN m.candidates |-> CandidateIds(m, i)]) \o BackendIds(m))

Positions(ids, all) == {p \in DOMAIN all : all[p] \in ToSet(ids)}

Claim(type, support) == [type |-> type, support |-> support, contrary |-> {}]

\* One claim for each piece of evidence, then the status and the priority.
ClaimsOf(m, all, i) ==
  LET evidence == m.candidates[i].evidence
      mine == Positions(CandidateIds(m, i), all)
  IN [k \in DOMAIN evidence |->
        Claim(IF evidence[k].kind = "capability" THEN "fact" ELSE "mechanism",
              Positions(<<SourceId(evidence[k], m.registry)>>, all))]
     \o <<Claim("fact", mine), Claim("recommendation", mine)>>

BackendClaim(m, all) ==
  Claim(IF m.backend = "none" THEN "limitation" ELSE "fact",
        IF BackendIds(m) = <<>> THEN {1} ELSE Positions(BackendIds(m), all))

\* The position of the last claim about the first candidates.
ClaimsUpTo(m, i) ==
  FoldLeft(LAMBDA sum, candidate : sum + Len(candidate.evidence) + 2, 0, SubSeq(m.candidates, 1, i))

StatusClaim(m, i) == ClaimsUpTo(m, i) - 1
PriorityClaim(m, i) == ClaimsUpTo(m, i)

\* A completed candidate that would still score is an explained contradiction.
CandidateContradictions(m) ==
  LET Explained(i) == m.candidates[i].status = "completed" /\ RawScore(m.candidates[i]) > 0
  IN FlattenSeq([i \in DOMAIN m.candidates |->
       IF Explained(i)
         THEN <<[claims |-> {StatusClaim(m, i), PriorityClaim(m, i)}, status |-> "resolved"]>>
         ELSE <<>>])

Best(m) ==
  CHOOSE i \in DOMAIN m.candidates :
    \A j \in DOMAIN m.candidates :
      LET mine == SelectionScore(m.candidates[i]) its == SelectionScore(m.candidates[j])
      IN mine > its \/ (mine = its /\ i <= j)

CandidateBundle(m) ==
  LET all == SourceIds(m)
      backend == ClaimsUpTo(m, Len(m.candidates)) + 1
  IN [queries |-> [i \in 1..(Len(m.candidates) + 1) |-> [parent |-> 0]],
      sources |-> [p \in DOMAIN all |-> [class |-> "repository"]],
      claims |-> FlattenSeq([i \in DOMAIN m.candidates |-> ClaimsOf(m, all, i)])
                 \o <<BackendClaim(m, all)>>,
      contradictions |-> CandidateContradictions(m),
      opportunities |-> [i \in DOMAIN m.candidates |->
                           (ClaimsUpTo(m, i - 1) + 1)..ClaimsUpTo(m, i) \cup {backend}],
      decision |-> [selected |-> Best(m), rejected |-> DOMAIN m.candidates \ {Best(m)}],
      allowed |-> m.candidates[Best(m)].scope,
      forbidden |-> {"secrets", "production"},
      budget |-> CandidateBudget(m)]

CandidateUsage(b, minutes) ==
  [queries |-> Len(b.queries), sources |-> Len(b.sources), minutes |-> minutes]
=============================================================================
