----------------------------- MODULE MCResearch -----------------------------
(* Manifests, inspections, commands and cycles for the checked instances of
   Research. *)
EXTENDS Research

CONSTANTS c1, c2, u1, u2

Minutes1 == [queries |-> 4, sources |-> 2, minutes |-> 1]

\* Two sources, one the result of a support query and one of a falsification
\* query, and two claims of which the second has contrary evidence.
Sound ==
  [sources |-> <<[url |-> u1, class |-> "primary-technical", query |-> 1, rank |-> 1],
                 [url |-> u2, class |-> "official-documentation", query |-> 2, rank |-> 1]>>,
   claims |-> <<Claim("fact", {1}), [Claim("mechanism", {1, 2}) EXCEPT !.contrary = {2}]>>,
   contradictions |-> <<[claims |-> {1, 2}, status |-> "open"]>>,
   queries |-> <<[text |-> "for", intent |-> "support", most |-> 2, parent |-> 0],
                 [text |-> "against", intent |-> "falsification", most |-> 2, parent |-> 1]>>,
   opportunities |-> <<{1}, {2}, {1, 2}>>,
   decision |-> [selected |-> 2], allowed |-> {"docs"}, forbidden |-> {"secrets"},
   provider |-> "github", budget |-> Minutes1]

\* Manifests that are parsed and that a review passes or refuses.
Reviewed ==
  {[Sound EXCEPT !.contradictions = <<>>],
   [Sound EXCEPT !.decision = [selected |-> 2, rejected |-> {1}]],
   [Sound EXCEPT !.claims[2].type = "limitation", !.sources[2].class = "community"],
   [Sound EXCEPT !.sources[1].class = "unverified"]}

\* A plan that names no minutes: the loop has no limit, the review has one.
Unlimited == {[Sound EXCEPT !.budget = [queries |-> 4, sources |-> 2]],
              [Sound EXCEPT !.budget = [queries |-> 4, sources |-> 1]]}

\* Manifests that a parser refuses, some only once the search is done.
Malformed ==
  {[Sound EXCEPT !.sources[1].class = "repository"],
   [Sound EXCEPT !.claims[1].support = {3}],
   [Sound EXCEPT !.opportunities = <<{1}, {2}>>],
   [Sound EXCEPT !.contradictions[1].claims = {1}]}

Searches ==
  {[Sound EXCEPT !.sources[2].rank = 2],
   [Sound EXCEPT !.sources[2].query = 1, !.sources[2].rank = 2],
   [Sound EXCEPT !.queries[2].intent = "comparison"],
   [Sound EXCEPT !.provider = "other"]}

Evidence(kind, id, capability) ==
  [kind |-> kind, id |-> <<"manifest", id>>, capability |-> capability,
   expected |-> [status |-> "any", verification |-> "any"]]

Candidate(name, status, relevance) ==
  [name |-> name, status |-> status, relevance |-> relevance, impact |-> 1, reduction |-> 1,
   effort |-> 1, scope |-> {"docs"},
   evidence |-> <<Evidence("issue", name, "none"), Evidence("roadmap", name, "none"),
                  Evidence("capability", name, "sandboxed-agent-execution"),
                  Evidence("implementation", name, "none")>>]

Entries(verification) ==
  <<[id |-> "sandboxed-agent-execution", status |-> "available", verification |-> verification]>>

\* The candidate with the best score is already completed.
Ranked ==
  [candidates |-> <<Candidate("a", "completed", 3), Candidate("b", "active", 2),
                    Candidate("c", "planned", 1)>>,
   backend |-> "docker", registry |-> Entries("passing"), budget |-> [sources |-> 5]]

\* The second candidate's evidence speaks of two capabilities under one id.
Split ==
  [Ranked EXCEPT
     !.registry = Entries("passing") \o
       <<[id |-> "agent-run-normalization", status |-> "available", verification |-> "passing"]>>,
     !.candidates[2].evidence[1].capability = "agent-run-normalization",
     !.budget = [sources |-> 4]]

CandidateManifests ==
  {Ranked, Split,
   [Ranked EXCEPT !.candidates[3].relevance = 2],
   [Ranked EXCEPT !.candidates[2].evidence[3].expected.status = "planned"],
   [Ranked EXCEPT !.candidates[3].evidence[2].kind = "issue"],
   [Ranked EXCEPT !.candidates[2].status = "completed", !.candidates[3].status = "completed"],
   [Ranked EXCEPT !.registry = Entries("failing")],
   [Ranked EXCEPT !.registry = Entries("passing") \o Entries("failing")],
   [Ranked EXCEPT !.backend = "none", !.registry = <<>>],
   [Ranked EXCEPT !.candidates[2].scope = {"secrets"}],
   [Ranked EXCEPT !.candidates[2].name = "a"]}

Asks(kinds, manifests) == [kind : kinds, separate : BOOLEAN, m : manifests]
Aside(kinds, manifests) == [kind : kinds, separate : {TRUE}, m : manifests]

AllRequests ==
  [c \in {c1, c2} |->
     IF c = c1
       THEN Asks({"sources", "search"}, {Sound}) \cup Aside({"sources"}, Reviewed \cup Unlimited)
            \cup Aside({"search"}, Searches) \cup Aside({"sources", "search"}, Malformed)
            \cup Aside({"candidates"}, CandidateManifests) \cup Asks({"candidates"}, {Ranked})
       ELSE Asks({"repository"}, {[budget |-> [minutes |-> 1]]})
            \cup Aside({"handoff"}, {Sound} \cup Malformed)]

Inspection(files, truncated, ready, blockers) ==
  [files |-> files, truncated |-> truncated, ready |-> ready, blockers |-> blockers,
   passed |-> {"verification", "automation"}]

AllInspections ==
  {Inspection(1, FALSE, TRUE, 0), Inspection(1, FALSE, TRUE, 1), Inspection(1, FALSE, FALSE, 0),
   Inspection(1, TRUE, TRUE, 0), Inspection(0, FALSE, TRUE, 0)}

Researchers == {[autonomy |-> a, risk |-> 1, approvals |-> {}] : a \in {0, 1}}
=============================================================================
