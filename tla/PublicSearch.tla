---------------------------- MODULE PublicSearch ----------------------------
(***************************************************************************)
(* Public search before the retrieval of pages: the manifest of queries    *)
(* and of ranks chosen before anything was searched, the answers of the    *)
(* provider, and the selection of ranked results                           *)
(* (packages/evolution-core/src/public-search.ts).                         *)
(*                                                                         *)
(* A source of a search manifest is a selection: the query and the rank    *)
(* its address is taken from.  An answer is the sequence of canonical      *)
(* addresses a query returned.                                             *)
(***************************************************************************)
EXTENDS PublicResearch

Intents == {"support", "falsification", "comparison"}

IntentOf(m, i) == m.queries[m.sources[i].query].intent
Falsifies(m) == \E i \in DOMAIN m.sources : IntentOf(m, i) = "falsification"

SearchQueriesParse(m) ==
  /\ Len(m.queries) >= 2
  /\ \A i, j \in DOMAIN m.queries : m.queries[i].text = m.queries[j].text => i = j
  /\ \A i \in DOMAIN m.queries : m.queries[i].intent \in Intents /\ m.queries[i].most > 0
  /\ {"support", "falsification"} \subseteq {m.queries[i].intent : i \in DOMAIN m.queries}

SelectionsParse(m) ==
  /\ m.sources # <<>>
  /\ \A i \in DOMAIN m.sources :
       /\ m.sources[i].query \in DOMAIN m.queries
       /\ m.sources[i].rank \in 1..m.queries[m.sources[i].query].most
  /\ Falsifies(m)

SearchBudgetParses(m) ==
  /\ DOMAIN m.budget = {"queries", "sources", "minutes"}
  /\ \A key \in DOMAIN m.budget : m.budget[key] > 0
  /\ Len(m.queries) + Len(m.sources) <= m.budget.queries
  /\ Len(m.sources) <= m.budget.sources

IsSearchManifest(m) == SearchQueriesParse(m) /\ SelectionsParse(m) /\ SearchBudgetParses(m)

----------------------------------------------------------------------------
\* validateSearchResponse accepts it.
IsAnswer(answer, query) ==
  /\ Len(answer) \in 1..query.most
  /\ \A i, j \in DOMAIN answer : answer[i] = answer[j] => i = j

SelectionsExist(m, answers) ==
  \A i \in DOMAIN m.sources : m.sources[i].rank \in DOMAIN answers[m.sources[i].query]

\* The addresses the selections stand for.
Resolved(m, answers) ==
  [i \in DOMAIN m.sources |-> answers[m.sources[i].query][m.sources[i].rank]]

Resolves(m, answers) ==
  /\ SelectionsExist(m, answers)
  /\ \A i, j \in DOMAIN m.sources : Resolved(m, answers)[i] = Resolved(m, answers)[j] => i = j

\* The manifest of the retrieval.
WithAddresses(m, answers) ==
  [m EXCEPT !.sources = [i \in DOMAIN m.sources |->
                          [m.sources[i] EXCEPT !.url = Resolved(m, answers)[i]]]]

\* transformedEvaluation: what the retrieval decided, and the check of its own.
PassesSearch(m, attempts, minutes, separate) ==
  PassesPublic(m, attempts, minutes, separate) /\ Falsifies(m)
=============================================================================
