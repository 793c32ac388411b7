--------------------------- MODULE PublicResearch ---------------------------
(***************************************************************************)
(* Research over an explicit list of public pages: the manifest, what the  *)
(* retrieval of its sources gave, and the checks of sources and citations  *)
(* (packages/evolution-core/src/public-research.ts, public-source.ts).     *)
(*                                                                         *)
(* A manifest is a bundle whose claims cite its sources and which has no   *)
(* queries yet.  An attempt is what the retrieval of one source gave:      *)
(* clean (its text holds the quotes), edited (it does not), quarantined or *)
(* failed, with the address that answered in the end.                      *)
(***************************************************************************)
EXTENDS ResearchReview

StrongClasses == {"primary-technical", "official-documentation", "independent-reproduction"}
PrivateClasses == {"repository", "user-research"}
CapturedStatuses == {"clean", "edited"}

\* Citations name existing sources.
Cites(claim, m) ==
  Indexes(claim.support, Len(m.sources), 1) /\ Indexes(claim.contrary, Len(m.sources), 0)

\* toResearchBundle: one retrieval query per source.
PublicBundle(m) == [m EXCEPT !.queries = [i \in DOMAIN m.sources |-> [parent |-> 0]]]

IsPublicManifest(m) ==
  /\ m.sources # <<>>
  /\ m.claims # <<>>
  /\ \A i \in DOMAIN m.sources : m.sources[i].class \notin PrivateClasses
  /\ \A i \in DOMAIN m.claims : Cites(m.claims[i], m)
  /\ IsBundle(PublicBundle(m))

----------------------------------------------------------------------------
(* The limits of the retrieval loop are those the manifest names itself: a *)
(* limit it leaves out is only checked, with its default, by the review.   *)

Exceeds(amount, m, key) == key \in DOMAIN m.budget /\ amount > m.budget[key]

Unaffordable(m) ==
  Exceeds(Len(m.sources), m, "sources") \/ Exceeds(Len(m.sources), m, "queries")

AllAttempted(attempts, m) == Len(attempts) = Len(m.sources)

----------------------------------------------------------------------------
(* buildExternalChecks *)

PageCaptured(attempt) == attempt.status \in CapturedStatuses

\* locateExactCitation finds the quote in the clean text.
QuoteFound(attempt) == attempt.status = "clean"

SourcesSafe(attempts) == \A i \in DOMAIN attempts : attempts[i].status \in CapturedStatuses

CitationsHold(m, attempts) ==
  \A i \in DOMAIN m.claims :
    \A s \in m.claims[i].support \cup m.claims[i].contrary : QuoteFound(attempts[s])

\* A public source is never direct evidence of a user's problem, and only a
\* limitation may rest on a weak one.
ClaimIsStrong(m, claim, attempts) ==
  /\ claim.type # "user-problem"
  /\ \E s \in claim.support :
       /\ QuoteFound(attempts[s])
       /\ claim.type = "limitation" \/ m.sources[s].class \in StrongClasses

SourcesDistinct(attempts) ==
  \A i, j \in DOMAIN attempts : attempts[i].final = attempts[j].final => i = j

PassesExternal(m, attempts) ==
  /\ SourcesSafe(attempts)
  /\ CitationsHold(m, attempts)
  /\ \A i \in DOMAIN m.claims : ClaimIsStrong(m, m.claims[i], attempts)
  /\ SourcesDistinct(attempts)

\* researchRun
PublicUsage(m, minutes) ==
  [queries |-> Len(m.sources), sources |-> Len(m.sources), minutes |-> minutes]

\* finalEvaluation; preparePublicSourceResearch is inconclusive otherwise.
PassesPublic(m, attempts, minutes, separate) ==
  /\ PassesExternal(m, attempts)
  /\ ~Unaffordable(m)
  /\ PassesReview(PublicBundle(m), BundleBudget(m), PublicUsage(m, minutes), separate)
=============================================================================
