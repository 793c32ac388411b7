------------------------- MODULE GithubInstallation -------------------------
(***************************************************************************)
(* The installation side of packages/provider-github: the webhook handler   *)
(* that claims a delivery and carries it out, the reconciler that lists the  *)
(* repositories of an installation page by page and replaces the stored      *)
(* snapshot, and the credential broker that asks that snapshot for a grant   *)
(* before it has a token issued.                                            *)
(*                                                                         *)
(* One installation.  GitHub, the store of delivery claims and the store of *)
(* snapshots are external: they are what the code calls, and a call of any  *)
(* of them may fail.  Deliveries are numbered in the order of the changes   *)
(* they tell of and arrive in any order, once or more often; one that is    *)
(* unsigned or malformed is refused before it is claimed and is no step.    *)
(***************************************************************************)
EXTENDS Naturals, Sequences, FiniteSets, FiniteSetsExt

CONSTANTS Repos,      \* repository ids
          Handlers,   \* requests of the webhook handler at work
          Brokers,    \* calls of the credential broker
          PageSize, MaxPages,
          MinLifetime, MaxLifetime,
          MaxChanges, \* bound: changes of the installation at GitHub
          MaxFaults,  \* bound: calls that fail, and crashes
          MaxClock    \* bound: the clock

ASSUME BoundsAssumption ==
  /\ Repos \subseteq Nat /\ IsFiniteSet(Repos)
  /\ {PageSize, MaxPages, MinLifetime} \subseteq Nat \ {0}
  /\ MaxChanges \in Nat \ {0} /\ {MaxFaults, MaxClock} \subseteq Nat
  /\ MaxLifetime \in Nat /\ MinLifetime <= MaxLifetime

VARIABLES installed,  \* GitHub: the status of the installation
          granted,    \* GitHub: the repositories it may see
          deliveries, \* GitHub: the actions it has told of so far
          claims,     \* store: the claim of each delivery
          stored,     \* store: status and snapshot of the installation
          handler,    \* what each request of the handler is doing
          broker,     \* what each call of the broker is doing
          clock,
          faults,
          inTurn,     \* history: deliveries were carried out one at a time, in order
          abandoned,  \* history: claims left behind by a crash or a failed call
          revoked     \* history: the delivery that last told GitHub permits a
                      \* repository no more

githubVars == <<installed, granted, deliveries>>
vars == <<githubVars, claims, stored, handler, broker, clock, faults, inTurn, abandoned, revoked>>

Statuses == {"active", "suspended", "deleted"}
Deactivating == {"suspend", "deleted"}
Reconciling == {"created", "unsuspend", "repositories"}
Actions == Deactivating \cup Reconciling \cup {"other"}
Deliveries == 1..MaxChanges
NoDelivery == 0
Free == [at |-> "idle", delivery |-> NoDelivery, page |-> 0, listed |-> {}]
Unused == [at |-> "idle", repo |-> 0, read |-> 0, expires |-> 0, scope |-> "none"]
Scopes == {"asked", "broader", "elsewhere"}

TypeOK ==
  /\ installed \in Statuses /\ granted \subseteq Repos
  /\ deliveries \in Seq(Actions) /\ Len(deliveries) <= MaxChanges
  /\ claims \in [Deliveries -> {"none", "active", "complete"}]
  /\ stored \in [status : Statuses, repositories : SUBSET Repos]
  /\ handler \in [Handlers -> [at : {"idle", "list", "replace", "deactivate", "complete", "release"},
                               delivery : Deliveries \cup {NoDelivery},
                               page : 0..MaxPages, listed : SUBSET Repos]]
  /\ broker \in [Brokers -> [at : {"idle", "issue", "use", "over"}, repo : Repos \cup {0},
                             read : 0..MaxClock, expires : 0..MaxClock + MaxLifetime + 1,
                             scope : Scopes \cup {"none"}]]
  /\ clock \in 0..MaxClock /\ faults \in 0..MaxFaults
  /\ inTurn \in BOOLEAN /\ abandoned \subseteq Deliveries
  /\ revoked \in [Repos -> Deliveries]

\* The installation has just been created and its delivery is on its way.
Init ==
  /\ installed = "active" /\ granted \in SUBSET Repos
  /\ deliveries = <<"created">>
  /\ claims = [d \in Deliveries |-> "none"]
  /\ stored = [status |-> "deleted", repositories |-> {}]
  /\ handler = [h \in Handlers |-> Free]
  /\ broker = [b \in Brokers |-> Unused]
  /\ clock = 0 /\ faults = 0
  /\ inTurn = TRUE /\ abandoned = {}
  /\ revoked = [r \in Repos |-> 1]

-----------------------------------------------------------------------------
(* GitHub: the installation changes, and a delivery tells of it.            *)

Permitted(r) == installed = "active" /\ r \in granted

Tell(action) ==
  /\ Len(deliveries) < MaxChanges
  /\ deliveries' = Append(deliveries, action)
  /\ revoked' = [r \in Repos |->
       IF Permitted(r) /\ ~Permitted(r)' THEN Len(deliveries') ELSE revoked[r]]
  /\ UNCHANGED <<claims, stored, handler, broker, clock, faults, inTurn, abandoned>>

ChangeStatus ==
  \/ installed = "active" /\ installed' = "suspended" /\ UNCHANGED granted /\ Tell("suspend")
  \/ installed = "suspended" /\ installed' = "active" /\ UNCHANGED granted /\ Tell("unsuspend")
  \/ installed # "deleted" /\ installed' = "deleted" /\ granted' = {} /\ Tell("deleted")

ChangeRepositories ==
  /\ installed = "active"
  /\ \E r \in Repos : granted' = SymDiff(granted, {r})
  /\ UNCHANGED installed /\ Tell("repositories")

OtherEvent ==
  /\ installed # "deleted" /\ UNCHANGED <<installed, granted>> /\ Tell("other")

\* A listing is in the order of the ids; page n is counted in the listing as it
\* is when the page is asked for.
Position(r) == Cardinality({q \in granted : q <= r})
Page(n) == {r \in granted : (n - 1) * PageSize < Position(r) /\ Position(r) <= n * PageSize}
HasNext(n) == Cardinality(granted) > n * PageSize

-----------------------------------------------------------------------------
(* GitHubWebhookHandler.handle.                                             *)

Working(h) == handler[h].at # "idle"
Go(h, at) == handler' = [handler EXCEPT ![h] = [@ EXCEPT !.at = at]]
Leave(h) == handler' = [handler EXCEPT ![h] = Free]
StoresRest == UNCHANGED <<githubVars, broker, clock, revoked>>
Called == faults' = faults
CallFailed == faults < MaxFaults /\ faults' = faults + 1

\* process: the part of the handler that an event and its action select.
PartFor(action) ==
  CASE action \in Deactivating -> "deactivate"
    [] action \in Reconciling -> "list"
    [] OTHER -> "complete"

\* deliveries.begin accepts a delivery that nobody has claimed; any other is
\* a duplicate, which is answered without a step.
ClaimAny(d) == TRUE
Claimable(d) == claims[d] = "none"

Claim(h, d) ==
  /\ ~Working(h) /\ d <= Len(deliveries) /\ Claimable(d)
  /\ claims' = [claims EXCEPT ![d] = "active"]
  /\ handler' = [handler EXCEPT ![h] =
       [at |-> PartFor(deliveries[d]), delivery |-> d, page |-> 0, listed |-> {}]]
  /\ inTurn' = (/\ inTurn
                /\ \A g \in Handlers : ~Working(g)
                /\ \A e \in 1..d - 1 : claims[e] = "complete")
  /\ StoresRest /\ Called /\ UNCHANGED <<stored, abandoned>>

\* GitHubInstallationReconciler.reconcile: a page is added to what was listed
\* before; a repository listed twice is refused, and so is a page too many.
LastPageOnly(h) == Page(handler[h].page + 1)
Gathered(h) == handler[h].listed \cup Page(handler[h].page + 1)

Listable(h) ==
  /\ handler[h].page < MaxPages
  /\ handler[h].listed \cap Page(handler[h].page + 1) = {}

ListPage(h) ==
  /\ handler[h].at = "list" /\ installed = "active" /\ Listable(h)
  /\ handler' = [handler EXCEPT ![h] =
       [@ EXCEPT !.page = handler[h].page + 1, !.listed = Gathered(h),
                 !.at = IF HasNext(handler[h].page + 1) THEN "list" ELSE "replace"]]
  /\ StoresRest /\ Called /\ UNCHANGED <<claims, stored, inTurn, abandoned>>

ListRefused(h) ==
  /\ handler[h].at = "list" /\ ~(installed = "active" /\ Listable(h))
  /\ Go(h, "release")
  /\ StoresRest /\ Called /\ UNCHANGED <<claims, stored, inTurn, abandoned>>

\* The whole snapshot is replaced, and the installation is active again.
ReplaceSnapshot(h) ==
  /\ handler[h].at = "replace"
  /\ stored' = [status |-> "active", repositories |-> handler[h].listed]
  /\ Go(h, "complete")
  /\ StoresRest /\ Called /\ UNCHANGED <<claims, inTurn, abandoned>>

Deactivate(h) ==
  /\ handler[h].at = "deactivate"
  /\ stored' = [stored EXCEPT !.status =
       IF deliveries[handler[h].delivery] = "deleted" THEN "deleted" ELSE "suspended"]
  /\ Go(h, "complete")
  /\ StoresRest /\ Called /\ UNCHANGED <<claims, inTurn, abandoned>>

Complete(h) ==
  /\ handler[h].at = "complete"
  /\ claims' = [claims EXCEPT ![handler[h].delivery] = "complete"]
  /\ Leave(h)
  /\ StoresRest /\ Called /\ UNCHANGED <<stored, inTurn, abandoned>>

\* A call of the work or of complete fails; the error goes on after the release.
WorkFails(h) ==
  /\ handler[h].at \in {"list", "replace", "deactivate", "complete"}
  /\ Go(h, "release")
  /\ StoresRest /\ CallFailed /\ UNCHANGED <<claims, stored, inTurn, abandoned>>

\* The claim of a failed delivery is given up, for GitHub to deliver it again.
GiveUp(d) == [claims EXCEPT ![d] = "none"]

Release(h) ==
  /\ handler[h].at = "release"
  /\ claims' = GiveUp(handler[h].delivery)
  /\ Leave(h)
  /\ StoresRest /\ Called /\ UNCHANGED <<stored, inTurn, abandoned>>

ReleaseFails(h) ==
  /\ handler[h].at = "release"
  /\ abandoned' = abandoned \cup {handler[h].delivery}
  /\ Leave(h)
  /\ StoresRest /\ CallFailed /\ UNCHANGED <<claims, stored, inTurn>>

\* The process dies: the claims of its requests stay where they are.
Crash ==
  /\ \E h \in Handlers : Working(h)
  /\ handler' = [h \in Handlers |-> Free]
  /\ abandoned' = abandoned \cup {handler[h].delivery : h \in {g \in Handlers : Working(g)}}
  /\ StoresRest /\ CallFailed /\ UNCHANGED <<claims, stored, inTurn>>

HandlerStep(h) ==
  \/ \E d \in Deliveries : Claim(h, d)
  \/ ListPage(h) \/ ListRefused(h) \/ ReplaceSnapshot(h) \/ Deactivate(h) \/ Complete(h)
  \/ WorkFails(h) \/ Release(h) \/ ReleaseFails(h)

-----------------------------------------------------------------------------
(* GitHubCredentialBroker.withRepositoryCredential.                         *)

BrokerRests ==
  UNCHANGED <<githubVars, claims, stored, handler, clock, faults, inTurn, abandoned, revoked>>

\* The grant of the stored snapshot, and the time everything is measured from.
GrantedOnce(r) == r \in stored.repositories
Granted(r) == stored.status = "active" /\ r \in stored.repositories

CheckGrant(b, r) ==
  /\ broker[b].at = "idle" /\ Granted(r)
  /\ broker' = [broker EXCEPT ![b] = [Unused EXCEPT !.at = "issue", !.repo = r, !.read = clock]]
  /\ BrokerRests

\* assertReturnedScope and the window of lifetimes, from the time of the check.
Acceptable(b, expires, scope) ==
  /\ scope = "asked"
  /\ expires >= broker[b].read + MinLifetime
  /\ expires <= broker[b].read + MaxLifetime

\* GitHub issues a token for a repository that it still grants, with an expiry
\* and a scope of its own choice; the broker passes it on or refuses it.
IssueToken(b) ==
  /\ broker[b].at = "issue"
  /\ installed = "active" /\ broker[b].repo \in granted
  /\ \E expires \in clock + 1..clock + MaxLifetime + 1, scope \in Scopes :
       broker' = [broker EXCEPT ![b] =
         IF Acceptable(b, expires, scope)
         THEN [@ EXCEPT !.at = "use", !.expires = expires, !.scope = scope]
         ELSE [Unused EXCEPT !.at = "over"]]
  /\ BrokerRests

\* The signer or GitHub refuses.
IssueFails(b) ==
  /\ broker[b].at = "issue"
  /\ broker' = [broker EXCEPT ![b] = [Unused EXCEPT !.at = "over"]]
  /\ BrokerRests

BrokerStep(b) == (\E r \in Repos : CheckGrant(b, r)) \/ IssueToken(b) \/ IssueFails(b)

Tick ==
  /\ clock < MaxClock /\ clock' = clock + 1
  /\ UNCHANGED <<githubVars, claims, stored, handler, broker, faults, inTurn, abandoned, revoked>>

-----------------------------------------------------------------------------
Next ==
  \/ ChangeStatus \/ ChangeRepositories \/ OtherEvent
  \/ \E h \in Handlers : HandlerStep(h)
  \/ Crash
  \/ \E b \in Brokers : BrokerStep(b)
  \/ Tick

Spec == Init /\ [][Next]_vars

-----------------------------------------------------------------------------
(* Properties.                                                              *)

\* A delivery that is claimed and not complete is being worked on by exactly
\* one request, so a failed one can be delivered again; only a crash or a
\* release that fails leaves a claim that nobody holds.
ClaimsAreHeld ==
  \A d \in Deliveries :
    /\ claims[d] = "active" =>
         d \in abandoned \/ \E h \in Handlers : handler[h].delivery = d
    /\ \A g, h \in Handlers : handler[g].delivery = d /\ handler[h].delivery = d => g = h

\* When every delivery so far is complete, and they were carried out one at a
\* time and in order, the stored installation is the one at GitHub, whatever
\* changed while its pages were listed and whatever failed and was repeated.
SettledMirrorsGithub ==
  /\ inTurn
  /\ \A d \in 1..Len(deliveries) : claims[d] = "complete"
  => /\ stored.status = installed
     /\ installed = "active" => stored.repositories = granted

\* Once the delivery that told of a removal, a suspension or a deletion is
\* complete, the broker's check grants none of the repositories it took away,
\* whatever has been told since, listed before or failed on the way; as long as
\* deliveries are carried out one at a time and in order.
RevokedIsRefused ==
  \A r \in Repos :
    inTurn /\ Granted(r) /\ ~Permitted(r) => claims[revoked[r]] # "complete"
=============================================================================
