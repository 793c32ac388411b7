---------------------- MODULE GithubInstallationProofs ----------------------
(***************************************************************************)
(* What the properties of GithubInstallation rest on, for any number of     *)
(* repositories, requests, deliveries and pages.                            *)
(*                                                                         *)
(* A claim that is active has one request or was abandoned.  The delivery   *)
(* that matters to the stored installation is the latest one that is not of *)
(* the other kind: GitHub is in the state it tells of, and while a request  *)
(* works on it nothing at GitHub can have changed, so what was listed is    *)
(* exactly what is granted up to the last page.  A repository that GitHub    *)
(* permits no more is listed by none but requests on earlier deliveries.    *)
(***************************************************************************)
EXTENDS GithubInstallation, FiniteSetTheorems, TLAPS

HandlersOK ==
  /\ \A h \in Handlers :
       /\ Working(h) <=> handler[h].delivery # NoDelivery
       /\ Working(h) => handler[h].delivery <= Len(deliveries) /\ claims[handler[h].delivery] = "active"
       /\ handler[h].at \in {"list", "replace"} => deliveries[handler[h].delivery] \in Reconciling
       /\ handler[h].at = "deactivate" => deliveries[handler[h].delivery] \in Deactivating
  /\ \A d \in Deliveries : claims[d] # "none" => d <= Len(deliveries)

Latest(d) ==
  /\ d \in 1..Len(deliveries) /\ deliveries[d] # "other"
  /\ \A e \in d + 1..Len(deliveries) : deliveries[e] = "other"

StatusAfter(action) ==
  IF action = "suspend" THEN "suspended" ELSE IF action = "deleted" THEN "deleted" ELSE "active"

\* GitHub is as the latest delivery tells.
TellsOK ==
  /\ \E d \in Deliveries : Latest(d)
  /\ \A d \in Deliveries : Latest(d) => installed = StatusAfter(deliveries[d])

InTurnOK ==
  inTurn =>
    /\ \A g, h \in Handlers : Working(g) /\ Working(h) => g = h
    /\ \A d, e \in Deliveries : d < e /\ claims[e] # "none" => claims[d] = "complete"

Mirrors == stored.status = installed /\ (installed = "active" => stored.repositories = granted)

\* What a request knows that works on the latest delivery.
ListedOK ==
  \A h \in Handlers : Latest(handler[h].delivery) =>
    /\ handler[h].at = "list" =>
         handler[h].listed = {r \in granted : Position(r) <= handler[h].page * PageSize}
    /\ handler[h].at = "replace" => handler[h].listed = granted
    /\ inTurn /\ handler[h].at = "complete" => Mirrors

CompletedOK ==
  \A d \in Deliveries : inTurn /\ Latest(d) /\ claims[d] = "complete" => Mirrors

GithubInv ==
  TypeOK /\ HandlersOK /\ ClaimsAreHeld /\ TellsOK /\ InTurnOK /\ ListedOK /\ CompletedOK

----------------------------------------------------------------------------
(* Rows of the handler, and the deliveries. *)

Steps == {"idle", "list", "replace", "deactivate", "complete", "release"}
Rows == [at : Steps, delivery : Deliveries \cup {NoDelivery}, page : 0..MaxPages, listed : SUBSET Repos]

Others(h) ==
  /\ handler' \in [Handlers -> Rows]
  /\ \A g \in Handlers : g # h => handler'[g] = handler[g]

LEMMA Typed ==
  ASSUME TypeOK
  PROVE  /\ handler \in [Handlers -> Rows]
         /\ \A h \in Handlers : handler[h] \in Rows /\ handler[h].at \in Steps
         /\ claims \in [Deliveries -> {"none", "active", "complete"}]
         /\ Len(deliveries) \in Nat /\ Len(deliveries) <= MaxChanges
         /\ \A i \in 1..Len(deliveries) : deliveries[i] \in Actions /\ i \in Deliveries
  BY BoundsAssumption DEF TypeOK, Rows, Steps, Deliveries

LEMMA GoStep ==
  ASSUME TypeOK, NEW h \in Handlers, NEW at \in Steps, Go(h, at)
  PROVE  /\ Others(h) /\ handler'[h].at = at
         /\ handler'[h].delivery = handler[h].delivery /\ handler'[h].page = handler[h].page
         /\ handler'[h].listed = handler[h].listed
<1> DEFINE row == [handler[h] EXCEPT !.at = at]
<1>1. /\ row \in Rows /\ row.at = at /\ row.delivery = handler[h].delivery
      /\ row.page = handler[h].page /\ row.listed = handler[h].listed
  BY Typed DEF Rows
<1>2. handler' = [handler EXCEPT ![h] = row]
  BY DEF Go
<1> HIDE DEF row
<1> QED
  BY <1>1, <1>2, Typed DEF Others

LEMMA FreeType == Free \in Rows /\ Free.at = "idle" /\ Free.delivery = NoDelivery
  BY BoundsAssumption DEF Free, Rows, Steps

LEMMA LeaveStep ==
  ASSUME TypeOK, NEW h \in Handlers, Leave(h)
  PROVE  Others(h) /\ handler'[h] = Free
  BY Typed, FreeType DEF Leave, Others

LEMMA TellStep ==
  ASSUME TypeOK, NEW action \in Actions, Tell(action)
  PROVE  /\ deliveries' \in Seq(Actions) /\ Len(deliveries') = Len(deliveries) + 1
         /\ Len(deliveries') <= MaxChanges
         /\ \A i \in 1..Len(deliveries) : deliveries'[i] = deliveries[i]
         /\ deliveries'[Len(deliveries) + 1] = action
  BY BoundsAssumption DEF Tell, TypeOK

LEMMA LatestIsOne ==
  ASSUME TypeOK, NEW d, NEW e, Latest(d), Latest(e)
  PROVE  d = e
  BY Typed DEF Latest

\* A change at GitHub becomes the latest delivery; another event does not.
LEMMA LatestAfterChange ==
  ASSUME TypeOK, NEW action \in Actions \ {"other"}, Tell(action), NEW d, Latest(d)'
  PROVE  d = Len(deliveries) + 1 /\ deliveries'[d] = action
<1>1. d \in 1..Len(deliveries) + 1
  BY TellStep DEF Latest
<1>2. d # Len(deliveries) + 1 => Len(deliveries) + 1 \in d + 1..Len(deliveries')
  BY <1>1, TellStep, Typed
<1> QED
  BY <1>1, <1>2, TellStep DEF Latest

LEMMA LatestAfterOther ==
  ASSUME TypeOK, Tell("other"), NEW d
  PROVE  Latest(d)' <=> Latest(d)
<1>1. "other" \in Actions
  BY DEF Actions
<1>2. Len(deliveries') = Len(deliveries) + 1 /\ Len(deliveries) \in Nat
  BY <1>1, TellStep, Typed
<1>3. \A i \in 1..Len(deliveries) : deliveries'[i] = deliveries[i]
  BY <1>1, TellStep
<1>4. deliveries'[Len(deliveries) + 1] = "other"
  BY <1>1, TellStep
<1> QED
  BY <1>2, <1>3, <1>4 DEF Latest

----------------------------------------------------------------------------
(* Types. *)

\* What a step that leaves the broker, the clock and GitHub alone has to show.
LEMMA HandlerTypes ==
  ASSUME TypeOK, StoresRest,
         handler' \in [Handlers -> Rows], claims' \in [Deliveries -> {"none", "active", "complete"}],
         stored' \in [status : Statuses, repositories : SUBSET Repos],
         Called \/ CallFailed, inTurn' \in BOOLEAN, abandoned' \subseteq Deliveries
  PROVE  TypeOK'
<1>1. faults' \in 0..MaxFaults
  BY BoundsAssumption DEF TypeOK, Called, CallFailed
<1> QED
  BY <1>1 DEF TypeOK, StoresRest, githubVars, Rows, Steps

LEMMA PagesAreRepos ==
  ASSUME TypeOK, NEW n
  PROVE  Page(n) \subseteq Repos
  BY DEF TypeOK, Page

LEMMA TellTypes ==
  ASSUME TypeOK, NEW action \in Actions, Tell(action),
         installed' \in Statuses, granted' \subseteq Repos
  PROVE  TypeOK'
<1>1. Len(deliveries') \in Deliveries
  BY TellStep, Typed, BoundsAssumption DEF Deliveries
<1>2. revoked' \in [Repos -> Deliveries]
  BY <1>1 DEF TypeOK, Tell
<1> QED
  BY <1>2, TellStep DEF TypeOK, Tell

LEMMA GithubTypes ==
  ASSUME TypeOK, ChangeStatus \/ ChangeRepositories \/ OtherEvent
  PROVE  TypeOK'
<1>1. /\ {"suspend", "unsuspend", "deleted", "repositories", "other"} \subseteq Actions
      /\ {"active", "suspended", "deleted"} \subseteq Statuses
  BY DEF Actions, Deactivating, Reconciling, Statuses
<1>2. CASE ChangeStatus
  <2>1. CASE installed' = "suspended" /\ Tell("suspend") /\ UNCHANGED granted
    BY <1>1, <2>1, TellTypes DEF TypeOK
  <2>2. CASE installed' = "active" /\ Tell("unsuspend") /\ UNCHANGED granted
    BY <1>1, <2>2, TellTypes DEF TypeOK
  <2>3. CASE installed' = "deleted" /\ Tell("deleted") /\ granted' = {}
    BY <1>1, <2>3, TellTypes
  <2> QED
    BY <1>2, <2>1, <2>2, <2>3 DEF ChangeStatus
<1>3. CASE ChangeRepositories
  <2>1. granted' \subseteq Repos /\ installed' \in Statuses
    BY <1>3 DEF ChangeRepositories, SymDiff, TypeOK
  <2> QED
    BY <1>1, <1>3, <2>1, TellTypes DEF ChangeRepositories
<1>4. CASE OtherEvent
  BY <1>1, <1>4, TellTypes DEF OtherEvent, TypeOK
<1> QED
  BY <1>2, <1>3, <1>4

\* What a request that claims a delivery becomes.
LEMMA ClaimStep ==
  ASSUME TypeOK, NEW h \in Handlers, NEW d \in Deliveries, Claim(h, d)
  PROVE  /\ Others(h) /\ handler'[h].delivery = d /\ handler'[h].at = PartFor(deliveries[d])
         /\ handler'[h].page = 0 /\ handler'[h].listed = {}
<1> DEFINE row == [at |-> PartFor(deliveries[d]), delivery |-> d, page |-> 0, listed |-> {}]
<1>1. /\ row \in Rows /\ row.delivery = d /\ row.at = PartFor(deliveries[d])
      /\ row.page = 0 /\ row.listed = {}
  BY BoundsAssumption DEF Rows, Steps, PartFor
<1>2. handler' = [handler EXCEPT ![h] = row]
  BY DEF Claim
<1> HIDE DEF row
<1> QED
  BY <1>1, <1>2, Typed DEF Others

\* A page is added to what was listed.
LEMMA ListPageStep ==
  ASSUME TypeOK, NEW h \in Handlers, ListPage(h)
  PROVE  /\ Others(h) /\ handler'[h].delivery = handler[h].delivery
         /\ handler'[h].at = IF HasNext(handler[h].page + 1) THEN "list" ELSE "replace"
         /\ handler'[h].page = handler[h].page + 1
         /\ handler'[h].listed = Gathered(h)
         /\ handler[h].page \in 0..MaxPages - 1
<1> DEFINE next == IF HasNext(handler[h].page + 1) THEN "list" ELSE "replace"
           row == [handler[h] EXCEPT !.page = handler[h].page + 1, !.listed = Gathered(h), !.at = next]
<1>1. handler[h].page \in 0..MaxPages - 1
  BY Typed, BoundsAssumption DEF ListPage, Listable, Rows
<1>2. Gathered(h) \in SUBSET Repos /\ handler[h].page + 1 \in 0..MaxPages /\ next \in Steps
  BY <1>1, Typed, PagesAreRepos, BoundsAssumption DEF Gathered, Rows, Steps
<1> HIDE DEF next
<1>3. /\ row \in Rows /\ row.delivery = handler[h].delivery /\ row.at = next
      /\ row.page = handler[h].page + 1 /\ row.listed = Gathered(h)
  BY <1>2, Typed DEF Rows
<1>4. handler' = [handler EXCEPT ![h] = row]
  BY DEF ListPage, next
<1> HIDE DEF row
<1> QED
  BY <1>1, <1>3, <1>4, Typed DEF Others, next

LEMMA RequestTypes ==
  ASSUME TypeOK, HandlersOK, NEW h \in Handlers, HandlerStep(h)
  PROVE  TypeOK'
<1> USE DEF Others
<1>1. ASSUME NEW d \in Deliveries, Claim(h, d) PROVE TypeOK'
  <2>1. claims' \in [Deliveries -> {"none", "active", "complete"}] /\ inTurn' \in BOOLEAN
    BY <1>1, Typed DEF Claim
  <2> QED
    BY <1>1, <2>1, ClaimStep, HandlerTypes DEF Claim, TypeOK
<1>2. ASSUME ListPage(h) PROVE TypeOK'
  BY <1>2, ListPageStep, HandlerTypes DEF ListPage, TypeOK
<1>3. ASSUME ListRefused(h) PROVE TypeOK'
  BY <1>3, GoStep, HandlerTypes DEF ListRefused, TypeOK, Steps
<1>4. ASSUME ReplaceSnapshot(h) PROVE TypeOK'
  <2>1. stored' \in [status : Statuses, repositories : SUBSET Repos]
    BY <1>4, Typed DEF ReplaceSnapshot, Rows, Statuses
  <2> QED
    BY <1>4, <2>1, GoStep, HandlerTypes DEF ReplaceSnapshot, TypeOK, Steps
<1>5. ASSUME Deactivate(h) PROVE TypeOK'
  <2>1. stored' \in [status : Statuses, repositories : SUBSET Repos]
    BY <1>5 DEF Deactivate, TypeOK, Statuses
  <2> QED
    BY <1>5, <2>1, GoStep, HandlerTypes DEF Deactivate, TypeOK, Steps
<1>6. ASSUME Complete(h) PROVE TypeOK'
  BY <1>6, LeaveStep, HandlerTypes DEF Complete, TypeOK
<1>7. ASSUME WorkFails(h) PROVE TypeOK'
  BY <1>7, GoStep, HandlerTypes DEF WorkFails, TypeOK, Steps
<1>8. ASSUME Release(h) PROVE TypeOK'
  BY <1>8, LeaveStep, HandlerTypes DEF Release, GiveUp, TypeOK
<1>9. ASSUME ReleaseFails(h) PROVE TypeOK'
  <2>1. handler[h].delivery \in Deliveries
    BY <1>9, Typed DEF ReleaseFails, HandlersOK, Working, Rows
  <2> QED
    BY <1>9, <2>1, LeaveStep, HandlerTypes DEF ReleaseFails, TypeOK
<1> QED
  BY <1>1, <1>2, <1>3, <1>4, <1>5, <1>6, <1>7, <1>8, <1>9 DEF HandlerStep

LEMMA CrashTypes ==
  ASSUME TypeOK, HandlersOK, Crash
  PROVE  TypeOK' /\ \A h \in Handlers : handler'[h] = Free
<1>1. \A h \in Handlers : Working(h) => handler[h].delivery \in Deliveries
  BY Typed DEF HandlersOK, Rows
<1>2. abandoned' \subseteq Deliveries
  BY <1>1 DEF Crash, TypeOK
<1>3. handler' \in [Handlers -> Rows] /\ \A h \in Handlers : handler'[h] = Free
  BY FreeType DEF Crash
<1> QED
  BY <1>2, <1>3, HandlerTypes DEF Crash, TypeOK

Tokens == [at : {"idle", "issue", "use", "over"}, repo : Repos \cup {0}, read : 0..MaxClock,
           expires : 0..MaxClock + MaxLifetime + 1, scope : Scopes \cup {"none"}]

LEMMA UnusedType ==
  /\ Unused \in Tokens /\ Unused.at = "idle"
  /\ 0 \in 0..MaxClock /\ 0 \in 0..MaxClock + MaxLifetime + 1
<1>1. MaxClock \in Nat /\ MaxLifetime \in Nat
  BY BoundsAssumption
<1>2. 0 \in 0..MaxClock /\ 0 \in 0..MaxClock + MaxLifetime + 1
  BY <1>1
<1> QED
  BY <1>2 DEF Unused, Tokens

\* A token is handed over only if it is acceptable; every other call is over.
LEMMA TokenStep ==
  ASSUME TypeOK, NEW b \in Brokers, BrokerStep(b)
  PROVE  /\ broker' \in [Brokers -> Tokens]
         /\ \A c \in Brokers : c # b => broker'[c] = broker[c]
         /\ broker'[b].at = "use" =>
              Acceptable(b, broker'[b].expires, broker'[b].scope)
         /\ broker'[b].read \in {0, clock, broker[b].read}
<1>1. ASSUME NEW r \in Repos, CheckGrant(b, r)
      PROVE  /\ broker' \in [Brokers -> Tokens]
             /\ \A c \in Brokers : c # b => broker'[c] = broker[c]
             /\ broker'[b].at # "use" /\ broker'[b].read \in {0, clock}
  <2> DEFINE row == [Unused EXCEPT !.at = "issue", !.repo = r, !.read = clock]
  <2>1. row \in Tokens /\ row.at = "issue" /\ row.read = clock
    <3>1. clock \in 0..MaxClock
      BY DEF TypeOK
    <3> QED
      BY <3>1, UnusedType DEF Tokens
  <2>2. broker' = [broker EXCEPT ![b] = row]
    BY <1>1 DEF CheckGrant
  <2> HIDE DEF row
  <2> QED
    BY <2>1, <2>2 DEF TypeOK, Tokens
<1>2. /\ [Unused EXCEPT !.at = "over"] \in Tokens
      /\ [Unused EXCEPT !.at = "over"].at = "over"
      /\ [Unused EXCEPT !.at = "over"].read = 0
  BY UnusedType DEF Tokens, Unused
<1>3. ASSUME IssueToken(b)
      PROVE  /\ broker' \in [Brokers -> Tokens]
             /\ \A c \in Brokers : c # b => broker'[c] = broker[c]
             /\ broker'[b].at = "use" =>
                  Acceptable(b, broker'[b].expires, broker'[b].scope)
             /\ broker'[b].read \in {0, broker[b].read}
  <2>1. PICK expires \in clock + 1..clock + MaxLifetime + 1, scope \in Scopes :
          broker' = [broker EXCEPT ![b] =
            IF Acceptable(b, expires, scope)
            THEN [broker[b] EXCEPT !.at = "use", !.expires = expires, !.scope = scope]
            ELSE [Unused EXCEPT !.at = "over"]]
    BY <1>3 DEF IssueToken
  <2> DEFINE row == [broker[b] EXCEPT !.at = "use", !.expires = expires, !.scope = scope]
             over == [Unused EXCEPT !.at = "over"]
  <2>2. row \in Tokens /\ row.at = "use" /\ row.expires = expires /\ row.scope = scope
        /\ row.read = broker[b].read
    <3>1. expires \in 0..MaxClock + MaxLifetime + 1
      BY BoundsAssumption DEF TypeOK
    <3>2. broker[b] \in Tokens
      BY DEF TypeOK, Tokens
    <3> QED
      BY <3>1, <3>2 DEF Tokens
  <2>3. over \in Tokens /\ over.at = "over" /\ over.read = 0
    BY <1>2
  <2>4. broker' = [broker EXCEPT ![b] = IF Acceptable(b, expires, scope) THEN row ELSE over]
    BY <2>1
  <2> HIDE DEF row, over
  <2>5. broker' \in [Brokers -> Tokens] /\ \A c \in Brokers : c # b => broker'[c] = broker[c]
    BY <2>2, <2>3, <2>4 DEF TypeOK, Tokens
  <2>6. broker'[b] = IF Acceptable(b, expires, scope) THEN row ELSE over
    BY <2>4 DEF TypeOK
  <2> QED
    BY <2>2, <2>3, <2>5, <2>6
<1>4. ASSUME IssueFails(b)
      PROVE  /\ broker' \in [Brokers -> Tokens]
             /\ \A c \in Brokers : c # b => broker'[c] = broker[c]
             /\ broker'[b].at # "use" /\ broker'[b].read \in {0, clock}
  <2> DEFINE over == [Unused EXCEPT !.at = "over"]
  <2>1. over \in Tokens /\ over.at = "over" /\ over.read = 0
    BY <1>2
  <2>2. broker' = [broker EXCEPT ![b] = over]
    BY <1>4 DEF IssueFails
  <2> HIDE DEF over
  <2> QED
    BY <2>1, <2>2 DEF TypeOK, Tokens
<1> QED
  BY <1>1, <1>3, <1>4 DEF BrokerStep

LEMMA BrokerTypes ==
  ASSUME TypeOK, NEW b \in Brokers, BrokerStep(b)
  PROVE  TypeOK' /\ BrokerRests
<1>1. BrokerRests
  BY DEF BrokerStep, CheckGrant, IssueToken, IssueFails
<1> QED
  BY <1>1, TokenStep DEF BrokerRests, githubVars, TypeOK, Tokens

LEMMA TickTypes ==
  ASSUME TypeOK, Tick
  PROVE  TypeOK'
  BY BoundsAssumption DEF TypeOK, Tick, githubVars

----------------------------------------------------------------------------
(* Pages. *)

LEMMA Positions ==
  ASSUME TypeOK
  PROVE  /\ Cardinality(granted) \in Nat
         /\ \A r \in granted : Position(r) \in Nat /\ 1 <= Position(r) /\ Position(r) <= Cardinality(granted)
<1>1. IsFiniteSet(granted) /\ Cardinality(granted) \in Nat
  BY BoundsAssumption, FS_Subset, FS_CardinalityType DEF TypeOK
<1>2. ASSUME NEW r \in granted
      PROVE  Position(r) \in Nat /\ 1 <= Position(r) /\ Position(r) <= Cardinality(granted)
  <2> DEFINE before == {q \in granted : q <= r}
  <2>1. before \subseteq granted /\ r \in before
    <3>1. r \in Nat
      BY BoundsAssumption DEF TypeOK
    <3> QED
      BY <3>1
  <2> HIDE DEF before
  <2>2. IsFiniteSet(before) /\ Cardinality(before) \in Nat /\ Cardinality(before) <= Cardinality(granted)
    BY <1>1, <2>1, FS_Subset, FS_CardinalityType
  <2>3. Cardinality(before) # 0
    BY <2>1, <2>2, FS_EmptySet
  <2> QED
    BY <1>1, <2>2, <2>3 DEF Position, before
<1> QED
  BY <1>1, <1>2

UpTo(n) == {r \in granted : Position(r) <= n * PageSize}

\* The pages up to n are what comes first, and the page after them the rest of
\* what comes first one page later.
LEMMA PagesAddUp ==
  ASSUME TypeOK, NEW n \in Nat
  PROVE  /\ UpTo(0) = {}
         /\ UpTo(n + 1) = UpTo(n) \cup Page(n + 1)
         /\ ~HasNext(n) => UpTo(n) = granted
<1>1. PageSize \in Nat \ {0}
  BY BoundsAssumption
<1>2. n * PageSize \in Nat /\ (n + 1) * PageSize = n * PageSize + PageSize /\ 0 * PageSize = 0
      /\ n + 1 - 1 = n
  BY <1>1
<1>3. UpTo(0) = {}
  BY <1>2, Positions DEF UpTo
<1> DEFINE here == n * PageSize
           there == (n + 1) * PageSize
<1>4. here \in Nat /\ there \in Nat /\ here <= there
  BY <1>1, <1>2
<1>5. /\ UpTo(n) = {r \in granted : Position(r) <= here}
      /\ UpTo(n + 1) = {r \in granted : Position(r) <= there}
      /\ Page(n + 1) = {r \in granted : here < Position(r) /\ Position(r) <= there}
      /\ HasNext(n) <=> Cardinality(granted) > here
  BY <1>2 DEF UpTo, Page, HasNext
<1> HIDE DEF here, there
<1>6. UpTo(n + 1) = UpTo(n) \cup Page(n + 1)
  BY <1>4, <1>5, Positions
<1>7. ~HasNext(n) => UpTo(n) = granted
  BY <1>4, <1>5, Positions
<1> QED
  BY <1>3, <1>6, <1>7

----------------------------------------------------------------------------
(* GitHub changes. *)

LEMMA FrameOK ==
  ASSUME GithubInv, TypeOK', UNCHANGED <<githubVars, claims, stored, handler, inTurn, abandoned>>
  PROVE  GithubInv'
<1> USE DEF githubVars
<1>1. HandlersOK' /\ ClaimsAreHeld' /\ InTurnOK'
  BY DEF GithubInv, HandlersOK, ClaimsAreHeld, InTurnOK, Working
<1>2. TellsOK'
  BY DEF GithubInv, TellsOK, Latest
<1>3. ListedOK'
  BY DEF GithubInv, ListedOK, Latest, Mirrors, Position
<1>4. CompletedOK'
  BY DEF GithubInv, CompletedOK, Latest, Mirrors
<1> QED
  BY <1>1, <1>2, <1>3, <1>4 DEF GithubInv

\* What telling of anything leaves true of the requests.
LEMMA TellKeeps ==
  ASSUME GithubInv, NEW action \in Actions, Tell(action)
  PROVE  HandlersOK' /\ ClaimsAreHeld' /\ InTurnOK'
<1>1. /\ UNCHANGED <<claims, stored, handler, inTurn, abandoned>>
      /\ Len(deliveries') = Len(deliveries) + 1 /\ Len(deliveries) \in Nat
      /\ \A i \in 1..Len(deliveries) : deliveries'[i] = deliveries[i]
  BY TellStep, Typed DEF GithubInv, Tell
<1>2. HandlersOK'
  <2>1. ASSUME NEW h \in Handlers
        PROVE  /\ Working(h)' <=> handler'[h].delivery # NoDelivery
               /\ Working(h)' => /\ handler'[h].delivery <= Len(deliveries')
                                 /\ claims'[handler'[h].delivery] = "active"
                                 /\ deliveries'[handler'[h].delivery] = deliveries[handler[h].delivery]
    <3>1. handler[h].delivery \in Deliveries \cup {NoDelivery}
      BY Typed DEF GithubInv, Rows
    <3> QED
      BY <1>1, <3>1 DEF GithubInv, HandlersOK, Working, Deliveries, NoDelivery
  <2>2. \A h \in Handlers : handler[h].at \in {"list", "replace", "deactivate"} => Working(h)'
    BY <1>1 DEF Working
  <2>3. \A d \in Deliveries : claims'[d] # "none" => d <= Len(deliveries')
    BY <1>1 DEF GithubInv, HandlersOK, Deliveries
  <2> QED
    BY <1>1, <2>1, <2>2, <2>3 DEF GithubInv, HandlersOK
<1>3. ClaimsAreHeld' /\ InTurnOK'
  BY <1>1 DEF GithubInv, ClaimsAreHeld, InTurnOK, Working
<1> QED
  BY <1>2, <1>3

LEMMA ChangeOK ==
  ASSUME GithubInv, TypeOK', NEW action \in Actions \ {"other"}, Tell(action),
         installed' = StatusAfter(action)
  PROVE  GithubInv'
<1>1. /\ UNCHANGED <<claims, stored, handler, inTurn, abandoned>>
      /\ Len(deliveries') = Len(deliveries) + 1 /\ Len(deliveries) \in Nat
      /\ Len(deliveries') <= MaxChanges
      /\ deliveries'[Len(deliveries) + 1] = action
  BY TellStep, Typed DEF GithubInv, Tell
<1>2. ASSUME NEW d, Latest(d)' PROVE d = Len(deliveries) + 1 /\ deliveries'[d] = action
  BY <1>2, LatestAfterChange DEF GithubInv
<1>3. ASSUME NEW d, d = Len(deliveries) + 1 PROVE Latest(d)'
  BY <1>1, <1>3 DEF Latest
<1>4. TellsOK'
  <2>1. Len(deliveries) + 1 \in Deliveries
    BY <1>1, BoundsAssumption DEF Deliveries
  <2>2. \E d \in Deliveries : Latest(d)'
    BY <1>3, <2>1
  <2> QED
    BY <1>2, <2>2 DEF TellsOK, Deliveries
<1>5. ListedOK'
  <2>1. ASSUME NEW h \in Handlers PROVE handler[h].delivery # Len(deliveries) + 1
    <3>1. handler[h].delivery \in Deliveries \cup {NoDelivery}
      BY Typed DEF GithubInv, Rows
    <3> QED
      BY <1>1, <3>1 DEF GithubInv, HandlersOK, NoDelivery, Deliveries
  <2> QED
    BY <1>1, <1>2, <2>1 DEF ListedOK
<1>6. CompletedOK'
  <2>1. ASSUME NEW d \in Deliveries, claims[d] = "complete" PROVE d # Len(deliveries) + 1
    BY <1>1, <2>1 DEF GithubInv, HandlersOK, Deliveries
  <2> QED
    BY <1>1, <1>2, <2>1 DEF CompletedOK
<1> QED
  BY <1>4, <1>5, <1>6, TellKeeps DEF GithubInv

LEMMA OtherOK ==
  ASSUME GithubInv, OtherEvent
  PROVE  GithubInv'
<1>1. "other" \in Actions /\ Tell("other") /\ UNCHANGED <<installed, granted, claims, stored, handler, inTurn, abandoned>>
  BY DEF OtherEvent, Tell, Actions
<1>2. TypeOK'
  BY GithubTypes DEF GithubInv
<1>3. \A d : Latest(d)' <=> Latest(d)
  BY <1>1, LatestAfterOther DEF GithubInv
<1>4. \A d : Latest(d) => deliveries'[d] = deliveries[d]
  BY <1>1, TellStep DEF GithubInv, Latest
<1>5. TellsOK'
  BY <1>1, <1>3, <1>4 DEF GithubInv, TellsOK
<1>6. ListedOK'
  BY <1>1, <1>3 DEF GithubInv, ListedOK, Mirrors, Position
<1>7. CompletedOK'
  BY <1>1, <1>3 DEF GithubInv, CompletedOK, Mirrors
<1> QED
  BY <1>1, <1>2, <1>5, <1>6, <1>7, TellKeeps DEF GithubInv

LEMMA GithubOK ==
  ASSUME GithubInv, ChangeStatus \/ ChangeRepositories \/ OtherEvent
  PROVE  GithubInv'
<1>1. TypeOK'
  BY GithubTypes DEF GithubInv
<1>2. {"suspend", "unsuspend", "deleted", "repositories"} \subseteq Actions \ {"other"}
  BY DEF Actions, Deactivating, Reconciling
<1>3. CASE ChangeStatus
  <2>1. CASE installed' = "suspended" /\ Tell("suspend")
    BY <1>1, <1>2, <2>1, ChangeOK DEF StatusAfter
  <2>2. CASE installed' = "active" /\ Tell("unsuspend")
    BY <1>1, <1>2, <2>2, ChangeOK DEF StatusAfter
  <2>3. CASE installed' = "deleted" /\ Tell("deleted")
    BY <1>1, <1>2, <2>3, ChangeOK DEF StatusAfter
  <2> QED
    BY <1>3, <2>1, <2>2, <2>3 DEF ChangeStatus
<1>4. CASE ChangeRepositories
  BY <1>1, <1>2, <1>4, ChangeOK DEF ChangeRepositories, StatusAfter
<1> QED
  BY <1>3, <1>4, OtherOK

----------------------------------------------------------------------------
(* Requests. *)

\* A step of a request that keeps its delivery and every claim.
LEMMA StepKeepsClaims ==
  ASSUME GithubInv, NEW h \in Handlers, Working(h), Others(h),
         UNCHANGED <<githubVars, claims, abandoned, inTurn>>,
         handler'[h].delivery = handler[h].delivery, Working(h)',
         handler'[h].at \in {"list", "replace"} => handler[h].at \in {"list", "replace"},
         handler'[h].at = "deactivate" => handler[h].at = "deactivate"
  PROVE  HandlersOK' /\ ClaimsAreHeld' /\ InTurnOK' /\ TellsOK'
<1> USE DEF githubVars
<1>1. \A g \in Handlers : handler'[g].delivery = handler[g].delivery /\ (Working(g)' <=> Working(g))
  BY DEF Others, Working
<1>2. HandlersOK'
  BY <1>1 DEF GithubInv, HandlersOK, Others
<1>3. ClaimsAreHeld' /\ InTurnOK'
  BY <1>1 DEF GithubInv, ClaimsAreHeld, InTurnOK
<1>4. TellsOK'
  BY DEF GithubInv, TellsOK, Latest
<1> QED
  BY <1>2, <1>3, <1>4

\* The other requests know what they knew while the stored installation stays.
LEMMA OthersListed ==
  ASSUME GithubInv, NEW h \in Handlers, Others(h), UNCHANGED <<githubVars, stored>>, inTurn' => inTurn,
         NEW g \in Handlers, g # h, Latest(handler[g].delivery)'
  PROVE  /\ handler'[g].at = "list" => (handler[g].listed = {r \in granted : Position(r) <= handler[g].page * PageSize})'
         /\ handler'[g].at = "replace" => (handler[g].listed = granted)'
         /\ (inTurn /\ handler[g].at = "complete" => Mirrors)'
<1>1. handler'[g] = handler[g] /\ Latest(handler[g].delivery)
  BY DEF Others, Latest, githubVars
<1> QED
  BY <1>1 DEF GithubInv, ListedOK, Mirrors, Position, githubVars

LEMMA ListPageOK ==
  ASSUME GithubInv, NEW h \in Handlers, ListPage(h)
  PROVE  GithubInv'
<1>1. TypeOK'
  BY RequestTypes DEF GithubInv, HandlerStep
<1>2. /\ UNCHANGED <<githubVars, claims, abandoned, inTurn, stored>>
      /\ handler[h].at = "list"
  BY DEF ListPage, StoresRest
<1>3. /\ Others(h) /\ handler'[h].delivery = handler[h].delivery
      /\ handler'[h].at = IF HasNext(handler[h].page + 1) THEN "list" ELSE "replace"
      /\ handler'[h].page = handler[h].page + 1
      /\ handler'[h].listed = handler[h].listed \cup Page(handler[h].page + 1)
      /\ handler[h].page \in Nat
  BY ListPageStep, BoundsAssumption DEF GithubInv, Gathered
<1>4. HandlersOK' /\ ClaimsAreHeld' /\ InTurnOK' /\ TellsOK'
  BY <1>2, <1>3, StepKeepsClaims DEF Working
<1>5. ASSUME Latest(handler[h].delivery)'
      PROVE  /\ handler'[h].listed = UpTo(handler'[h].page)
             /\ handler'[h].at = "replace" => handler'[h].listed = granted
  <2>1. Latest(handler[h].delivery)
    BY <1>2, <1>3, <1>5 DEF Latest, githubVars
  <2>2. handler[h].listed = UpTo(handler[h].page)
    BY <1>2, <2>1 DEF GithubInv, ListedOK, UpTo
  <2>3. handler'[h].listed = UpTo(handler[h].page + 1)
    BY <1>3, <2>2, PagesAddUp DEF GithubInv
  <2>4. ~HasNext(handler[h].page + 1) => UpTo(handler[h].page + 1) = granted
    BY <1>3, PagesAddUp DEF GithubInv
  <2> QED
    BY <1>3, <2>3, <2>4
<1>6. ListedOK'
  <2>1. ASSUME NEW g \in Handlers, Latest(handler[g].delivery)'
        PROVE  /\ handler'[g].at = "list" => (handler[g].listed = {r \in granted : Position(r) <= handler[g].page * PageSize})'
               /\ handler'[g].at = "replace" => (handler[g].listed = granted)'
               /\ (inTurn /\ handler[g].at = "complete" => Mirrors)'
    <3>1. CASE g # h
      BY <1>2, <1>3, <2>1, <3>1, OthersListed
    <3>2. CASE g = h
      <4>1. granted' = granted /\ \A r : Position(r)' = Position(r)
        BY <1>2 DEF githubVars, Position
      <4>2. (handler[h].listed = {r \in granted : Position(r) <= handler[h].page * PageSize})'
        BY <1>5, <2>1, <3>2, <4>1 DEF UpTo
      <4>3. handler'[h].at = "replace" => (handler[h].listed = granted)'
        BY <1>5, <2>1, <3>2, <4>1
      <4>4. handler'[h].at # "complete"
        BY <1>3
      <4> QED
        BY <3>2, <4>2, <4>3, <4>4
    <3> QED
      BY <3>1, <3>2
  <2> QED
    BY <2>1 DEF ListedOK
<1>7. CompletedOK'
  BY <1>2 DEF GithubInv, CompletedOK, Latest, Mirrors, githubVars
<1> QED
  BY <1>1, <1>4, <1>6, <1>7 DEF GithubInv

\* A request that gives up knows nothing any more.
LEMMA RefusedOK ==
  ASSUME GithubInv, NEW h \in Handlers, ListRefused(h) \/ WorkFails(h)
  PROVE  GithubInv'
<1>1. TypeOK'
  BY RequestTypes DEF GithubInv, HandlerStep
<1>2. /\ UNCHANGED <<githubVars, claims, abandoned, inTurn, stored>> /\ Working(h)
      /\ Go(h, "release")
  BY DEF ListRefused, WorkFails, StoresRest, Working
<1>3. Others(h) /\ handler'[h].delivery = handler[h].delivery /\ handler'[h].at = "release"
  BY <1>2, GoStep DEF GithubInv, Steps
<1>4. HandlersOK' /\ ClaimsAreHeld' /\ InTurnOK' /\ TellsOK'
  BY <1>2, <1>3, StepKeepsClaims DEF Working
<1>5. ListedOK'
  BY <1>2, <1>3, OthersListed DEF ListedOK
<1>6. CompletedOK'
  BY <1>2 DEF GithubInv, CompletedOK, Latest, Mirrors, githubVars
<1> QED
  BY <1>1, <1>4, <1>5, <1>6 DEF GithubInv

\* A request that is about to write the stored installation is alone with it:
\* while deliveries are in turn, the latest one is not complete.
LEMMA WriterIsAlone ==
  ASSUME GithubInv, inTurn, NEW h \in Handlers, handler[h].at \in {"replace", "deactivate"}
  PROVE  /\ \A g \in Handlers : g # h => ~Working(g)
         /\ \A d \in Deliveries : Latest(d) => claims[d] # "complete"
<1>1. Working(h)
  BY DEF Working
<1>2. \A g \in Handlers : g # h => ~Working(g)
  BY <1>1 DEF GithubInv, InTurnOK
<1> DEFINE e == handler[h].delivery
<1>3. e \in Deliveries /\ e <= Len(deliveries) /\ claims[e] = "active" /\ deliveries[e] # "other"
  <2>1. e \in Deliveries /\ e <= Len(deliveries) /\ claims[e] = "active"
    BY <1>1, Typed DEF GithubInv, HandlersOK, Rows
  <2>2. deliveries[e] \in Reconciling \cup Deactivating
    BY DEF GithubInv, HandlersOK
  <2> QED
    BY <2>1, <2>2 DEF Reconciling, Deactivating
<1> HIDE DEF e
<1>4. ASSUME NEW d \in Deliveries, Latest(d), claims[d] = "complete" PROVE FALSE
  <2>1. ~(e < d)
    BY <1>3, <1>4 DEF GithubInv, InTurnOK
  <2>2. ~(d < e)
    BY <1>3, <1>4, Typed DEF Latest, Deliveries, GithubInv
  <2> QED
    BY <1>3, <1>4, <2>1, <2>2 DEF Deliveries
<1> QED
  BY <1>2, <1>4

LEMMA WriterOK ==
  ASSUME GithubInv, TypeOK', NEW h \in Handlers, handler[h].at \in {"replace", "deactivate"},
         UNCHANGED <<githubVars, claims, abandoned, inTurn>>, Go(h, "complete"),
         Latest(handler[h].delivery) => Mirrors'
  PROVE  GithubInv'
<1>1. /\ Others(h) /\ handler'[h].delivery = handler[h].delivery /\ handler'[h].at = "complete"
      /\ Working(h)
  BY GoStep DEF GithubInv, Steps, Working
<1>2. HandlersOK' /\ ClaimsAreHeld' /\ InTurnOK' /\ TellsOK'
  BY <1>1, StepKeepsClaims DEF Working
<1>3. ASSUME NEW d PROVE Latest(d)' <=> Latest(d)
  BY DEF Latest, githubVars
<1>4. ListedOK'
  <2>1. ASSUME NEW g \in Handlers, Latest(handler[g].delivery)'
        PROVE  /\ handler'[g].at = "list" => (handler[g].listed = {r \in granted : Position(r) <= handler[g].page * PageSize})'
               /\ handler'[g].at = "replace" => (handler[g].listed = granted)'
               /\ (inTurn /\ handler[g].at = "complete" => Mirrors)'
    <3>1. CASE g = h
      BY <1>1, <1>3, <2>1, <3>1
    <3>2. CASE g # h
      <4>1. handler'[g] = handler[g] /\ Latest(handler[g].delivery)
        BY <1>1, <1>3, <2>1, <3>2 DEF Others
      <4>2. inTurn => handler[g].at = "idle"
        BY <3>2, WriterIsAlone DEF Working
      <4> QED
        BY <4>1, <4>2 DEF GithubInv, ListedOK, Position, githubVars
    <3> QED
      BY <3>1, <3>2
  <2> QED
    BY <2>1 DEF ListedOK
<1>5. CompletedOK'
  BY <1>3, WriterIsAlone DEF CompletedOK
<1> QED
  BY <1>2, <1>4, <1>5 DEF GithubInv

LEMMA ReplaceSnapshotOK ==
  ASSUME GithubInv, NEW h \in Handlers, ReplaceSnapshot(h)
  PROVE  GithubInv'
<1>1. TypeOK'
  BY RequestTypes DEF GithubInv, HandlerStep
<1>2. /\ handler[h].at = "replace" /\ UNCHANGED <<githubVars, claims, abandoned, inTurn>>
      /\ Go(h, "complete") /\ stored' = [status |-> "active", repositories |-> handler[h].listed]
  BY DEF ReplaceSnapshot, StoresRest
<1>3. ASSUME Latest(handler[h].delivery) PROVE Mirrors'
  <2>1. handler[h].listed = granted
    BY <1>2, <1>3 DEF GithubInv, ListedOK
  <2>2. handler[h].delivery \in Deliveries
    BY <1>2, Typed DEF GithubInv, HandlersOK, Working, Rows
  <2>3. deliveries[handler[h].delivery] \in Reconciling
    BY <1>2 DEF GithubInv, HandlersOK
  <2>4. installed = "active"
    BY <1>3, <2>2, <2>3 DEF GithubInv, TellsOK, StatusAfter, Reconciling
  <2> QED
    BY <1>2, <2>1, <2>4 DEF Mirrors, githubVars
<1> QED
  BY <1>1, <1>2, <1>3, WriterOK

LEMMA DeactivateOK ==
  ASSUME GithubInv, NEW h \in Handlers, Deactivate(h)
  PROVE  GithubInv'
<1>1. TypeOK'
  BY RequestTypes DEF GithubInv, HandlerStep
<1>2. /\ handler[h].at = "deactivate" /\ UNCHANGED <<githubVars, claims, abandoned, inTurn>>
      /\ Go(h, "complete")
      /\ stored'.status = IF deliveries[handler[h].delivery] = "deleted" THEN "deleted" ELSE "suspended"
  BY DEF Deactivate, StoresRest, GithubInv, TypeOK
<1>3. ASSUME Latest(handler[h].delivery) PROVE Mirrors'
  <2>1. handler[h].delivery \in Deliveries
    BY <1>2, Typed DEF GithubInv, HandlersOK, Working, Rows
  <2>2. deliveries[handler[h].delivery] \in Deactivating
    BY <1>2 DEF GithubInv, HandlersOK
  <2>3. installed = stored'.status /\ installed # "active"
    BY <1>2, <1>3, <2>1, <2>2 DEF GithubInv, TellsOK, StatusAfter, Deactivating
  <2> QED
    BY <1>2, <2>3 DEF Mirrors, githubVars
<1> QED
  BY <1>1, <1>2, <1>3, WriterOK

\* A request that is done or gave up settles the claim it held.
LEMMA SettleOK ==
  ASSUME GithubInv, TypeOK', NEW h \in Handlers, Leave(h), NEW end \in {"none", "complete"},
         claims' = [claims EXCEPT ![handler[h].delivery] = end],
         UNCHANGED <<githubVars, stored, inTurn, abandoned>>,
         Working(h), end = "complete" => handler[h].at = "complete"
  PROVE  GithubInv'
<1> DEFINE d == handler[h].delivery
<1>1. /\ d \in Deliveries /\ d <= Len(deliveries) /\ claims[d] = "active" /\ d # NoDelivery
      /\ \A g \in Handlers : g # h => handler[g].delivery # d
  BY Typed DEF GithubInv, HandlersOK, ClaimsAreHeld, Rows
<1>2. /\ \A g \in Handlers : g # h => handler'[g] = handler[g]
      /\ handler'[h].at = "idle" /\ handler'[h].delivery = NoDelivery /\ Others(h)
  BY LeaveStep, FreeType DEF GithubInv, Others
<1>3. /\ claims'[d] = end
      /\ \A e \in Deliveries : e # d => claims'[e] = claims[e]
  BY <1>1, Typed DEF GithubInv
<1>4. ASSUME NEW e PROVE Latest(e)' <=> Latest(e)
  BY DEF Latest, githubVars
<1>5. deliveries' = deliveries /\ granted' = granted
  BY DEF githubVars
<1>6. \A g \in Handlers : handler[g].delivery \in Deliveries \cup {NoDelivery}
  BY Typed DEF GithubInv, Rows
<1> HIDE DEF d
<1>7. HandlersOK'
  <2>1. ASSUME NEW g \in Handlers
        PROVE  /\ Working(g)' <=> handler'[g].delivery # NoDelivery
               /\ Working(g)' => /\ handler'[g].delivery <= Len(deliveries')
                                 /\ claims'[handler'[g].delivery] = "active"
               /\ handler'[g].at \in {"list", "replace"} => deliveries'[handler'[g].delivery] \in Reconciling
               /\ handler'[g].at = "deactivate" => deliveries'[handler'[g].delivery] \in Deactivating
    <3>1. CASE g = h
      BY <1>2, <3>1 DEF Working
    <3>2. CASE g # h
      BY <1>1, <1>2, <1>3, <1>5, <1>6, <3>2 DEF GithubInv, HandlersOK, Working
    <3> QED
      BY <3>1, <3>2
  <2>2. ASSUME NEW e \in Deliveries, claims'[e] # "none" PROVE e <= Len(deliveries')
    BY <1>1, <1>3, <1>5, <2>2 DEF GithubInv, HandlersOK
  <2> QED
    BY <2>1, <2>2 DEF HandlersOK
<1>8. ClaimsAreHeld'
  <2>1. ASSUME NEW e \in Deliveries, claims'[e] = "active"
        PROVE  e \in abandoned' \/ \E g \in Handlers : handler'[g].delivery = e
    <3>1. e # d /\ claims[e] = "active"
      BY <1>3, <2>1
    <3>2. CASE e \in abandoned
      BY <3>2
    <3>3. ASSUME NEW g \in Handlers, handler[g].delivery = e PROVE handler'[g].delivery = e
      BY <1>2, <3>1, <3>3 DEF d
    <3> QED
      BY <3>1, <3>2, <3>3 DEF GithubInv, ClaimsAreHeld
  <2>2. ASSUME NEW e \in Deliveries, NEW f \in Handlers, NEW g \in Handlers,
               handler'[f].delivery = e, handler'[g].delivery = e
        PROVE  f = g
    BY <1>2, <2>2 DEF GithubInv, ClaimsAreHeld, NoDelivery, Deliveries
  <2> QED
    BY <2>1, <2>2 DEF ClaimsAreHeld
<1>9. InTurnOK'
  <2>1. ASSUME inTurn, NEW e \in Deliveries, NEW f \in Deliveries, e < f, claims'[f] # "none"
        PROVE  claims'[e] = "complete"
    <3>1. claims[f] # "none" /\ claims[e] = "complete"
      BY <1>1, <1>3, <2>1 DEF GithubInv, InTurnOK
    <3> QED
      BY <1>1, <1>3, <3>1
  <2>2. ASSUME inTurn, NEW f \in Handlers, NEW g \in Handlers, Working(f)', Working(g)' PROVE f = g
    BY <1>2, <2>2 DEF GithubInv, InTurnOK, Working
  <2> QED
    BY <2>1, <2>2 DEF InTurnOK
<1>10. TellsOK'
  BY <1>4 DEF GithubInv, TellsOK, githubVars
<1>11. ListedOK'
  BY <1>2, OthersListed DEF ListedOK
<1>12. CompletedOK'
  <2>1. ASSUME inTurn, NEW e \in Deliveries, Latest(e), claims'[e] = "complete" PROVE Mirrors
    BY <1>3, <2>1 DEF GithubInv, CompletedOK, ListedOK, d
  <2> QED
    BY <1>4, <2>1 DEF CompletedOK, Mirrors, githubVars
<1> QED
  BY <1>7, <1>8, <1>9, <1>10, <1>11, <1>12 DEF GithubInv

\* A request that dies leaves its claim behind.
LEMMA AbandonOK ==
  ASSUME GithubInv, TypeOK', UNCHANGED <<githubVars, claims, stored, inTurn>>,
         \A h \in Handlers : \/ handler'[h] = handler[h]
                             \/ handler'[h] = Free /\ (Working(h) => handler[h].delivery \in abandoned'),
         abandoned \subseteq abandoned'
  PROVE  GithubInv'
<1>1. ASSUME NEW e PROVE Latest(e)' <=> Latest(e)
  BY DEF Latest, githubVars
<1>2. \A h \in Handlers : handler'[h] = handler[h] \/ (handler'[h].at = "idle" /\ handler'[h].delivery = NoDelivery)
  BY FreeType
<1>3. HandlersOK'
  BY <1>2 DEF GithubInv, HandlersOK, Working, githubVars
<1>4. ClaimsAreHeld'
  <2>1. ASSUME NEW e \in Deliveries, claims[e] = "active"
        PROVE  e \in abandoned' \/ \E g \in Handlers : handler'[g].delivery = e
    <3>1. CASE e \in abandoned
      BY <3>1
    <3>2. ASSUME NEW g \in Handlers, handler[g].delivery = e
          PROVE  e \in abandoned' \/ handler'[g].delivery = e
      <4>1. Working(g)
        BY <3>2 DEF GithubInv, HandlersOK, Deliveries, NoDelivery
      <4> QED
        BY <3>2, <4>1
    <3> QED
      BY <2>1, <3>1, <3>2 DEF GithubInv, ClaimsAreHeld
  <2>2. ASSUME NEW e \in Deliveries, NEW f \in Handlers, NEW g \in Handlers,
               handler'[f].delivery = e, handler'[g].delivery = e
        PROVE  f = g
    BY <1>2, <2>2 DEF GithubInv, ClaimsAreHeld, NoDelivery, Deliveries
  <2> QED
    BY <2>1, <2>2 DEF ClaimsAreHeld
<1>5. InTurnOK'
  BY <1>2 DEF GithubInv, InTurnOK, Working
<1>6. TellsOK' /\ CompletedOK'
  BY <1>1 DEF GithubInv, TellsOK, CompletedOK, Mirrors, githubVars
<1>7. ListedOK'
  <2>1. ASSUME NEW g \in Handlers, Latest(handler[g].delivery)'
        PROVE  handler'[g] = handler[g] /\ Latest(handler[g].delivery)
    BY <1>1, <1>2, <2>1 DEF Latest, NoDelivery
  <2> QED
    BY <2>1 DEF GithubInv, ListedOK, Mirrors, Position, githubVars
<1> QED
  BY <1>3, <1>4, <1>5, <1>6, <1>7 DEF GithubInv

LEMMA ReleaseFailsOK ==
  ASSUME GithubInv, NEW h \in Handlers, ReleaseFails(h)
  PROVE  GithubInv'
<1>1. TypeOK'
  BY RequestTypes DEF GithubInv, HandlerStep
<1>2. Others(h) /\ handler'[h] = Free
  BY LeaveStep DEF ReleaseFails, GithubInv
<1> QED
  BY <1>1, <1>2, AbandonOK DEF ReleaseFails, StoresRest, Others

LEMMA CrashOK ==
  ASSUME GithubInv, Crash
  PROVE  GithubInv'
<1>1. TypeOK' /\ \A h \in Handlers : handler'[h] = Free
  BY CrashTypes DEF GithubInv
<1>2. \A h \in Handlers : Working(h) => handler[h].delivery \in abandoned'
  BY DEF Crash
<1>3. UNCHANGED <<githubVars, claims, stored, inTurn>> /\ abandoned \subseteq abandoned'
  BY DEF Crash, StoresRest
<1> QED
  BY <1>1, <1>2, <1>3, AbandonOK

LEMMA ClaimOK ==
  ASSUME GithubInv, NEW h \in Handlers, NEW d \in Deliveries, Claim(h, d)
  PROVE  GithubInv'
<1>1. TypeOK'
  BY RequestTypes DEF GithubInv, HandlerStep
<1>2. /\ ~Working(h) /\ d <= Len(deliveries) /\ claims[d] = "none"
      /\ UNCHANGED <<githubVars, stored, abandoned>>
      /\ claims' = [claims EXCEPT ![d] = "active"]
      /\ inTurn' => inTurn /\ (\A g \in Handlers : ~Working(g)) /\ \A e \in 1..d - 1 : claims[e] = "complete"
  BY DEF Claim, Claimable, StoresRest
<1>3. /\ Others(h) /\ handler'[h].delivery = d /\ handler'[h].at = PartFor(deliveries[d])
      /\ handler'[h].page = 0 /\ handler'[h].listed = {}
      /\ \A g \in Handlers : g # h => handler'[g] = handler[g]
  BY ClaimStep DEF GithubInv, Others
<1>4. /\ claims'[d] = "active"
      /\ \A e \in Deliveries : e # d => claims'[e] = claims[e]
  BY <1>2, Typed DEF GithubInv
<1>5. ASSUME NEW e PROVE Latest(e)' <=> Latest(e)
  BY <1>2 DEF Latest, githubVars
<1>6. deliveries' = deliveries /\ d # NoDelivery /\ \A g \in Handlers : handler[g].delivery \in Deliveries \cup {NoDelivery}
  BY <1>2, Typed DEF githubVars, GithubInv, Rows, Deliveries, NoDelivery
<1>7. handler'[h].at \in {"deactivate", "list", "complete"}
  BY <1>3 DEF PartFor
<1>8. HandlersOK'
  <2>1. ASSUME NEW g \in Handlers
        PROVE  /\ Working(g)' <=> handler'[g].delivery # NoDelivery
               /\ Working(g)' => /\ handler'[g].delivery <= Len(deliveries')
                                 /\ claims'[handler'[g].delivery] = "active"
               /\ handler'[g].at \in {"list", "replace"} => deliveries'[handler'[g].delivery] \in Reconciling
               /\ handler'[g].at = "deactivate" => deliveries'[handler'[g].delivery] \in Deactivating
    <3>1. CASE g = h
      BY <1>2, <1>3, <1>4, <1>6, <3>1 DEF Working, PartFor, Deactivating, Reconciling
    <3>2. CASE g # h
      BY <1>2, <1>3, <1>4, <1>6, <3>2 DEF GithubInv, HandlersOK, Working
    <3> QED
      BY <3>1, <3>2
  <2>2. ASSUME NEW e \in Deliveries, claims'[e] # "none" PROVE e <= Len(deliveries')
    BY <1>2, <1>4, <1>6, <2>2 DEF GithubInv, HandlersOK
  <2> QED
    BY <2>1, <2>2 DEF HandlersOK
<1>9. ASSUME NEW g \in Handlers, handler[g].delivery \in Deliveries PROVE g # h /\ handler[g].delivery # d
  BY <1>2, <1>9 DEF GithubInv, HandlersOK, NoDelivery, Deliveries
<1>10. ClaimsAreHeld'
  <2>1. ASSUME NEW e \in Deliveries, claims'[e] = "active"
        PROVE  e \in abandoned' \/ \E g \in Handlers : handler'[g].delivery = e
    <3>1. CASE e = d
      BY <1>3, <3>1
    <3>2. CASE e # d
      <4>1. claims[e] = "active"
        BY <1>4, <2>1, <3>2
      <4>2. ASSUME NEW g \in Handlers, handler[g].delivery = e PROVE handler'[g].delivery = e
        BY <1>3, <1>9, <4>2
      <4> QED
        BY <1>2, <4>1, <4>2 DEF GithubInv, ClaimsAreHeld
    <3> QED
      BY <3>1, <3>2
  <2>2. ASSUME NEW e \in Deliveries, NEW f \in Handlers, NEW g \in Handlers,
               handler'[f].delivery = e, handler'[g].delivery = e
        PROVE  f = g
    BY <1>3, <1>9, <2>2 DEF GithubInv, ClaimsAreHeld
  <2> QED
    BY <2>1, <2>2 DEF ClaimsAreHeld
<1>11. InTurnOK'
  <2>1. ASSUME inTurn', NEW e \in Deliveries, NEW f \in Deliveries, e < f, claims'[f] # "none"
        PROVE  claims'[e] = "complete"
    <3>1. CASE f = d
      BY <1>2, <1>4, <2>1, <3>1 DEF Deliveries
    <3>2. CASE f # d
      <4>1. claims[e] = "complete"
        BY <1>2, <1>4, <2>1, <3>2 DEF GithubInv, InTurnOK
      <4> QED
        BY <1>2, <1>4, <4>1
    <3> QED
      BY <3>1, <3>2
  <2>2. ASSUME inTurn', NEW f \in Handlers, NEW g \in Handlers, Working(f)', Working(g)' PROVE f = g
    BY <1>2, <1>3, <2>2 DEF Working
  <2> QED
    BY <2>1, <2>2 DEF InTurnOK
<1>12. TellsOK'
  BY <1>2, <1>5 DEF GithubInv, TellsOK, githubVars
<1>13. ListedOK'
  <2>1. ASSUME NEW g \in Handlers, Latest(handler[g].delivery)'
        PROVE  /\ handler'[g].at = "list" => (handler[g].listed = {r \in granted : Position(r) <= handler[g].page * PageSize})'
               /\ handler'[g].at = "replace" => (handler[g].listed = granted)'
               /\ (inTurn /\ handler[g].at = "complete" => Mirrors)'
    <3>1. CASE g # h
      BY <1>2, <1>3, <2>1, <3>1, OthersListed
    <3>2. CASE g = h
      <4>1. granted' = granted /\ \A r : Position(r)' = Position(r)
        BY <1>2 DEF githubVars, Position
      <4>2. {r \in granted : Position(r) <= 0 * PageSize} = {}
        BY PagesAddUp DEF GithubInv, UpTo
      <4>3. (handler[h].listed = {r \in granted : Position(r) <= handler[h].page * PageSize})'
        BY <1>3, <4>1, <4>2
      <4>4. handler'[h].at # "complete"
        BY <1>3, <1>6, <2>1, <3>2, Typed DEF GithubInv, Latest, PartFor, Actions
      <4> QED
        BY <1>7, <3>2, <4>3, <4>4
    <3> QED
      BY <3>1, <3>2
  <2> QED
    BY <2>1 DEF ListedOK
<1>14. CompletedOK'
  <2>1. ASSUME inTurn', NEW e \in Deliveries, Latest(e), claims'[e] = "complete" PROVE Mirrors
    BY <1>2, <1>4, <2>1 DEF GithubInv, CompletedOK
  <2> QED
    BY <1>2, <1>5, <2>1 DEF CompletedOK, Mirrors, githubVars
<1> QED
  BY <1>1, <1>8, <1>10, <1>11, <1>12, <1>13, <1>14 DEF GithubInv

LEMMA RequestOK ==
  ASSUME GithubInv, NEW h \in Handlers, HandlerStep(h)
  PROVE  GithubInv'
<1>1. TypeOK'
  BY RequestTypes DEF GithubInv
<1>2. CASE Complete(h)
  BY <1>1, <1>2, SettleOK DEF Complete, StoresRest, Working
<1>3. CASE Release(h)
  BY <1>1, <1>3, SettleOK DEF Release, GiveUp, StoresRest, Working
<1> QED
  BY <1>2, <1>3, ClaimOK, ListPageOK, RefusedOK, ReplaceSnapshotOK, DeactivateOK, ReleaseFailsOK DEF HandlerStep

LEMMA InitOK == Init => GithubInv
<1> SUFFICES ASSUME Init PROVE GithubInv
  OBVIOUS
<1>1. deliveries = <<"created">> /\ "created" \in Actions /\ 1 \in Deliveries
  BY BoundsAssumption DEF Init, Actions, Reconciling, Deliveries
<1>2. deliveries \in Seq(Actions) /\ Len(deliveries) = 1 /\ deliveries[1] = "created"
  BY <1>1
<1>3. \A h \in Handlers : handler[h] = Free
  BY DEF Init
<1>4. TypeOK
  <2>1. handler \in [Handlers -> Rows] /\ broker \in [Brokers -> Tokens]
    BY FreeType, UnusedType DEF Init
  <2>2. 0 \in 0..MaxClock /\ 0 \in 0..MaxFaults /\ 1 <= MaxChanges
    BY BoundsAssumption
  <2>3. /\ installed \in Statuses /\ granted \subseteq Repos
        /\ stored \in [status : Statuses, repositories : SUBSET Repos]
        /\ claims \in [Deliveries -> {"none", "active", "complete"}]
    BY DEF Init, Statuses
  <2>4. clock = 0 /\ faults = 0 /\ inTurn = TRUE /\ abandoned = {} /\ revoked \in [Repos -> Deliveries]
    BY <1>1 DEF Init
  <2> QED
    BY <1>2, <2>1, <2>2, <2>3, <2>4 DEF TypeOK, Rows, Steps, Tokens
<1>5. Latest(1) /\ \A d \in Deliveries : Latest(d) => d = 1
  BY <1>2 DEF Latest
<1>6. TellsOK
  BY <1>1, <1>2, <1>5 DEF TellsOK, StatusAfter, Init
<1>7. HandlersOK /\ ClaimsAreHeld /\ InTurnOK /\ CompletedOK
  BY <1>3, FreeType DEF Init, HandlersOK, ClaimsAreHeld, InTurnOK, CompletedOK, Working, NoDelivery, Deliveries
<1>8. ListedOK
  BY <1>3, FreeType DEF ListedOK
<1> QED
  BY <1>4, <1>6, <1>7, <1>8 DEF GithubInv

LEMMA NextOK == GithubInv /\ [Next]_vars => GithubInv'
<1> SUFFICES ASSUME GithubInv, [Next]_vars PROVE GithubInv'
  OBVIOUS
<1>1. ASSUME NEW b \in Brokers, BrokerStep(b) PROVE GithubInv'
  BY <1>1, BrokerTypes, FrameOK DEF BrokerRests, GithubInv
<1>2. ASSUME Tick PROVE GithubInv'
  BY <1>2, TickTypes, FrameOK DEF Tick, GithubInv
<1>3. ASSUME UNCHANGED vars PROVE GithubInv'
  <2>1. TypeOK'
    BY <1>3 DEF GithubInv, TypeOK, vars, githubVars
  <2> QED
    BY <1>3, <2>1, FrameOK DEF vars
<1> QED
  BY <1>1, <1>2, <1>3, GithubOK, RequestOK, CrashOK DEF Next

LEMMA GithubInvariant == Spec => []GithubInv
  BY InitOK, NextOK, PTL DEF Spec

----------------------------------------------------------------------------
\* The stores, the requests and the calls of the broker keep their types.
THEOREM InstallationTypes == Spec => []TypeOK
<1>1. GithubInv => TypeOK
  BY DEF GithubInv
<1> QED
  BY <1>1, GithubInvariant, PTL

\* An active claim is worked on by exactly one request, or was left behind by a
\* crash or a failed release (github-webhook-handler.ts, handle).
THEOREM ClaimsHaveOneRequest == Spec => []ClaimsAreHeld
<1>1. GithubInv => ClaimsAreHeld
  BY DEF GithubInv
<1> QED
  BY <1>1, GithubInvariant, PTL

\* When every delivery was carried out, in turn, the stored installation is the
\* one at GitHub, for any number of pages and whatever changed while they were
\* listed (github-installation-reconciler.ts, reconcile and deactivate).
THEOREM SettledIsMirrored == Spec => []SettledMirrorsGithub
<1>1. GithubInv => SettledMirrorsGithub
  <2> SUFFICES ASSUME GithubInv, inTurn, \A d \in 1..Len(deliveries) : claims[d] = "complete"
               PROVE  Mirrors
    BY DEF SettledMirrorsGithub, Mirrors
  <2>1. PICK d \in Deliveries : Latest(d)
    BY DEF GithubInv, TellsOK
  <2> QED
    BY <2>1 DEF GithubInv, CompletedOK, Latest
<1> QED
  BY <1>1, GithubInvariant, PTL

----------------------------------------------------------------------------
(* Repositories that GitHub permits no more.  The delivery that tells of it   *)
(* is none of the other kind; whoever lists such a repository works on an     *)
(* earlier delivery, and until that one is complete no later one is claimed.  *)

Refused(r) ==
  /\ Granted(r) => claims[revoked[r]] # "complete"
  /\ \A h \in Handlers :
       /\ handler[h].at \in {"list", "replace"} /\ r \in handler[h].listed =>
            handler[h].delivery < revoked[r]
       /\ handler[h].at = "complete" /\ handler[h].delivery = revoked[r] => ~Granted(r)

RevokedOK ==
  /\ \A r \in Repos : revoked[r] \in 1..Len(deliveries) /\ deliveries[revoked[r]] # "other"
  /\ \A r \in Repos : inTurn /\ ~Permitted(r) => Refused(r)

LEMMA RevokedByTelling ==
  ASSUME GithubInv, RevokedOK, NEW action \in Actions, Tell(action),
         action = "other" => UNCHANGED <<installed, granted>>
  PROVE  RevokedOK'
<1>1. /\ UNCHANGED <<claims, stored, handler, inTurn>>
      /\ Len(deliveries') = Len(deliveries) + 1 /\ Len(deliveries) \in Nat
      /\ \A i \in 1..Len(deliveries) : deliveries'[i] = deliveries[i]
      /\ deliveries'[Len(deliveries) + 1] = action
  BY TellStep, Typed DEF GithubInv, Tell
<1>2. \A r \in Repos :
        revoked'[r] = IF Permitted(r) /\ ~Permitted(r)' THEN Len(deliveries') ELSE revoked[r]
  BY DEF Tell
<1>3. ASSUME NEW r \in Repos
      PROVE  revoked'[r] \in 1..Len(deliveries') /\ deliveries'[revoked'[r]] # "other"
  <2>1. CASE Permitted(r) /\ ~Permitted(r)'
    BY <1>1, <1>2, <2>1 DEF Permitted
  <2>2. CASE ~(Permitted(r) /\ ~Permitted(r)')
    BY <1>1, <1>2, <2>2 DEF RevokedOK
  <2> QED
    BY <2>1, <2>2
<1>4. ASSUME NEW r \in Repos, inTurn', ~Permitted(r)' PROVE Refused(r)'
  <2>1. CASE Permitted(r)
    <3>1. revoked'[r] = Len(deliveries) + 1 /\ revoked'[r] \in Deliveries
      BY <1>1, <1>2, <1>4, <2>1, TellStep, BoundsAssumption DEF GithubInv, Deliveries
    <3>2. claims[revoked'[r]] # "complete"
      BY <1>1, <3>1 DEF GithubInv, HandlersOK
    <3>3. ASSUME NEW h \in Handlers, handler[h].at # "idle" PROVE handler[h].delivery < revoked'[r]
      <4>1. handler[h].delivery \in Nat /\ handler[h].delivery <= Len(deliveries)
        BY <3>3, Typed DEF GithubInv, HandlersOK, Working, Rows, Deliveries, NoDelivery
      <4> QED
        BY <1>1, <3>1, <4>1
    <3>4. ASSUME NEW h \in Handlers, handler[h].at # "idle" PROVE handler[h].delivery # revoked'[r]
      <4>1. handler[h].delivery \in Nat /\ revoked'[r] \in Nat
        BY <1>1, <3>1, Typed DEF GithubInv, Rows, Deliveries, NoDelivery
      <4> QED
        BY <3>3, <3>4, <4>1
    <3> QED
      BY <1>1, <3>2, <3>3, <3>4 DEF Refused
  <2>2. CASE ~Permitted(r)
    BY <1>1, <1>2, <1>4, <2>2 DEF RevokedOK, Refused, Granted
  <2> QED
    BY <2>1, <2>2
<1> QED
  BY <1>3, <1>4 DEF RevokedOK

\* A request that changes its own row, its claim or the store.
LEMMA RevokedByRequest ==
  ASSUME GithubInv, RevokedOK, NEW h \in Handlers, HandlerStep(h)
  PROVE  RevokedOK'
<1>1. UNCHANGED <<githubVars, revoked>>
  BY DEF HandlerStep, Claim, ListPage, ListRefused, ReplaceSnapshot, Deactivate, Complete, WorkFails, Release,
     ReleaseFails, StoresRest
<1>2. \A r \in Repos : (Permitted(r)' <=> Permitted(r)) /\ revoked'[r] = revoked[r] /\ revoked[r] \in Deliveries
  BY <1>1 DEF Permitted, githubVars, GithubInv, TypeOK
<1>3. Others(h) /\ (inTurn' => inTurn)
  <2>1. ASSUME NEW d \in Deliveries, Claim(h, d) PROVE Others(h) /\ (inTurn' => inTurn)
    BY <2>1, ClaimStep DEF GithubInv, Claim
  <2>2. CASE ListPage(h)
    BY <2>2, ListPageStep DEF GithubInv, ListPage
  <2>3. CASE ListRefused(h) \/ WorkFails(h)
    BY <2>3, GoStep DEF GithubInv, ListRefused, WorkFails, Steps
  <2>4. CASE ReplaceSnapshot(h) \/ Deactivate(h)
    BY <2>4, GoStep DEF GithubInv, ReplaceSnapshot, Deactivate, Steps
  <2>5. CASE Complete(h) \/ Release(h) \/ ReleaseFails(h)
    BY <2>5, LeaveStep DEF GithubInv, Complete, Release, ReleaseFails
  <2> QED
    BY <2>1, <2>2, <2>3, <2>4, <2>5 DEF HandlerStep
<1>4. SUFFICES ASSUME NEW r \in Repos, inTurn, ~Permitted(r), Refused(r) PROVE Refused(r)'
  BY <1>1, <1>2, <1>3 DEF RevokedOK, githubVars
<1>5. \A g \in Handlers : g # h => handler'[g] = handler[g]
  BY <1>3 DEF Others
<1>6. ASSUME NEW d \in Deliveries, Claim(h, d) PROVE Refused(r)'
  <2>1. /\ stored' = stored /\ claims' = [claims EXCEPT ![d] = "active"]
        /\ handler'[h].at = PartFor(deliveries[d]) /\ handler'[h].listed = {} /\ handler'[h].delivery = d
    BY <1>6, ClaimStep DEF Claim, GithubInv
  <2>2. claims'[revoked[r]] = "complete" => claims[revoked[r]] = "complete"
    BY <1>2, <2>1, Typed DEF GithubInv
  <2>3. handler'[h].at = "complete" => d # revoked[r]
    <3>1. d \in 1..Len(deliveries) /\ deliveries[d] \in Actions
      BY <1>6, Typed DEF Claim, GithubInv, Deliveries
    <3>2. deliveries[revoked[r]] # "other"
      BY DEF RevokedOK
    <3> QED
      BY <2>1, <3>1, <3>2 DEF PartFor, Actions
  <2> QED
    BY <1>2, <1>4, <1>5, <2>1, <2>2, <2>3 DEF Refused, Granted
<1>7. ASSUME ListPage(h) PROVE Refused(r)'
  <2>1. /\ UNCHANGED <<stored, claims>> /\ handler[h].at = "list" /\ installed = "active"
        /\ handler'[h].at \in {"list", "replace"} /\ handler'[h].delivery = handler[h].delivery
        /\ handler'[h].listed = handler[h].listed \cup Page(handler[h].page + 1)
    BY <1>7, ListPageStep DEF ListPage, GithubInv, Gathered
  <2>2. r \notin Page(handler[h].page + 1)
    BY <1>4, <2>1 DEF Page, Permitted
  <2>3. handler'[h].at # "complete"
    BY <2>1
  <2>4. r \in handler'[h].listed => r \in handler[h].listed
    BY <2>1, <2>2
  <2>5. r \in handler'[h].listed => handler'[h].delivery < revoked'[r]
    BY <1>2, <1>4, <2>1, <2>4 DEF Refused
  <2>6. Granted(r)' => claims'[revoked'[r]] # "complete"
    BY <1>2, <1>4, <2>1 DEF Refused, Granted
  <2>7. Granted(r)' <=> Granted(r)
    BY <2>1 DEF Granted
  <2>8. ASSUME NEW g \in Handlers
        PROVE  /\ handler'[g].at \in {"list", "replace"} /\ r \in handler'[g].listed =>
                    handler'[g].delivery < revoked'[r]
               /\ handler'[g].at = "complete" /\ handler'[g].delivery = revoked'[r] => ~Granted(r)
    <3>1. CASE g = h
      BY <2>3, <2>5, <3>1
    <3>2. CASE g # h
      BY <1>2, <1>4, <1>5, <3>2 DEF Refused
    <3> QED
      BY <3>1, <3>2
  <2> QED
    BY <2>6, <2>7, <2>8 DEF Refused
<1>8. ASSUME ReplaceSnapshot(h) PROVE Refused(r)'
  <2>1. /\ claims' = claims /\ handler[h].at = "replace" /\ handler'[h].at = "complete"
        /\ handler'[h].delivery = handler[h].delivery
        /\ stored'.repositories = handler[h].listed
    BY <1>8, GoStep DEF ReplaceSnapshot, GithubInv, Steps
  <2>2. \A g \in Handlers : g # h => handler[g].at = "idle"
    BY <1>4, <2>1 DEF GithubInv, InTurnOK, Working
  <2>3. CASE r \in handler[h].listed
    <3>1. /\ handler[h].delivery < revoked[r] /\ handler[h].delivery \in Deliveries
          /\ claims[handler[h].delivery] = "active"
      BY <1>4, <2>1, <2>3, Typed DEF Refused, GithubInv, HandlersOK, Working, Rows
    <3>2. claims[revoked[r]] = "none"
      BY <1>2, <1>4, <3>1 DEF GithubInv, InTurnOK
    <3>3. handler[h].delivery # revoked[r]
      BY <3>1 DEF Deliveries
    <3> QED
      BY <1>2, <1>5, <2>1, <2>2, <3>2, <3>3 DEF Refused
  <2>4. CASE r \notin handler[h].listed
    <3>1. ~Granted(r)'
      BY <2>1, <2>4 DEF Granted
    <3> QED
      BY <1>2, <1>5, <2>1, <2>2, <3>1 DEF Refused
  <2> QED
    BY <2>3, <2>4
<1>9. ASSUME Deactivate(h) PROVE Refused(r)'
  <2>1. /\ handler'[h].at = "complete" /\ handler[h].at = "deactivate" /\ stored'.status # "active"
    BY <1>9, GoStep DEF Deactivate, GithubInv, Steps, TypeOK
  <2>2. ~Granted(r)'
    BY <2>1 DEF Granted
  <2> QED
    BY <1>2, <1>4, <1>5, <2>1, <2>2 DEF Refused
<1>10. ASSUME Complete(h) PROVE Refused(r)'
  <2>1. /\ handler[h].at = "complete" /\ handler'[h].at = "idle" /\ stored' = stored
        /\ claims' = [claims EXCEPT ![handler[h].delivery] = "complete"]
    BY <1>10, LeaveStep, FreeType DEF Complete, GithubInv
  <2>2. Granted(r) => claims'[revoked[r]] # "complete"
    BY <1>2, <1>4, <2>1, Typed DEF GithubInv, Refused
  <2> QED
    BY <1>2, <1>4, <1>5, <2>1, <2>2 DEF Refused, Granted
<1>11. ASSUME stored' = stored, \A d \in Deliveries : claims'[d] = "complete" => claims[d] = "complete",
              handler'[h].at \in {"idle", "release"}
       PROVE  Refused(r)'
  BY <1>2, <1>4, <1>5, <1>11 DEF Refused, Granted
<1>12. ASSUME ListRefused(h) \/ WorkFails(h) PROVE Refused(r)'
  BY <1>11, <1>12, GoStep DEF ListRefused, WorkFails, GithubInv, Steps
<1>13. ASSUME Release(h) \/ ReleaseFails(h) PROVE Refused(r)'
  <2>1. handler'[h].at = "idle" /\ stored' = stored
    BY <1>13, LeaveStep, FreeType DEF Release, ReleaseFails, GithubInv
  <2>2. \A d \in Deliveries : claims'[d] = "complete" => claims[d] = "complete"
    BY <1>13, Typed DEF Release, ReleaseFails, GiveUp, GithubInv
  <2> QED
    BY <1>11, <2>1, <2>2
<1> QED
  BY <1>6, <1>7, <1>8, <1>9, <1>10, <1>12, <1>13 DEF HandlerStep

LEMMA RevokedKept == GithubInv /\ RevokedOK /\ [Next]_vars => RevokedOK'
<1> SUFFICES ASSUME GithubInv, RevokedOK, [Next]_vars PROVE RevokedOK'
  OBVIOUS
<1>1. ASSUME ChangeStatus \/ ChangeRepositories \/ OtherEvent PROVE RevokedOK'
  <2>1. {"suspend", "unsuspend", "deleted", "repositories", "other"} \subseteq Actions
    BY DEF Actions, Deactivating, Reconciling
  <2>2. \E action \in Actions : Tell(action) /\ (action = "other" => UNCHANGED <<installed, granted>>)
    BY <1>1, <2>1 DEF ChangeStatus, ChangeRepositories, OtherEvent
  <2> QED
    BY <2>2, RevokedByTelling
<1>2. ASSUME UNCHANGED <<githubVars, claims, stored, handler, inTurn, revoked>> PROVE RevokedOK'
  BY <1>2 DEF RevokedOK, Refused, Granted, Permitted, githubVars
<1>3. ASSUME Crash PROVE RevokedOK'
  <2>1. UNCHANGED <<githubVars, claims, stored, inTurn, revoked>> /\ \A h \in Handlers : handler'[h].at = "idle"
    BY <1>3, CrashTypes, FreeType DEF Crash, StoresRest, GithubInv
  <2> QED
    BY <2>1 DEF RevokedOK, Refused, Granted, Permitted, githubVars
<1>4. ASSUME NEW b \in Brokers, BrokerStep(b) PROVE RevokedOK'
  BY <1>2, <1>4, BrokerTypes DEF BrokerRests, GithubInv
<1>5. ASSUME Tick \/ UNCHANGED vars PROVE RevokedOK'
  BY <1>2, <1>5 DEF Tick, vars
<1> QED
  BY <1>1, <1>3, <1>4, <1>5, RevokedByRequest DEF Next

LEMMA RevokedInvariant == Spec => [](GithubInv /\ RevokedOK)
<1>1. Init => RevokedOK
  BY FreeType DEF Init, RevokedOK, Refused, Granted
<1> QED
  BY <1>1, RevokedKept, InitOK, NextOK, PTL DEF Spec

\* A repository that GitHub permits no more is refused by the broker's check once
\* the delivery that told of it is complete, deliveries being in turn
\* (github-webhook-handler.ts, process; github-installation-reconciler.ts,
\* reconcile; github-credential-broker.ts, withRepositoryCredential).
THEOREM RevokedGrantsAreRefused == Spec => []RevokedIsRefused
<1>1. GithubInv /\ RevokedOK => RevokedIsRefused
  BY DEF RevokedOK, Refused, RevokedIsRefused
<1> QED
  BY <1>1, RevokedInvariant, PTL
=============================================================================
