------------------------ MODULE ForgeExecutionProofs ------------------------
(***************************************************************************)
(* What the properties of ForgeExecution rest on, for any number of runs,   *)
(* publishers, operators' calls and turns.                                  *)
(*                                                                         *)
(* A step of an execution knows what its sandbox is: there is a record of   *)
(* it from its creation to its release.  No turn exists before the agent is *)
(* started, and no call finds a run that has no turn.  As long as           *)
(* instructions are apart from cancels, the turn at work is named by the    *)
(* run's record or by the instruction that started it.  A run awaits review *)
(* once, after its only validation, so that what was reviewed and published *)
(* never changes again.  An execution that has not ended leads an active    *)
(* run, or a run whose cancellation was answered.                           *)
(***************************************************************************)
EXTENDS ForgeExecution, FiniteSetTheorems, TLAPS

\* Why a machine may be left.
Excused(r) ==
  \/ kept[r] = "unheard" /\ record[r] = "none"
  \/ kept[r] = "refused"
  \/ kept[r] = "unread" /\ record[r] # "none"

SandboxOK ==
  \A r \in Runs :
    /\ execution[r].at \in {"idle", "create"} => record[r] = "none" /\ machine[r] = "absent"
    /\ execution[r].at \in {"start", "open", "read", "validate", "destroy", "catch"} =>
         record[r] # "none" \/ (execution[r].at = "catch" /\ machine[r] = "deleted")
    /\ execution[r].at = "ended" /\ Lives(r) => Excused(r)

Unstarted(r) == execution[r].at \in {"idle", "create", "start"}
Calling(c) == calls[c].at \notin {"idle", "over"}

TurnsOK ==
  /\ \A r \in Runs :
       /\ Unstarted(r) => registry[r].status = "absent" /\ \A t \in Turns : turns[r][t] = "none"
       /\ registry[r].turn # NoTurn => turns[r][registry[r].turn] # "none"
  /\ \A c \in Callers :
       /\ Calling(c) => calls[c].run \in Runs /\ ~Unstarted(calls[c].run)
       /\ calls[c].turn # NoTurn => Calling(c) /\ turns[calls[c].run][calls[c].turn] # "none"

Unchecked(r) == execution[r].at \in {"idle", "create", "start", "open", "read", "validate"}

RunsOK ==
  \A r \in Runs :
    /\ execution[r].at # "idle" => runs[r].state \notin {Absent, "queued"}
    /\ execution[r].at \in {"create", "start", "open", "read", "validate"} =>
         runs[r].state \in ActiveRunStates \/ r \in acked
    /\ Unchecked(r) => checks[r] = "none"
    /\ checks[r] = "none" =>
         version[r] = 0 /\ reviews[r] = NoReview /\ runs[r].state # "awaiting_review"

IterationsOK == \A r \in Runs : runs[r].iteration <= Cardinality(Existing)

Approved(r) ==
  /\ reviews[r] = [decision |-> "approved", snapshot |-> version[r]]
  /\ checks[r] = "passed"
  /\ runs[r].state # "awaiting_review"

RequestsOK ==
  \A p \in Publishers :
    /\ request[p].at # "idle" => request[p].branch \in Branches /\ request[p].commit \in Commits
    /\ request[p].at = "created" => request[p].head = request[p].commit

PublicationsOK ==
  /\ \A p \in Publishers : Publishing(p) =>
       /\ Approved(publication[p].run) /\ request[p].commit = publication[p].run
       /\ \A q \in Publishers : publication[q].run = publication[p].run => q = p
  /\ \A x \in publications :
       /\ Approved(x.run) /\ x.head = x.run
       /\ \A p \in Publishers : publication[p].run # x.run
       /\ \A y \in publications : y.run = x.run => y = x

----------------------------------------------------------------------------
(* The agent. *)

Events == [kind : EventKinds, turn : Turns]
Feeds == [Runs -> Seq(Events)]
CallRows == [at : {"idle", "begun", "interrupted", "started", "answered", "cancelled", "over"},
             op : Operations \cup {"none"}, run : Runs \cup {"none"}, turn : Turns \cup {NoTurn}]

LEMMA TurnBounds == Turns \subseteq Nat \ {0} /\ 1 \in Turns /\ NoTurn \notin Turns
  BY AgentBounds DEF Turns, NoTurn

LEMMA AgentTyped ==
  ASSUME AgentTypeOK
  PROVE  /\ feed \in Feeds /\ registry \in [Runs -> Records] /\ calls \in [Callers -> CallRows]
         /\ turns \in [Runs -> [Turns -> TurnStates]]
         /\ \A r \in Runs : feed[r] \in Seq(Events) /\ Len(feed[r]) <= MaxFeed
         /\ \A r \in Runs : registry[r].turn \in Turns \cup {NoTurn} /\ registry[r].pending \subseteq Turns
         /\ \A c \in Callers : calls[c].turn \in Turns \cup {NoTurn} /\ calls[c].run \in Runs \cup {"none"}
  BY DEF AgentTypeOK, Feeds, Events, CallRows, Records

LEMMA TellStep ==
  ASSUME AgentTypeOK, NEW r \in Runs, NEW t \in Turns, NEW kind \in EventKinds, Tell(r, kind, t)
  PROVE  feed' \in Feeds /\ \A q \in Runs : Len(feed'[q]) <= MaxFeed
<1>1. CASE feed' = feed
  BY <1>1, AgentTyped
<1>2. CASE Len(feed[r]) < MaxFeed /\ feed' = [feed EXCEPT ![r] = Append(feed[r], [kind |-> kind, turn |-> t])]
  <2> DEFINE event == [kind |-> kind, turn |-> t]
  <2>1. event \in Events
    BY DEF Events
  <2> HIDE DEF event
  <2>2. Append(feed[r], event) \in Seq(Events) /\ Len(Append(feed[r], event)) = Len(feed[r]) + 1
    BY <2>1, AgentTyped
  <2>3. Len(feed[r]) \in Nat /\ MaxFeed \in Nat
    BY AgentTyped, AgentBounds
  <2>4. feed' = [feed EXCEPT ![r] = Append(feed[r], event)]
    BY <1>2 DEF event
  <2> QED
    BY <1>2, <2>2, <2>3, <2>4, AgentTyped DEF Feeds
<1> QED
  BY <1>1, <1>2 DEF Tell

\* A stream that is closed, or that has handed on its first event, leaves a feed.
LEMMA FeedStep ==
  ASSUME AgentTypeOK, NEW r \in Runs,
         \/ feed' = [feed EXCEPT ![r] = <<>>]
         \/ feed[r] # <<>> /\ feed' = [feed EXCEPT ![r] = Tail(feed[r])]
  PROVE  feed' \in Feeds /\ \A q \in Runs : Len(feed'[q]) <= MaxFeed
<1>1. <<>> \in Seq(Events) /\ Len(<<>>) = 0 /\ MaxFeed \in Nat
  BY AgentBounds
<1>2. feed[r] # <<>> => Tail(feed[r]) \in Seq(Events) /\ Len(Tail(feed[r])) <= Len(feed[r])
  BY AgentTyped
<1>3. Len(feed[r]) \in Nat /\ (feed[r] # <<>> => Len(Tail(feed[r])) \in Nat)
  BY <1>2, AgentTyped
<1>4. CASE feed' = [feed EXCEPT ![r] = <<>>]
  BY <1>1, <1>4, AgentTyped DEF Feeds
<1>5. CASE feed[r] # <<>> /\ feed' = [feed EXCEPT ![r] = Tail(feed[r])]
  <2> DEFINE rest == Tail(feed[r])
  <2>1. rest \in Seq(Events) /\ Len(rest) <= MaxFeed /\ feed' = [feed EXCEPT ![r] = rest]
    BY <1>1, <1>2, <1>3, <1>5, AgentTyped
  <2> HIDE DEF rest
  <2> QED
    BY <2>1, AgentTyped DEF Feeds
<1> QED
  BY <1>4, <1>5

LEMMA HeadType ==
  ASSUME AgentTypeOK, NEW r \in Runs, feed[r] # <<>>
  PROVE  Head(feed[r]) \in Events /\ Head(feed[r]).turn \in Turns
<1>1. Head(feed[r]) \in Events
  BY AgentTyped
<1> QED
  BY <1>1 DEF Events

\* The record of a run is given a status and an active turn.
RecordMoves(r) == registry' \in [Runs -> Records] /\ \A q \in Runs : q # r => registry'[q] = registry[q]

LEMMA RecordStep ==
  ASSUME AgentTypeOK, NEW r \in Runs, NEW status \in RegistryStatuses, NEW t \in Turns \cup {NoTurn},
         registry' = [registry EXCEPT ![r].status = status, ![r].turn = t]
  PROVE  RecordMoves(r) /\ registry'[r].status = status /\ registry'[r].turn = t
<1> DEFINE row == [registry[r] EXCEPT !.status = status, !.turn = t]
<1>1. row \in Records /\ row.status = status /\ row.turn = t
  BY AgentTyped DEF Records
<1>2. registry' = [registry EXCEPT ![r] = row]
  BY AgentTyped
<1> HIDE DEF row
<1> QED
  BY <1>1, <1>2, AgentTyped DEF RecordMoves

LEMMA PendingStep ==
  ASSUME AgentTypeOK, NEW r \in Runs, NEW pending \in SUBSET Turns,
         registry' = [registry EXCEPT ![r].pending = pending]
  PROVE  /\ RecordMoves(r)
         /\ registry'[r].status = registry[r].status /\ registry'[r].turn = registry[r].turn
<1> DEFINE row == [registry[r] EXCEPT !.pending = pending]
<1>1. row \in Records /\ row.status = registry[r].status /\ row.turn = registry[r].turn
  BY AgentTyped DEF Records
<1>2. registry' = [registry EXCEPT ![r] = row]
  BY AgentTyped
<1> HIDE DEF row
<1> QED
  BY <1>1, <1>2, AgentTyped DEF RecordMoves

\* What is noted of an accepted event ends the turn of the record at most.
LEMMA NotedStep ==
  ASSUME AgentTypeOK, NEW r \in Runs, NEW e \in Events, Accepted(r, e), registry' = Noted(r, e)
  PROVE  RecordMoves(r) /\ registry'[r].turn \in {NoTurn, registry[r].turn}
<1>1. e.turn \in Turns /\ {"completed", "idle"} \subseteq RegistryStatuses
  BY DEF Events, RegistryStatuses
<1>2. CASE e.kind = "approval"
  <2>1. registry[r].pending \cup {e.turn} \in SUBSET Turns
    BY <1>1, AgentTyped
  <2>2. registry' = [registry EXCEPT ![r].pending = registry[r].pending \cup {e.turn}]
    BY <1>2 DEF Noted
  <2> QED
    BY <2>1, <2>2, PendingStep
<1>3. CASE e.kind = "completed"
  <2>1. registry' = [registry EXCEPT ![r].status = "completed", ![r].turn = NoTurn]
    BY <1>3 DEF Noted
  <2> QED
    BY <1>1, <2>1, RecordStep
<1>4. CASE e.kind \in {"failed", "interrupted"}
  <2>1. registry' = [registry EXCEPT ![r].status = "idle", ![r].turn = NoTurn]
    BY <1>4 DEF Noted
  <2> QED
    BY <1>1, <2>1, RecordStep
<1> QED
  BY <1>2, <1>3, <1>4 DEF Accepted

\* The caller's row after a step of its call.
CallMoves(c) == calls' \in [Callers -> CallRows] /\ \A d \in Callers : d # c => calls'[d] = calls[d]

LEMMA OverType == Over \in CallRows /\ Over.at = "over" /\ Over.turn = NoTurn /\ Over.op = "none"
  BY DEF Over, Idle, CallRows, NoTurn

LEMMA FinishStep ==
  ASSUME AgentTypeOK, NEW c \in Callers, Finish(c)
  PROVE  CallMoves(c) /\ calls'[c] = Over
  BY OverType, AgentTyped DEF Finish, CallMoves

LEMMA GoStep ==
  ASSUME AgentTypeOK, NEW c \in Callers, NEW step \in {"interrupted", "answered", "cancelled"}, Go(c, step)
  PROVE  /\ CallMoves(c) /\ calls'[c].at = step
         /\ calls'[c].op = calls[c].op /\ calls'[c].run = calls[c].run /\ calls'[c].turn = calls[c].turn
  BY AgentTyped DEF Go, CallMoves, CallRows

LEMMA TurnStep ==
  ASSUME AgentTypeOK, NEW r \in Runs, NEW t \in Turns, NEW state \in TurnStates,
         turns' = [turns EXCEPT ![r][t] = state]
  PROVE  /\ turns' \in [Runs -> [Turns -> TurnStates]] /\ turns'[r][t] = state
         /\ \A q \in Runs, u \in Turns : q # r \/ u # t => turns'[q][u] = turns[q][u]
  BY AgentTyped

\* What a step has to show that starts no turn and makes no call.
LEMMA TurnsKept ==
  ASSUME AgentTypeOK, TurnsOK, calls' = calls,
         \A r \in Runs : Unstarted(r)' => Unstarted(r) /\ registry'[r] = registry[r],
         \A r \in Runs : registry'[r].turn \in {NoTurn, registry[r].turn},
         \A r \in Runs, t \in Turns :
           \/ turns'[r][t] = turns[r][t]
           \/ turns[r][t] = "live" /\ turns'[r][t] = "ended"
  PROVE  TurnsOK'
<1>1. ASSUME NEW r \in Runs
      PROVE  /\ Unstarted(r)' => registry'[r].status = "absent" /\ \A t \in Turns : turns'[r][t] = "none"
             /\ registry'[r].turn # NoTurn => turns'[r][registry'[r].turn] # "none"
  <2>1. Unstarted(r)' => registry'[r].status = "absent" /\ \A t \in Turns : turns'[r][t] = "none"
    BY DEF TurnsOK
  <2>2. ASSUME registry'[r].turn # NoTurn PROVE turns'[r][registry'[r].turn] # "none"
    <3>1. PICK t \in Turns : registry'[r].turn = t /\ registry[r].turn = t
      BY <2>2, AgentTyped
    <3>2. turns[r][t] # "none"
      BY <2>2, <3>1 DEF TurnsOK
    <3>3. turns'[r][t] # "none"
      BY <3>2
    <3> QED
      BY <3>1, <3>3
  <2> QED
    BY <2>1, <2>2
<1>2. ASSUME NEW c \in Callers
      PROVE  /\ Calling(c)' => calls'[c].run \in Runs /\ ~Unstarted(calls[c].run)'
             /\ calls'[c].turn # NoTurn => Calling(c)' /\ turns'[calls'[c].run][calls'[c].turn] # "none"
  <2>1. Calling(c)' <=> Calling(c)
    BY DEF Calling
  <2>2. Calling(c) => calls[c].run \in Runs /\ ~Unstarted(calls[c].run)'
    BY DEF TurnsOK
  <2>3. calls[c].turn # NoTurn =>
          calls[c].run \in Runs /\ calls[c].turn \in Turns /\ turns[calls[c].run][calls[c].turn] # "none"
    BY AgentTyped DEF TurnsOK
  <2>5. calls[c].turn # NoTurn => Calling(c)
    BY DEF TurnsOK
  <2> QED
    BY <2>1, <2>2, <2>3, <2>5
<1> QED
  BY <1>1, <1>2 DEF TurnsOK

AgentOK == AgentTypeOK /\ TurnsOK

LEMMA TurnAsksOK ==
  ASSUME AgentOK, UNCHANGED execution, NEW r \in Runs, NEW t \in Turns, TurnAsks(r, t)
  PROVE  AgentOK'
<1>1. feed' \in Feeds /\ \A q \in Runs : Len(feed'[q]) <= MaxFeed
  BY TellStep DEF TurnAsks, EventKinds, AgentOK
<1>2. AgentTypeOK'
  BY <1>1 DEF TurnAsks, AgentOK, AgentTypeOK, Feeds, Events
<1>3. TurnsOK'
  BY TurnsKept DEF TurnAsks, AgentOK, Unstarted
<1> QED
  BY <1>2, <1>3 DEF AgentOK

LEMMA TurnEndsOK ==
  ASSUME AgentOK, UNCHANGED execution, NEW r \in Runs, NEW t \in Turns,
         NEW outcome \in {"completed", "failed"}, TurnEnds(r, t, outcome)
  PROVE  AgentOK'
<1>1. feed' \in Feeds /\ \A q \in Runs : Len(feed'[q]) <= MaxFeed
  BY TellStep DEF TurnEnds, EventKinds, AgentOK
<1>2. "ended" \in TurnStates
  BY DEF TurnStates
<1>3. AgentTypeOK'
  BY <1>1, <1>2, TurnStep DEF TurnEnds, AgentOK, AgentTypeOK, Feeds, Events
<1>4. TurnsOK'
  BY <1>2, TurnStep, TurnsKept DEF TurnEnds, AgentOK, Unstarted
<1> QED
  BY <1>3, <1>4 DEF AgentOK

\* The agent of an execution that moves on is started, or fails to start.
ExecutionMoves(r, at) ==
  /\ execution' \in [Runs -> [at : ExecutionSteps, copy : RunStates \cup {Absent}]]
  /\ execution'[r].at = at /\ \A q \in Runs : q # r => execution'[q] = execution[q]

LEMMA StartAgentOK ==
  ASSUME AgentOK, NEW r \in Runs, execution[r].at = "start",
         \/ StartAgent(r) /\ ExecutionMoves(r, "open")
         \/ StartAgentFails(r) /\ ExecutionMoves(r, "catch")
  PROVE  AgentOK'
<1>1. Unstarted(r) /\ ~Unstarted(r)' /\ \A q \in Runs : q # r => (Unstarted(q)' <=> Unstarted(q))
  BY DEF ExecutionMoves, Unstarted
<1>2. 1 \in Turns /\ "live" \in TurnStates /\ 1 # NoTurn
  BY TurnBounds DEF TurnStates
<1>3. /\ turns' \in [Runs -> [Turns -> TurnStates]]
      /\ \A q \in Runs, u \in Turns : q # r => turns'[q][u] = turns[q][u]
  BY <1>2, TurnStep, AgentTyped DEF AgentOK, StartAgent, StartAgentFails
<1>4. RecordMoves(r) /\ (registry'[r].turn # NoTurn => turns'[r][registry'[r].turn] # "none")
  <2>1. CASE StartAgent(r)
    <3> DEFINE row == [status |-> "running", turn |-> 1, pending |-> {}]
    <3>1. row \in Records /\ row.turn = 1
      BY <1>2 DEF Records, RegistryStatuses
    <3>2. registry' = [registry EXCEPT ![r] = row]
      BY <2>1 DEF StartAgent
    <3> HIDE DEF row
    <3>3. RecordMoves(r) /\ registry'[r].turn = 1
      BY <3>1, <3>2, AgentTyped DEF AgentOK, RecordMoves
    <3>4. turns'[r][1] = "live"
      BY <1>2, <2>1, TurnStep DEF StartAgent, AgentOK
    <3> QED
      BY <3>3, <3>4
  <2>2. CASE StartAgentFails(r)
    <3>1. registry' = registry
      BY <2>2 DEF StartAgentFails
    <3>2. ASSUME registry[r].turn # NoTurn PROVE FALSE
      BY <1>1, <3>2, AgentTyped DEF AgentOK, TurnsOK
    <3> QED
      BY <3>1, <3>2, AgentTyped DEF AgentOK, RecordMoves
  <2> QED
    BY <2>1, <2>2
<1>5. UNCHANGED <<feed, asked, stream, calls, contested>>
  BY DEF StartAgent, StartAgentFails
<1>6. AgentTypeOK'
  BY <1>3, <1>4, <1>5 DEF AgentOK, AgentTypeOK, RecordMoves
<1>7. TurnsOK'
  <2>1. ASSUME NEW q \in Runs
        PROVE  /\ Unstarted(q)' => registry'[q].status = "absent" /\ \A t \in Turns : turns'[q][t] = "none"
               /\ registry'[q].turn # NoTurn => turns'[q][registry'[q].turn] # "none"
    BY <1>1, <1>3, <1>4, AgentTyped DEF AgentOK, TurnsOK, RecordMoves
  <2>2. ASSUME NEW c \in Callers
        PROVE  /\ Calling(c) => calls[c].run \in Runs /\ calls[c].run # r /\ ~Unstarted(calls[c].run)'
               /\ calls[c].turn # NoTurn => turns'[calls[c].run][calls[c].turn] = turns[calls[c].run][calls[c].turn]
    <3>1. CASE Calling(c)
      <4>1. PICK q \in Runs : q = calls[c].run
        BY <3>1 DEF AgentOK, TurnsOK
      <4>2. ~Unstarted(q) /\ q # r
        BY <1>1, <3>1, <4>1 DEF AgentOK, TurnsOK
      <4>3. ~Unstarted(q)' /\ calls[c].turn \in Turns \cup {NoTurn}
        BY <1>1, <4>2, AgentTyped DEF AgentOK
      <4> QED
        BY <1>3, <1>5, <4>1, <4>2, <4>3
    <3>2. CASE ~Calling(c)
      BY <3>2 DEF AgentOK, TurnsOK
    <3> QED
      BY <3>1, <3>2
  <2> QED
    BY <1>5, <2>1, <2>2 DEF AgentOK, TurnsOK, Calling
<1> QED
  BY <1>6, <1>7 DEF AgentOK

\* The stream of an execution is opened, read and closed.
LEMMA StreamOK ==
  ASSUME AgentOK, NEW r \in Runs, execution[r].at \in {"open", "read"},
         \/ UNCHANGED execution
         \/ \E at \in {"read", "catch", "validate"} : ExecutionMoves(r, at),
         OpenStream(r) \/ ReadEvent(r) \/ StreamRefuses(r) \/ StreamLost(r) \/ StreamEnds(r)
  PROVE  AgentOK'
<1>1. ~Unstarted(r) /\ ~Unstarted(r)' /\ \A q \in Runs : q # r => (Unstarted(q)' <=> Unstarted(q))
  BY DEF ExecutionMoves, Unstarted
<1>2. UNCHANGED <<turns, asked, calls, contested>>
  BY DEF OpenStream, ReadEvent, StreamRefuses, StreamLost, StreamEnds
<1>3. stream' \in [Runs -> [state : {"new", "open", "closed"}, turn : Turns \cup {NoTurn}]]
  <2> DEFINE Streams == [state : {"new", "open", "closed"}, turn : Turns \cup {NoTurn}]
             opened == [state |-> "open", turn |-> registry[r].turn]
             closed == [state |-> "closed", turn |-> NoTurn]
  <2>1. opened \in Streams /\ closed \in Streams /\ stream \in [Runs -> Streams]
    BY AgentTyped DEF AgentOK, AgentTypeOK
  <2>2. stream' \in {stream, [stream EXCEPT ![r] = opened], [stream EXCEPT ![r] = closed]}
    BY DEF OpenStream, ReadEvent, StreamRefuses, StreamLost, StreamEnds, CloseStream
  <2> HIDE DEF Streams, opened, closed
  <2>3. stream' \in [Runs -> Streams]
    BY <2>1, <2>2
  <2> QED
    BY <2>3 DEF Streams
<1>4. feed' \in Feeds /\ \A q \in Runs : Len(feed'[q]) <= MaxFeed
  <2>1. CASE OpenStream(r)
    BY <2>1, AgentTyped DEF OpenStream, AgentOK
  <2> QED
    BY <2>1, FeedStep DEF ReadEvent, StreamRefuses, StreamLost, StreamEnds, CloseStream, AgentOK
<1>5. RecordMoves(r) /\ registry'[r].turn \in {NoTurn, registry[r].turn}
  <2>1. CASE registry' = registry
    BY <2>1, AgentTyped DEF AgentOK, RecordMoves
  <2>2. CASE feed[r] # <<>> /\ Accepted(r, Head(feed[r])) /\ registry' = Noted(r, Head(feed[r]))
    BY <2>2, HeadType, NotedStep DEF AgentOK
  <2> QED
    BY <2>1, <2>2 DEF OpenStream, ReadEvent, StreamRefuses, StreamLost, StreamEnds
<1>6. AgentTypeOK'
  BY <1>2, <1>3, <1>4, <1>5 DEF AgentOK, AgentTypeOK, RecordMoves, Feeds, Events
<1>7. TurnsOK'
  BY <1>1, <1>2, <1>5, TurnsKept DEF AgentOK, RecordMoves
<1> QED
  BY <1>6, <1>7 DEF AgentOK

----------------------------------------------------------------------------
(* The calls of operators. *)

\* What a step of one call has to show.
LEMMA CallKept ==
  ASSUME AgentTypeOK, TurnsOK, UNCHANGED execution, NEW c \in Callers, CallMoves(c),
         \A r \in Runs, t \in Turns : turns[r][t] # "none" => turns'[r][t] # "none",
         \A r \in Runs : Unstarted(r) => registry'[r] = registry[r] /\ \A t \in Turns : turns'[r][t] = turns[r][t],
         \A r \in Runs : registry'[r].turn # NoTurn => turns'[r][registry'[r].turn] # "none",
         Calling(c)' => calls'[c].run \in Runs /\ \A r \in Runs : r = calls'[c].run => ~Unstarted(r),
         calls'[c].turn # NoTurn => Calling(c)' /\ turns'[calls'[c].run][calls'[c].turn] # "none"
  PROVE  TurnsOK'
<1>1. \A r \in Runs : Unstarted(r)' <=> Unstarted(r)
  BY DEF Unstarted
<1>2. ASSUME NEW r \in Runs
      PROVE  /\ Unstarted(r)' => registry'[r].status = "absent" /\ \A t \in Turns : turns'[r][t] = "none"
             /\ registry'[r].turn # NoTurn => turns'[r][registry'[r].turn] # "none"
  BY <1>1 DEF TurnsOK
<1>3. ASSUME NEW d \in Callers
      PROVE  /\ Calling(d)' => calls'[d].run \in Runs /\ ~Unstarted(calls[d].run)'
             /\ calls'[d].turn # NoTurn => Calling(d)' /\ turns'[calls'[d].run][calls'[d].turn] # "none"
  <2>1. CASE d = c
    <3>1. Calling(c)' => ~Unstarted(calls[c].run)'
      BY <1>1
    <3> QED
      BY <2>1, <3>1
  <2>2. CASE d # c
    <3>1. calls'[d] = calls[d] /\ (Calling(d)' <=> Calling(d))
      BY <2>2 DEF CallMoves, Calling
    <3>2. CASE Calling(d)
      <4>1. PICK q \in Runs : q = calls[d].run
        BY <3>2 DEF TurnsOK
      <4>2. ~Unstarted(q)'
        BY <1>1, <3>2, <4>1 DEF TurnsOK
      <4>3. ~Unstarted(calls[d].run)'
        BY <3>1, <4>1, <4>2
      <4>4. calls[d].turn \in Turns \cup {NoTurn}
        BY AgentTyped
      <4>5. calls[d].turn # NoTurn => turns'[q][calls[d].turn] # "none"
        BY <4>1, <4>4 DEF TurnsOK
      <4> QED
        BY <3>1, <3>2, <4>1, <4>3, <4>5
    <3>3. CASE ~Calling(d)
      BY <3>1, <3>3 DEF TurnsOK, Calling
    <3> QED
      BY <3>2, <3>3
  <2> QED
    BY <2>1, <2>2
<1> QED
  BY <1>2, <1>3 DEF TurnsOK

\* A call that is over names no turn.
LEMMA CallOver ==
  ASSUME AgentOK, UNCHANGED <<execution, turns>>, NEW c \in Callers, Finish(c),
         \A r \in Runs : Unstarted(r) => registry'[r] = registry[r],
         \A r \in Runs : registry'[r].turn # NoTurn => turns'[r][registry'[r].turn] # "none"
  PROVE  TurnsOK'
<1>1. CallMoves(c) /\ ~Calling(c)' /\ calls'[c].turn = NoTurn
  BY FinishStep, OverType DEF AgentOK, Calling
<1> QED
  BY <1>1, CallKept DEF AgentOK

LEMMA BeginOK ==
  ASSUME AgentOK, UNCHANGED execution, NEW c \in Callers, NEW op \in Operations, NEW r \in Operated, Begin(c, op, r)
  PROVE  AgentOK'
<1>1. r \in Runs /\ registry[r].turn \in Turns \cup {NoTurn}
  BY NamesAssumption, AgentTyped DEF AgentOK
<1>2. /\ CallMoves(c) /\ calls'[c].at = "begun" /\ calls'[c].run = r /\ calls'[c].turn = registry[r].turn
  <2> DEFINE row == [at |-> "begun", op |-> op, run |-> r, turn |-> registry[r].turn]
  <2>1. row \in CallRows /\ row.at = "begun" /\ row.run = r /\ row.turn = registry[r].turn
    BY <1>1 DEF CallRows
  <2>2. calls' = [calls EXCEPT ![c] = row]
    BY DEF Begin
  <2> HIDE DEF row
  <2> QED
    BY <2>1, <2>2, AgentTyped DEF AgentOK, CallMoves
<1>3. UNCHANGED <<turns, feed, asked, registry, stream>> /\ Calling(c)' /\ contested' \subseteq Runs
  BY <1>1, <1>2 DEF Begin, Calling, AgentOK, AgentTypeOK
<1>4. ~Unstarted(r)
  BY <1>1 DEF Begin, Controllable, AgentOK, TurnsOK
<1>5. AgentTypeOK'
  BY <1>2, <1>3 DEF AgentOK, AgentTypeOK, CallMoves, CallRows
<1>6. registry[r].turn # NoTurn => turns[r][registry[r].turn] # "none"
  BY <1>1 DEF AgentOK, TurnsOK
<1>7. TurnsOK'
  <2>1. \A q \in Runs : registry[q].turn # NoTurn => turns[q][registry[q].turn] # "none"
    BY DEF AgentOK, TurnsOK
  <2> QED
    BY <1>1, <1>2, <1>3, <1>4, <1>6, <2>1, CallKept DEF AgentOK
<1> QED
  BY <1>5, <1>7 DEF AgentOK

\* The run of a call that is at work.
LEMMA RunOfCall ==
  ASSUME AgentOK, NEW c \in Callers, Calling(c)
  PROVE  /\ calls[c].run \in Runs /\ calls[c].turn \in Turns \cup {NoTurn}
         /\ \A r \in Runs : r = calls[c].run => ~Unstarted(r)
         /\ calls[c].turn # NoTurn => turns[calls[c].run][calls[c].turn] # "none"
         /\ \A r \in Runs : registry[r].turn # NoTurn => turns[r][registry[r].turn] # "none"
  BY AgentTyped DEF AgentOK, TurnsOK

LEMMA CallFailsOK ==
  ASSUME AgentOK, UNCHANGED execution, NEW c \in Callers, CallFails(c)
  PROVE  AgentOK'
<1>1. Calling(c) /\ UNCHANGED <<feed, asked, registry, stream>> /\ Finish(c)
  BY DEF CallFails, UnderWay, Calling
<1>2. PICK r \in Runs : r = calls[c].run
  BY <1>1, RunOfCall
<1>3. contested' \subseteq Runs
  BY <1>2 DEF CallFails, AgentOK, AgentTypeOK
<1>4. /\ turns' \in [Runs -> [Turns -> TurnStates]]
      /\ \A q \in Runs, u \in Turns : turns[q][u] # "none" => turns'[q][u] = turns[q][u]
      /\ \A q \in Runs, u \in Turns : q # r => turns'[q][u] = turns[q][u]
  <2>1. CASE UNCHANGED turns
    BY <2>1, AgentTyped DEF AgentOK
  <2>2. ASSUME NEW t \in Turns, NextTurn(r, t), turns' = [turns EXCEPT ![r][t] = "live"]
        PROVE  /\ turns' \in [Runs -> [Turns -> TurnStates]]
               /\ \A q \in Runs, u \in Turns : turns[q][u] # "none" => turns'[q][u] = turns[q][u]
               /\ \A q \in Runs, u \in Turns : q # r => turns'[q][u] = turns[q][u]
    <3>1. "live" \in TurnStates /\ turns[r][t] = "none"
      BY <2>2 DEF TurnStates, NextTurn, FreeTurns
    <3>2. /\ turns' \in [Runs -> [Turns -> TurnStates]] /\ turns'[r][t] = "live"
          /\ \A q \in Runs, u \in Turns : q # r \/ u # t => turns'[q][u] = turns[q][u]
      BY <2>2, <3>1, TurnStep DEF AgentOK
    <3> QED
      BY <3>1, <3>2
  <2> QED
    BY <1>2, <2>1, <2>2 DEF CallFails
<1>5. CallMoves(c) /\ ~Calling(c)' /\ calls'[c].turn = NoTurn
  BY <1>1, FinishStep, OverType DEF AgentOK, Calling
<1>6. AgentTypeOK'
  BY <1>1, <1>3, <1>4, <1>5 DEF AgentOK, AgentTypeOK, CallMoves, CallRows
<1>7. TurnsOK'
  <2>1. \A q \in Runs : registry'[q].turn # NoTurn => turns'[q][registry'[q].turn] # "none"
    BY <1>1, <1>4, RunOfCall, AgentTyped DEF AgentOK
  <2>2. ~Unstarted(r)
    BY <1>1, <1>2, RunOfCall
  <2> QED
    BY <1>1, <1>4, <1>5, <2>1, <2>2, CallKept DEF AgentOK
<1> QED
  BY <1>6, <1>7 DEF AgentOK

LEMMA StartTurnOK ==
  ASSUME AgentOK, UNCHANGED execution, NEW c \in Callers, StartTurn(c)
  PROVE  AgentOK'
<1>1. Calling(c) /\ calls[c].op = "instruct"
  BY DEF StartTurn, At, Calling
<1>2. PICK r \in Runs : r = calls[c].run
  BY <1>1, RunOfCall
<1>3. PICK t \in Turns :
        /\ NextTurn(r, t)
        /\ calls' = [calls EXCEPT ![c].at = "started", ![c].turn = t]
        /\ turns' = [turns EXCEPT ![r][t] = "live"]
  BY <1>2 DEF StartTurn
<1>4. /\ CallMoves(c) /\ calls'[c].at = "started" /\ calls'[c].run = r /\ calls'[c].turn = t
      /\ calls'[c].op = "instruct"
  <2> DEFINE row == [calls[c] EXCEPT !.at = "started", !.turn = t]
  <2>1. row \in CallRows /\ row.at = "started" /\ row.run = r /\ row.turn = t /\ row.op = "instruct"
    BY <1>1, <1>2, AgentTyped DEF CallRows, AgentOK
  <2>2. calls' = [calls EXCEPT ![c] = row]
    BY <1>3, AgentTyped DEF AgentOK
  <2> HIDE DEF row
  <2> QED
    BY <2>1, <2>2, AgentTyped DEF AgentOK, CallMoves
<1>5. /\ turns' \in [Runs -> [Turns -> TurnStates]] /\ turns'[r][t] = "live" /\ turns[r][t] = "none"
      /\ \A q \in Runs, u \in Turns : q # r \/ u # t => turns'[q][u] = turns[q][u]
  BY <1>3, TurnStep DEF AgentOK, TurnStates, NextTurn, FreeTurns
<1>6. UNCHANGED <<feed, asked, registry, stream, contested>>
  BY DEF StartTurn
<1>7. AgentTypeOK'
  BY <1>4, <1>5, <1>6 DEF AgentOK, AgentTypeOK, CallMoves, CallRows
<1>8. TurnsOK'
  <2>1. ASSUME NEW q \in Runs, registry[q].turn # NoTurn PROVE turns'[q][registry[q].turn] # "none"
    BY <1>1, <1>5, <2>1, RunOfCall, AgentTyped DEF AgentOK
  <2>2. ~Unstarted(r) /\ Calling(c)'
    BY <1>1, <1>2, <1>4, RunOfCall DEF Calling
  <2> QED
    BY <1>4, <1>5, <1>6, <2>1, <2>2, CallKept DEF AgentOK
<1> QED
  BY <1>7, <1>8 DEF AgentOK

LEMMA SetActiveTurnOK ==
  ASSUME AgentOK, UNCHANGED execution, NEW c \in Callers, SetActiveTurn(c)
  PROVE  AgentOK'
<1>1. Calling(c) /\ UNCHANGED <<turns, feed, asked, stream, contested>> /\ Finish(c)
  BY DEF SetActiveTurn, At, Calling
<1>2. PICK r \in Runs : r = calls[c].run
  BY <1>1, RunOfCall
<1>3. RecordMoves(r) /\ registry'[r].turn = calls[c].turn
  <2>1. PICK t \in Turns \cup {NoTurn} : t = calls[c].turn
    BY <1>1, RunOfCall
  <2>2. registry' = [registry EXCEPT ![r].status = "running", ![r].turn = t]
    BY <1>2, <2>1 DEF SetActiveTurn
  <2> QED
    BY <2>1, <2>2, RecordStep DEF RegistryStatuses, AgentOK
<1>4. ~Unstarted(r)
  BY <1>1, <1>2, RunOfCall
<1>5. AgentTypeOK'
  BY <1>1, <1>3, FinishStep DEF AgentOK, AgentTypeOK, CallMoves, CallRows, RecordMoves
<1>6. \A q \in Runs : registry'[q].turn # NoTurn => turns'[q][registry'[q].turn] # "none"
  BY <1>1, <1>2, <1>3, RunOfCall DEF RecordMoves
<1> QED
  BY <1>1, <1>3, <1>4, <1>5, <1>6, CallOver DEF AgentOK, RecordMoves

LEMMA RemoveApprovalOK ==
  ASSUME AgentOK, UNCHANGED execution, NEW c \in Callers, RemoveApproval(c)
  PROVE  AgentOK'
<1>1. Calling(c) /\ UNCHANGED <<turns, feed, asked, stream, contested>> /\ Finish(c)
  BY DEF RemoveApproval, At, Calling
<1>2. PICK r \in Runs : r = calls[c].run
  BY <1>1, RunOfCall
<1>3. RecordMoves(r) /\ registry'[r].turn = registry[r].turn
  <2>1. registry[r].pending \ {calls[c].turn} \in SUBSET Turns
    BY AgentTyped DEF AgentOK
  <2>2. registry' = [registry EXCEPT ![r].pending = registry[r].pending \ {calls[c].turn}]
    BY <1>2 DEF RemoveApproval
  <2> QED
    BY <2>1, <2>2, PendingStep DEF AgentOK
<1>4. ~Unstarted(r)
  BY <1>1, <1>2, RunOfCall
<1>5. AgentTypeOK'
  BY <1>1, <1>3, FinishStep DEF AgentOK, AgentTypeOK, CallMoves, CallRows, RecordMoves
<1>6. \A q \in Runs : registry'[q].turn # NoTurn => turns'[q][registry'[q].turn] # "none"
  BY <1>1, <1>3, RunOfCall DEF RecordMoves
<1> QED
  BY <1>1, <1>3, <1>4, <1>5, <1>6, CallOver DEF AgentOK, RecordMoves

LEMMA RespondOK ==
  ASSUME AgentOK, UNCHANGED execution, NEW c \in Callers, Respond(c)
  PROVE  AgentOK'
<1>1. Calling(c) /\ calls[c].op = "answer" /\ UNCHANGED <<turns, feed, registry, stream, contested>> /\ Go(c, "answered")
  BY DEF Respond, At, Calling
<1>2. PICK r \in Runs, t \in Turns : asked' = [asked EXCEPT ![r][t] = "answered"]
  BY <1>1, RunOfCall DEF Respond
<1>3. /\ CallMoves(c) /\ calls'[c].at = "answered" /\ calls'[c].op = "answer"
      /\ calls'[c].run = calls[c].run /\ calls'[c].turn = calls[c].turn
  BY <1>1, GoStep DEF AgentOK
<1>4. asked' \in [Runs -> [Turns -> {"no", "waiting", "answered"}]]
  BY <1>2 DEF AgentOK, AgentTypeOK
<1>5. AgentTypeOK'
  BY <1>1, <1>3, <1>4 DEF AgentOK, AgentTypeOK, CallMoves, CallRows
<1>6. TurnsOK'
  BY <1>1, <1>3, RunOfCall, CallKept DEF AgentOK, Calling
<1> QED
  BY <1>5, <1>6 DEF AgentOK

LEMMA InterruptOK ==
  ASSUME AgentOK, UNCHANGED execution, NEW c \in Callers, Interrupt(c)
  PROVE  AgentOK'
<1>1. Calling(c) /\ UNCHANGED <<asked, registry, stream, contested>> /\ Go(c, "interrupted")
  BY DEF Interrupt, At, Calling
<1>2. PICK r \in Runs : r = calls[c].run
  BY <1>1, RunOfCall
<1>3. PICK t \in Turns \cup {NoTurn} : t = calls[c].turn
  BY <1>1, RunOfCall
<1>4. /\ CallMoves(c) /\ calls'[c].at = "interrupted" /\ calls'[c].run = r /\ calls'[c].turn = t
  BY <1>1, <1>2, <1>3, GoStep DEF AgentOK
<1>5. /\ turns' \in [Runs -> [Turns -> TurnStates]]
      /\ \A q \in Runs, u \in Turns :
           turns'[q][u] = turns[q][u] \/ (turns[q][u] = "live" /\ turns'[q][u] = "ended")
      /\ t # NoTurn => turns'[r][t] # "live"
      /\ feed' \in Feeds /\ \A q \in Runs : Len(feed'[q]) <= MaxFeed
  <2>1. CASE t # NoTurn /\ turns[r][t] = "live"
    <3>1. turns' = [turns EXCEPT ![r][t] = "ended"] /\ Tell(r, "interrupted", t)
      BY <1>2, <1>3, <2>1 DEF Interrupt, Interrupts
    <3>2. t \in Turns /\ "ended" \in TurnStates /\ "interrupted" \in EventKinds
      BY <2>1 DEF TurnStates, EventKinds
    <3>3. feed' \in Feeds /\ \A q \in Runs : Len(feed'[q]) <= MaxFeed
      BY <3>1, <3>2, TellStep DEF AgentOK
    <3>4. /\ turns' \in [Runs -> [Turns -> TurnStates]] /\ turns'[r][t] = "ended"
          /\ \A q \in Runs, u \in Turns : q # r \/ u # t => turns'[q][u] = turns[q][u]
      BY <3>1, <3>2, TurnStep DEF AgentOK
    <3> QED
      BY <2>1, <3>3, <3>4
  <2>2. CASE ~(t # NoTurn /\ turns[r][t] = "live")
    <3>1. UNCHANGED <<turns, feed>>
      BY <1>2, <1>3, <2>2 DEF Interrupt, Interrupts
    <3> QED
      BY <2>2, <3>1, AgentTyped DEF AgentOK
  <2> QED
    BY <2>1, <2>2
<1>6. AgentTypeOK'
  BY <1>1, <1>4, <1>5 DEF AgentOK, AgentTypeOK, CallMoves, CallRows, Feeds, Events
<1>7. TurnsOK'
  <2>1. ASSUME NEW q \in Runs, registry[q].turn # NoTurn PROVE turns'[q][registry[q].turn] # "none"
    BY <1>1, <1>5, <2>1, RunOfCall, AgentTyped DEF AgentOK
  <2>2. ASSUME t # NoTurn PROVE turns'[r][t] # "none"
    BY <1>1, <1>2, <1>3, <1>5, <2>2, RunOfCall
  <2>3. ASSUME NEW q \in Runs, Unstarted(q), NEW u \in Turns PROVE turns'[q][u] = turns[q][u]
    BY <1>5, <2>3 DEF AgentOK, TurnsOK
  <2>4. ~Unstarted(r) /\ Calling(c)'
    BY <1>1, <1>2, <1>4, RunOfCall DEF Calling
  <2> QED
    BY <1>1, <1>4, <1>5, <2>1, <2>2, <2>3, <2>4, CallKept DEF AgentOK
<1> QED
  BY <1>6, <1>7 DEF AgentOK

LEMMA MarkCancelledOK ==
  ASSUME AgentOK, UNCHANGED execution, NEW c \in Callers, MarkCancelled(c)
  PROVE  AgentOK'
<1>1. /\ Calling(c) /\ UNCHANGED <<turns, feed, asked, stream, contested>> /\ Go(c, "cancelled")
      /\ calls[c].op = "cancel" /\ calls[c].at = "interrupted"
  BY DEF MarkCancelled, At, Calling
<1>2. PICK r \in Runs : r = calls[c].run
  BY <1>1, RunOfCall
<1>3. RecordMoves(r) /\ registry'[r].turn = NoTurn
  BY <1>2, RecordStep DEF MarkCancelled, RegistryStatuses, AgentOK
<1>4. /\ CallMoves(c) /\ calls'[c].at = "cancelled" /\ calls'[c].run = r /\ calls'[c].turn = calls[c].turn
  BY <1>1, <1>2, GoStep DEF AgentOK
<1>5. ~Unstarted(r) /\ Calling(c)'
  BY <1>1, <1>2, <1>4, RunOfCall DEF Calling
<1>6. AgentTypeOK'
  BY <1>1, <1>3, <1>4 DEF AgentOK, AgentTypeOK, CallMoves, CallRows, RecordMoves
<1>7. \A q \in Runs : registry'[q].turn # NoTurn => turns'[q][registry'[q].turn] # "none"
  BY <1>1, <1>3, RunOfCall DEF RecordMoves
<1>8. calls[c].turn # NoTurn => turns[r][calls[c].turn] # "none"
  BY <1>1, <1>2 DEF AgentOK, TurnsOK
<1>9. TurnsOK'
  BY <1>1, <1>2, <1>3, <1>4, <1>5, <1>7, <1>8, CallKept DEF AgentOK, RecordMoves
<1> QED
  BY <1>6, <1>9 DEF AgentOK

LEMMA CallStepOK ==
  ASSUME AgentOK, UNCHANGED execution, NEW c \in Callers, CallStep(c)
  PROVE  AgentOK'
BY StartTurnOK, SetActiveTurnOK, RespondOK, RemoveApprovalOK, InterruptOK, MarkCancelledOK DEF CallStep

\* The agent's variables rest, and no execution goes back.
LEMMA AgentRests ==
  ASSUME AgentOK, UNCHANGED agentVars, \A r \in Runs : Unstarted(r)' => Unstarted(r)
  PROVE  AgentOK'
<1>1. AgentTypeOK'
  BY DEF AgentOK, AgentTypeOK, agentVars
<1>2. TurnsOK'
  BY AgentTyped, TurnsKept DEF AgentOK, agentVars
<1> QED
  BY <1>1, <1>2 DEF AgentOK

----------------------------------------------------------------------------
(* The turns that records name.  As long as instructions that start a turn   *)
(* are apart from cancels and from each other, the turn at work is that of   *)
(* the record or of the instruction that started it; and a cancel finds it.  *)

Busy(c, q) == UnderWay(c) /\ calls[c].run = q
Ends == {"completed", "failed", "interrupted"}

\* A turn whose end waits in a feed has ended.
ReportsOK(q) ==
  \A i \in DOMAIN feed[q] : feed[q][i].kind \in Ends => turns[q][feed[q][i].turn] = "ended"

Named(q) ==
  \A t \in Turns : turns[q][t] = "live" =>
    \/ registry[q].turn = t
    \/ \E c \in Callers : At(c, "started", "instruct") /\ calls[c].run = q /\ calls[c].turn = t

Apart(q) ==
  \A c \in Callers, d \in Callers :
    c # d /\ Busy(c, q) /\ Busy(d, q) /\ calls[c].op = "instruct" =>
      calls[d].op \notin {"instruct", "cancel"}

Instructed(q) ==
  \A c \in Callers : Busy(c, q) /\ calls[c].op = "instruct" => registry[q].turn = NoTurn

Cancelling(q) ==
  \A c \in Callers : calls[c].op = "cancel" /\ calls[c].run = q =>
    /\ calls[c].at = "begun" => \A t \in Turns : turns[q][t] = "live" => t = calls[c].turn
    /\ calls[c].at \in {"interrupted", "cancelled"} => \A t \in Turns : turns[q][t] # "live"
    /\ calls[c].at = "cancelled" =>
         /\ registry[q].status = "cancelled" /\ registry[q].turn = NoTurn
         /\ \A d \in Callers : Busy(d, q) => calls[d].op # "instruct"

Unrecorded(q) ==
  /\ registry[q].status = "absent" /\ registry[q].turn = NoTurn
  /\ \A c \in Callers : calls[c].run # q

Tracked(q) ==
  \/ q \in contested
  \/ Unrecorded(q)
  \/ Named(q) /\ Apart(q) /\ Instructed(q) /\ Cancelling(q)

TrackedOK ==
  /\ \A q \in Runs : ReportsOK(q) /\ Tracked(q)
  /\ \A c \in Callers : ~Calling(c) => calls[c].run = "none"

LEMMA ReportsKept ==
  ASSUME AgentOK, NEW q \in Runs, ReportsOK(q),
         \A t \in Turns : turns[q][t] = "ended" => turns'[q][t] = "ended",
         \A i \in DOMAIN feed'[q] :
           \/ \E j \in DOMAIN feed[q] : feed'[q][i] = feed[q][j]
           \/ feed'[q][i].kind \in Ends => turns'[q][feed'[q][i].turn] = "ended"
  PROVE  ReportsOK(q)'
<1>1. ASSUME NEW i \in DOMAIN feed'[q], feed'[q][i].kind \in Ends
      PROVE  turns'[q][feed'[q][i].turn] = "ended"
  <2>1. CASE \E j \in DOMAIN feed[q] : feed'[q][i] = feed[q][j]
    <3>1. PICK j \in DOMAIN feed[q] : feed'[q][i] = feed[q][j]
      BY <2>1
    <3>2. feed[q] \in Seq(Events)
      BY AgentTyped DEF AgentOK
    <3>3. feed[q][j] \in Events
      BY <3>2
    <3>4. feed[q][j].turn \in Turns
      BY <3>3 DEF Events
    <3>5. turns[q][feed[q][j].turn] = "ended"
      BY <1>1, <3>1 DEF ReportsOK
    <3> QED
      BY <3>1, <3>4, <3>5
  <2> QED
    BY <1>1, <2>1
<1> QED
  BY <1>1 DEF ReportsOK

\* An event that is told is the last of its feed.
LEMMA TellEvents ==
  ASSUME AgentOK, NEW r \in Runs, NEW t \in Turns, NEW kind \in EventKinds, Tell(r, kind, t), NEW q \in Runs,
         NEW i \in DOMAIN feed'[q]
  PROVE  \/ \E j \in DOMAIN feed[q] : feed'[q][i] = feed[q][j]
         \/ q = r /\ feed'[q][i].kind = kind /\ feed'[q][i].turn = t
<1>1. CASE feed' = feed
  BY <1>1
<1>2. CASE feed' = [feed EXCEPT ![r] = Append(feed[r], [kind |-> kind, turn |-> t])]
  <2> DEFINE event == [kind |-> kind, turn |-> t]
  <2>1. event \in Events /\ event.kind = kind /\ event.turn = t
    BY DEF Events
  <2>2. feed' = [feed EXCEPT ![r] = Append(feed[r], event)] /\ feed \in [Runs -> Seq(Events)]
    BY <1>2, AgentTyped DEF AgentOK, Feeds
  <2> HIDE DEF event
  <2>3. CASE q # r
    BY <2>2, <2>3
  <2>4. CASE q = r
    <3>1. feed'[q] = Append(feed[q], event) /\ feed[q] \in Seq(Events)
      BY <2>2, <2>4
    <3>2. /\ DOMAIN feed'[q] = 1..(Len(feed[q]) + 1) /\ DOMAIN feed[q] = 1..Len(feed[q]) /\ Len(feed[q]) \in Nat
          /\ feed'[q][Len(feed[q]) + 1] = event /\ \A j \in 1..Len(feed[q]) : feed'[q][j] = feed[q][j]
      BY <2>1, <3>1
    <3>3. i \in 1..Len(feed[q]) \/ i = Len(feed[q]) + 1
      BY <3>2
    <3> QED
      BY <2>1, <2>4, <3>2, <3>3
  <2> QED
    BY <2>3, <2>4
<1> QED
  BY <1>1, <1>2 DEF Tell

LEMMA TailEvents ==
  ASSUME AgentOK, NEW r \in Runs, NEW q \in Runs,
         \/ feed' = feed
         \/ feed' = [feed EXCEPT ![r] = <<>>]
         \/ feed[r] # <<>> /\ feed' = [feed EXCEPT ![r] = Tail(feed[r])],
         NEW i \in DOMAIN feed'[q]
  PROVE  \E j \in DOMAIN feed[q] : feed'[q][i] = feed[q][j]
<1>1. feed \in [Runs -> Seq(Events)]
  BY AgentTyped DEF AgentOK, Feeds
<1>2. CASE feed'[q] = feed[q]
  BY <1>2
<1>3. CASE feed'[q] = <<>>
  BY <1>3
<1>4. CASE feed[q] # <<>> /\ feed'[q] = Tail(feed[q])
  <2>1. feed[q] \in Seq(Events)
    BY <1>1
  <2>2. /\ DOMAIN feed'[q] = 1..(Len(feed[q]) - 1) /\ DOMAIN feed[q] = 1..Len(feed[q]) /\ Len(feed[q]) \in Nat
        /\ \A j \in 1..(Len(feed[q]) - 1) : feed'[q][j] = feed[q][j + 1]
    BY <1>4, <2>1
  <2>3. i \in 1..(Len(feed[q]) - 1) /\ i + 1 \in 1..Len(feed[q])
    BY <2>2
  <2> QED
    BY <2>2, <2>3
<1> QED
  BY <1>1, <1>2, <1>3, <1>4

\* A run that a step does not touch.
LEMMA ElsewhereTracked ==
  ASSUME NEW q \in Runs, ReportsOK(q), Tracked(q),
         turns'[q] = turns[q], feed'[q] = feed[q], registry'[q] = registry[q], contested \subseteq contested',
         \A c \in Callers : calls'[c] = calls[c] \/ (calls[c].run # q /\ calls'[c].run # q)
  PROVE  ReportsOK(q)' /\ Tracked(q)'
<1>1. ReportsOK(q)'
  BY DEF ReportsOK
<1>2. ASSUME q \notin contested, ~Unrecorded(q)
      PROVE  Named(q)' /\ Apart(q)' /\ Instructed(q)' /\ Cancelling(q)'
  <2>1. \A c \in Callers : calls'[c].run = q \/ calls[c].run = q => calls'[c] = calls[c]
    OBVIOUS
  <2>2. \A c \in Callers : Busy(c, q)' <=> Busy(c, q)
    BY <2>1 DEF Busy, UnderWay
  <2>3. Named(q) /\ Apart(q) /\ Instructed(q) /\ Cancelling(q)
    BY <1>2 DEF Tracked
  <2>4. Named(q)'
    BY <2>1, <2>3 DEF Named, At
  <2>5. \A c \in Callers : Busy(c, q) => calls'[c] = calls[c]
    BY <2>1 DEF Busy
  <2>6. Apart(q)' /\ Instructed(q)'
    BY <2>2, <2>3, <2>5 DEF Apart, Instructed
  <2>7. Cancelling(q)'
    BY <2>1, <2>2, <2>3, <2>5 DEF Cancelling
  <2> QED
    BY <2>4, <2>6, <2>7
<1>3. q \in contested => q \in contested'
  OBVIOUS
<1> QED
  BY <1>1, <1>2, <1>3 DEF Tracked, Unrecorded

\* A step of the app server or of the stream: it may end turns, and what it
\* leaves of the record names no turn that is at work, or the same turn.
LEMMA ProviderTracked ==
  ASSUME AgentOK, NEW q \in Runs, Tracked(q), UNCHANGED <<calls, contested>>,
         \A t \in Turns : turns'[q][t] = "live" => turns[q][t] = "live",
         Unrecorded(q) => Unrecorded(q)',
         \/ registry'[q].turn = registry[q].turn /\ registry'[q].status = registry[q].status
         \/ /\ registry[q].turn # NoTurn /\ registry'[q].turn = NoTurn
            /\ turns'[q][registry[q].turn] # "live"
  PROVE  Tracked(q)'
<1>1. ASSUME q \notin contested, ~Unrecorded(q)
      PROVE  Named(q)' /\ Apart(q)' /\ Instructed(q)' /\ Cancelling(q)'
  <2>1. Named(q) /\ Apart(q) /\ Instructed(q) /\ Cancelling(q)
    BY <1>1 DEF Tracked
  <2>2. \A c \in Callers : Busy(c, q)' <=> Busy(c, q)
    BY DEF Busy, UnderWay
  <2>3. ASSUME NEW t \in Turns, turns'[q][t] = "live"
        PROVE  \/ registry'[q].turn = t
               \/ \E c \in Callers : At(c, "started", "instruct") /\ calls[c].run = q /\ calls[c].turn = t
    BY <2>1, <2>3 DEF Named
  <2>4. Named(q)'
    BY <2>3 DEF Named, At
  <2>5. Apart(q)' /\ Instructed(q)'
    BY <2>1, <2>2 DEF Apart, Instructed
  <2>6. Cancelling(q)'
    BY <2>1, <2>2 DEF Cancelling
  <2> QED
    BY <2>4, <2>5, <2>6
<1> QED
  BY <1>1 DEF Tracked

LEMMA TurnAsksTracked ==
  ASSUME AgentOK, TrackedOK, NEW r \in Runs, NEW t \in Turns, TurnAsks(r, t)
  PROVE  TrackedOK'
<1>1. UNCHANGED <<turns, registry, calls, contested>> /\ Tell(r, "approval", t) /\ "approval" \in EventKinds \ Ends
  BY DEF TurnAsks, EventKinds, Ends
<1>2. ASSUME NEW q \in Runs PROVE ReportsOK(q)' /\ Tracked(q)'
  <2>1. ReportsOK(q) /\ Tracked(q)
    BY DEF TrackedOK
  <2>2. ReportsOK(q)'
    BY <1>1, <2>1, TellEvents, ReportsKept
  <2> QED
    BY <1>1, <2>1, <2>2, ProviderTracked DEF Unrecorded
<1> QED
  BY <1>1, <1>2 DEF TrackedOK, Calling

LEMMA TurnEndsTracked ==
  ASSUME AgentOK, TrackedOK, NEW r \in Runs, NEW t \in Turns, NEW outcome \in {"completed", "failed"},
         TurnEnds(r, t, outcome)
  PROVE  TrackedOK'
<1>1. /\ UNCHANGED <<registry, calls, contested>> /\ Tell(r, outcome, t) /\ outcome \in EventKinds
      /\ turns' = [turns EXCEPT ![r][t] = "ended"]
  BY DEF TurnEnds, EventKinds
<1>2. /\ turns'[r][t] = "ended"
      /\ \A q \in Runs, u \in Turns : q # r \/ u # t => turns'[q][u] = turns[q][u]
  BY <1>1, AgentTyped DEF AgentOK
<1>3. ASSUME NEW q \in Runs PROVE ReportsOK(q)' /\ Tracked(q)'
  <2>1. ReportsOK(q) /\ Tracked(q)
    BY DEF TrackedOK
  <2>2. \A u \in Turns : /\ turns[q][u] = "ended" => turns'[q][u] = "ended"
                         /\ turns'[q][u] = "live" => turns[q][u] = "live"
    BY <1>2
  <2>3. ReportsOK(q)'
    BY <1>1, <1>2, <2>1, <2>2, TellEvents, ReportsKept
  <2> QED
    BY <1>1, <2>1, <2>2, <2>3, ProviderTracked DEF Unrecorded
<1> QED
  BY <1>1, <1>3 DEF TrackedOK, Calling

\* What is noted of the end of a turn is noted when the turn has ended.
LEMMA StreamTracked ==
  ASSUME AgentOK, TrackedOK, NEW r \in Runs,
         OpenStream(r) \/ ReadEvent(r) \/ StreamRefuses(r) \/ StreamLost(r) \/ StreamEnds(r)
  PROVE  TrackedOK'
<1>1. UNCHANGED <<turns, asked, calls, contested>>
  BY DEF OpenStream, ReadEvent, StreamRefuses, StreamLost, StreamEnds
<1>2. \/ feed' = feed
      \/ feed' = [feed EXCEPT ![r] = <<>>]
      \/ feed[r] # <<>> /\ feed' = [feed EXCEPT ![r] = Tail(feed[r])]
  BY DEF OpenStream, ReadEvent, StreamRefuses, StreamLost, StreamEnds, CloseStream
<1>3. ASSUME NEW q \in Runs PROVE ReportsOK(q)'
  <2>1. ReportsOK(q)
    BY DEF TrackedOK
  <2> QED
    BY <1>1, <1>2, <2>1, TailEvents, ReportsKept
<1>4. CASE registry' = registry
  <2>1. ASSUME NEW q \in Runs PROVE Tracked(q)'
    BY <1>1, <1>4, ProviderTracked DEF Unrecorded, TrackedOK
  <2> QED
    BY <1>1, <1>3, <2>1 DEF TrackedOK, Calling
<1>5. CASE feed[r] # <<>> /\ Accepted(r, Head(feed[r])) /\ registry' = Noted(r, Head(feed[r]))
  <2>1. PICK e \in Events : e = Head(feed[r]) /\ e.turn \in Turns
    BY <1>5, HeadType DEF AgentOK
  <2>2. e.kind \in Ends => turns[r][e.turn] = "ended"
    <3>1. feed[r] \in Seq(Events) /\ feed[r] # <<>>
      BY <1>5, AgentTyped DEF AgentOK
    <3>2. 1 \in DOMAIN feed[r] /\ feed[r][1] = e
      BY <2>1, <3>1
    <3> QED
      BY <3>2 DEF TrackedOK, ReportsOK
  <2>3. RecordMoves(r)
    BY <1>5, <2>1, NotedStep DEF AgentOK
  <2>4. \/ registry'[r].turn = registry[r].turn /\ registry'[r].status = registry[r].status
        \/ /\ registry[r].turn # NoTurn /\ registry'[r].turn = NoTurn
           /\ turns[r][registry[r].turn] # "live"
    <3>1. CASE e.kind = "approval"
      <4>1. registry[r].pending \cup {e.turn} \in SUBSET Turns
        BY <2>1, AgentTyped DEF AgentOK
      <4>2. registry' = [registry EXCEPT ![r].pending = registry[r].pending \cup {e.turn}]
        BY <1>5, <2>1, <3>1 DEF Noted
      <4> QED
        BY <4>1, <4>2, PendingStep DEF AgentOK
    <3>2. CASE e.kind \in Ends
      <4>1. registry[r].turn = e.turn /\ e.turn # NoTurn
        BY <1>5, <2>1, <3>2, TurnBounds DEF Accepted, Markable, Ends
      <4>2. registry'[r].turn = NoTurn
        <5>1. \/ registry' = [registry EXCEPT ![r].status = "completed", ![r].turn = NoTurn]
              \/ registry' = [registry EXCEPT ![r].status = "idle", ![r].turn = NoTurn]
          BY <1>5, <2>1, <3>2 DEF Noted, Ends
        <5>2. {"completed", "idle"} \subseteq RegistryStatuses
          BY DEF RegistryStatuses
        <5> QED
          BY <5>1, <5>2, RecordStep DEF AgentOK
      <4> QED
        BY <2>2, <3>2, <4>1, <4>2
    <3> QED
      BY <2>1, <3>1, <3>2 DEF Events, EventKinds, Ends
  <2>5. ASSUME NEW q \in Runs PROVE Tracked(q)'
    <3>1. CASE q = r
      BY <1>1, <2>4, <3>1, ProviderTracked DEF Unrecorded, TrackedOK
    <3>2. CASE q # r
      BY <1>1, <2>3, <3>2, ProviderTracked DEF Unrecorded, TrackedOK, RecordMoves
    <3> QED
      BY <3>1, <3>2
  <2> QED
    BY <1>1, <1>3, <2>5 DEF TrackedOK, Calling
<1> QED
  BY <1>4, <1>5 DEF OpenStream, ReadEvent, StreamRefuses, StreamLost, StreamEnds

LEMMA StartAgentTracked ==
  ASSUME AgentOK, TrackedOK, NEW r \in Runs, execution[r].at = "start", StartAgent(r) \/ StartAgentFails(r)
  PROVE  TrackedOK'
<1>1. Unstarted(r) /\ registry[r].status = "absent" /\ \A t \in Turns : turns[r][t] = "none"
  BY DEF Unstarted, AgentOK, TurnsOK
<1>2. \A c \in Callers : calls[c].run # r
  BY <1>1, NamesAssumption DEF AgentOK, TurnsOK, TrackedOK
<1>3. registry[r].turn = NoTurn
  BY <1>1, AgentTyped DEF AgentOK, TurnsOK
<1>4. 1 \in Turns /\ UNCHANGED <<feed, calls, contested>>
  BY TurnBounds DEF StartAgent, StartAgentFails
<1>5. \A q \in Runs, u \in Turns : q # r \/ u # 1 => turns'[q][u] = turns[q][u]
  BY <1>4, AgentTyped DEF AgentOK, StartAgent, StartAgentFails
<1>6. \A q \in Runs : q # r => turns'[q] = turns[q] /\ registry'[q] = registry[q]
  BY AgentTyped DEF AgentOK, StartAgent, StartAgentFails
<1>7. ReportsOK(r)'
  <2>1. \A t \in Turns : turns[r][t] # "ended"
    BY <1>1
  <2> QED
    BY <1>4, <2>1, ReportsKept DEF TrackedOK
<1>8. Tracked(r)'
  <2>1. CASE StartAgentFails(r)
    BY <1>1, <1>2, <1>3, <1>4, <2>1 DEF StartAgentFails, Tracked, Unrecorded
  <2>2. CASE StartAgent(r)
    <3>1. registry'[r].turn = 1
      BY <2>2, AgentTyped DEF StartAgent, AgentOK
    <3>2. Named(r)'
      BY <1>1, <1>5, <3>1 DEF Named
    <3>3. Apart(r)' /\ Instructed(r)' /\ Cancelling(r)'
      BY <1>2, <1>4 DEF Apart, Instructed, Cancelling, Busy
    <3> QED
      BY <3>2, <3>3 DEF Tracked
  <2> QED
    BY <2>1, <2>2
<1>9. ASSUME NEW q \in Runs, q # r PROVE ReportsOK(q)' /\ Tracked(q)'
  BY <1>4, <1>6, <1>9, ElsewhereTracked DEF TrackedOK
<1>10. \A c \in Callers : ~Calling(c)' => calls'[c].run = "none"
  BY <1>4 DEF TrackedOK, Calling
<1> QED
  BY <1>7, <1>8, <1>9, <1>10 DEF TrackedOK

\* What a step of a call has to show, for the run of the call.
LEMMA CallTracked ==
  ASSUME AgentOK, TrackedOK, NEW c \in Callers, NEW r \in Runs, CallMoves(c),
         calls[c].run \in {r, "none"}, calls'[c].run \in {r, "none"},
         ~Calling(c)' => calls'[c].run = "none",
         \A q \in Runs : q # r => turns'[q] = turns[q] /\ feed'[q] = feed[q] /\ registry'[q] = registry[q],
         contested \subseteq contested', ReportsOK(r)', Tracked(r)'
  PROVE  TrackedOK'
<1>1. ASSUME NEW q \in Runs, q # r PROVE ReportsOK(q)' /\ Tracked(q)'
  BY <1>1, NamesAssumption, ElsewhereTracked DEF CallMoves, TrackedOK
<1>2. ASSUME NEW d \in Callers, ~Calling(d)' PROVE calls'[d].run = "none"
  BY <1>2 DEF TrackedOK, Calling, CallMoves
<1> QED
  BY <1>1, <1>2 DEF TrackedOK

LEMMA BeginTracked ==
  ASSUME AgentOK, TrackedOK, NEW c \in Callers, NEW op \in Operations, NEW r \in Operated, Begin(c, op, r)
  PROVE  TrackedOK'
<1>1. r \in Runs /\ registry[r].turn \in Turns \cup {NoTurn}
  BY NamesAssumption, AgentTyped DEF AgentOK
<1>2. /\ CallMoves(c) /\ calls'[c].at = "begun" /\ calls'[c].op = op /\ calls'[c].run = r
      /\ calls'[c].turn = registry[r].turn
  <2> DEFINE row == [at |-> "begun", op |-> op, run |-> r, turn |-> registry[r].turn]
  <2>1. row \in CallRows /\ row.at = "begun" /\ row.op = op /\ row.run = r /\ row.turn = registry[r].turn
    BY <1>1 DEF CallRows
  <2>2. calls' = [calls EXCEPT ![c] = row]
    BY DEF Begin
  <2> HIDE DEF row
  <2> QED
    BY <2>1, <2>2, AgentTyped DEF AgentOK, CallMoves
<1>3. UNCHANGED <<turns, feed, asked, registry, stream>> /\ ~UnderWay(c) /\ calls[c].run = "none"
  BY DEF Begin, UnderWay, TrackedOK, Calling
<1>4. registry[r].status \in {"idle", "running"} /\ (op = "instruct" => registry[r].turn = NoTurn)
  BY DEF Begin, Controllable
<1>5. /\ contested \subseteq contested'
      /\ r \in contested' \/ (r \notin contested /\ \A d \in Callers : ~Contends(d, op, r))
  BY DEF Begin
<1>6. \A d \in Callers : d # c => calls'[d] = calls[d]
  BY <1>2 DEF CallMoves
<1>7. Tracked(r)'
  <2>1. CASE r \notin contested /\ \A d \in Callers : ~Contends(d, op, r)
    <3>1. Named(r) /\ Apart(r) /\ Instructed(r) /\ Cancelling(r)
      BY <1>1, <1>4, <2>1 DEF TrackedOK, Tracked, Unrecorded
    <3>2. \A d \in Callers : d # c => (Busy(d, r)' <=> Busy(d, r))
      BY <1>6 DEF Busy, UnderWay
    <3>3. \A d \in Callers : Busy(d, r) => d # c /\ ("instruct" \in {op, calls[d].op} =>
                                                      ~({op, calls[d].op} \subseteq {"instruct", "cancel"}))
      BY <1>3, <2>1 DEF Contends, Busy
    <3>4. Named(r)'
      <4>1. \A d \in Callers : At(d, "started", "instruct") => d # c
        BY <1>3 DEF At, UnderWay
      <4> QED
        BY <1>3, <1>6, <3>1, <4>1 DEF Named, At
    <3>5. Apart(r)'
      <4> SUFFICES ASSUME NEW d \in Callers, NEW e \in Callers, d # e, Busy(d, r)', Busy(e, r)',
                          calls'[d].op = "instruct"
                   PROVE  calls'[e].op \notin {"instruct", "cancel"}
        BY DEF Apart
      <4> QED
        BY <1>2, <1>6, <3>1, <3>2, <3>3 DEF Apart
    <3>6. Instructed(r)'
      BY <1>2, <1>3, <1>4, <1>6, <3>1, <3>2 DEF Instructed
    <3>7. Cancelling(r)'
      <4> SUFFICES ASSUME NEW d \in Callers, calls'[d].op = "cancel", calls'[d].run = r
                   PROVE  /\ calls'[d].at = "begun" => \A t \in Turns : turns'[r][t] = "live" => t = calls'[d].turn
                          /\ calls'[d].at \in {"interrupted", "cancelled"} => \A t \in Turns : turns'[r][t] # "live"
                          /\ calls'[d].at = "cancelled" =>
                               /\ registry'[r].status = "cancelled" /\ registry'[r].turn = NoTurn
                               /\ \A e \in Callers : Busy(e, r)' => calls'[e].op # "instruct"
        BY DEF Cancelling
      <4>1. CASE d = c
        <5>1. \A e \in Callers : At(e, "started", "instruct") /\ calls[e].run = r => Busy(e, r)
          BY DEF At, Busy, UnderWay
        <5>2. op = "cancel"
          BY <1>2, <4>1
        <5>3. \A e \in Callers : ~(At(e, "started", "instruct") /\ calls[e].run = r)
          BY <3>3, <5>1, <5>2 DEF At
        <5> QED
          BY <1>2, <1>3, <3>1, <4>1, <5>3 DEF Named
      <4>2. CASE d # c
        BY <1>3, <1>4, <1>6, <3>1, <4>2 DEF Cancelling
      <4> QED
        BY <4>1, <4>2
    <3> QED
      BY <3>4, <3>5, <3>6, <3>7 DEF Tracked
  <2> QED
    BY <1>5, <2>1 DEF Tracked
<1>8. ReportsOK(r)'
  BY <1>1, <1>3 DEF ReportsOK, TrackedOK
<1>9. Calling(c)'
  BY <1>2 DEF Calling
<1> QED
  BY <1>1, <1>2, <1>3, <1>5, <1>7, <1>8, <1>9, CallTracked

\* The run of a call under way is recorded, unless it is contested.
LEMMA BusyRun ==
  ASSUME AgentOK, TrackedOK, NEW c \in Callers, NEW r \in Runs, Busy(c, r), r \notin contested
  PROVE  Named(r) /\ Apart(r) /\ Instructed(r) /\ Cancelling(r)
  BY DEF TrackedOK, Tracked, Unrecorded, Busy

LEMMA StartTurnTracked ==
  ASSUME AgentOK, TrackedOK, NEW c \in Callers, StartTurn(c)
  PROVE  TrackedOK'
<1>1. At(c, "begun", "instruct") /\ Calling(c) /\ UNCHANGED <<feed, asked, registry, stream, contested>>
  BY DEF StartTurn, At, Calling
<1>2. PICK r \in Runs : r = calls[c].run
  BY <1>1, RunOfCall
<1>3. PICK t \in Turns :
        /\ NextTurn(r, t)
        /\ calls' = [calls EXCEPT ![c].at = "started", ![c].turn = t]
        /\ turns' = [turns EXCEPT ![r][t] = "live"]
  BY <1>2 DEF StartTurn
<1>4. /\ CallMoves(c) /\ calls'[c].at = "started" /\ calls'[c].run = r /\ calls'[c].turn = t
      /\ calls'[c].op = "instruct"
  <2> DEFINE row == [calls[c] EXCEPT !.at = "started", !.turn = t]
  <2>1. row \in CallRows /\ row.at = "started" /\ row.run = r /\ row.turn = t /\ row.op = "instruct"
    BY <1>1, <1>2, AgentTyped DEF CallRows, AgentOK, At
  <2>2. calls' = [calls EXCEPT ![c] = row]
    BY <1>3, AgentTyped DEF AgentOK
  <2> HIDE DEF row
  <2> QED
    BY <2>1, <2>2, AgentTyped DEF AgentOK, CallMoves
<1>5. turns[r][t] = "none" /\ \A u \in Turns : u # t => turns'[r][u] = turns[r][u]
  BY <1>3, AgentTyped DEF AgentOK, NextTurn, FreeTurns
<1>6. \A q \in Runs : q # r => turns'[q] = turns[q]
  BY <1>3, AgentTyped DEF AgentOK
<1>7. \A d \in Callers : (Busy(d, r)' <=> Busy(d, r)) /\ calls'[d].op = calls[d].op /\ calls'[d].run = calls[d].run
  BY <1>1, <1>2, <1>4 DEF CallMoves, Busy, UnderWay, At
<1>8. ASSUME r \notin contested PROVE Tracked(r)'
  <2>1. Named(r) /\ Apart(r) /\ Instructed(r) /\ Cancelling(r) /\ Busy(c, r)
    BY <1>1, <1>2, <1>8, BusyRun DEF Busy, At, UnderWay
  <2>2. Named(r)'
    <3> SUFFICES ASSUME NEW u \in Turns, turns'[r][u] = "live"
                 PROVE  \/ registry'[r].turn = u
                        \/ \E d \in Callers : At(d, "started", "instruct")' /\ calls'[d].run = r /\ calls'[d].turn = u
      BY DEF Named
    <3>1. CASE u = t
      BY <1>4, <3>1 DEF At
    <3>2. CASE u # t
      <4>1. turns[r][u] = "live"
        BY <1>5, <3>2
      <4>2. CASE registry[r].turn = u
        BY <1>1, <4>2
      <4>3. CASE registry[r].turn # u
        <5>1. PICK d \in Callers : At(d, "started", "instruct") /\ calls[d].run = r /\ calls[d].turn = u
          BY <2>1, <4>1, <4>3 DEF Named
        <5>2. calls'[d] = calls[d]
          BY <1>1, <1>4, <5>1 DEF At, CallMoves
        <5> QED
          BY <5>1, <5>2 DEF At
      <4> QED
        BY <4>2, <4>3
    <3> QED
      BY <3>1, <3>2
  <2>3. Apart(r)' /\ Instructed(r)'
    BY <1>1, <1>7, <2>1 DEF Apart, Instructed
  <2>4. \A d \in Callers : calls[d].op = "cancel" /\ calls[d].run = r =>
          calls[d].at \notin {"begun", "interrupted", "cancelled"}
    BY <1>1, <2>1 DEF Apart, Cancelling, Busy, UnderWay, At
  <2>5. Cancelling(r)'
    BY <1>4, <2>4 DEF Cancelling, CallMoves
  <2> QED
    BY <2>2, <2>3, <2>5 DEF Tracked
<1>9. ReportsOK(r)'
  BY <1>1, <1>5, ReportsKept DEF TrackedOK
<1> QED
  BY <1>1, <1>2, <1>4, <1>6, <1>8, <1>9, CallTracked DEF Calling, Tracked

LEMMA SetActiveTurnTracked ==
  ASSUME AgentOK, TrackedOK, NEW c \in Callers, SetActiveTurn(c)
  PROVE  TrackedOK'
<1>1. At(c, "started", "instruct") /\ Calling(c) /\ UNCHANGED <<turns, feed, asked, stream, contested>> /\ Finish(c)
  BY DEF SetActiveTurn, At, Calling
<1>2. PICK r \in Runs : r = calls[c].run
  BY <1>1, RunOfCall
<1>3. RecordMoves(r) /\ registry'[r].turn = calls[c].turn
  <2>1. PICK t \in Turns \cup {NoTurn} : t = calls[c].turn
    BY <1>1, RunOfCall
  <2>2. registry' = [registry EXCEPT ![r].status = "running", ![r].turn = t]
    BY <1>2, <2>1 DEF SetActiveTurn
  <2> QED
    BY <2>1, <2>2, RecordStep DEF RegistryStatuses, AgentOK
<1>4. CallMoves(c) /\ calls'[c].at = "over" /\ calls'[c].run = "none" /\ calls'[c].op = "none"
  BY <1>1, FinishStep DEF AgentOK, Over, Idle
<1>5. ASSUME r \notin contested PROVE Tracked(r)'
  <2>1. Named(r) /\ Apart(r) /\ Instructed(r) /\ Cancelling(r) /\ Busy(c, r)
    BY <1>1, <1>2, <1>5, BusyRun DEF Busy, At, UnderWay
  <2>2. \A d \in Callers : Busy(d, r) /\ d # c => calls[d].op \notin {"instruct", "cancel"}
    BY <1>1, <2>1 DEF Apart, At
  <2>3. Named(r)'
    <3> SUFFICES ASSUME NEW u \in Turns, turns[r][u] = "live" PROVE registry'[r].turn = u
      BY <1>1 DEF Named
    <3>1. registry[r].turn # u
      BY <1>1, <2>1, TurnBounds DEF Instructed, At
    <3>2. PICK d \in Callers : At(d, "started", "instruct") /\ calls[d].run = r /\ calls[d].turn = u
      BY <2>1, <3>1 DEF Named
    <3>3. d = c
      BY <2>2, <3>2 DEF At, Busy, UnderWay
    <3> QED
      BY <1>3, <3>2, <3>3
  <2>4. \A d \in Callers : Busy(d, r)' => d # c /\ Busy(d, r) /\ calls'[d] = calls[d]
    BY <1>2, <1>4 DEF Busy, UnderWay, CallMoves
  <2>5. Apart(r)' /\ Instructed(r)'
    BY <2>2, <2>4 DEF Apart, Instructed
  <2>6. \A d \in Callers : calls[d].op = "cancel" /\ calls[d].run = r =>
          calls[d].at \notin {"begun", "interrupted", "cancelled"}
    BY <1>1, <2>1, <2>2 DEF Cancelling, Busy, UnderWay, At
  <2>7. Cancelling(r)'
    BY <1>4, <2>6 DEF Cancelling, CallMoves
  <2> QED
    BY <2>3, <2>5, <2>7 DEF Tracked
<1>6. ReportsOK(r)'
  BY <1>1, ReportsKept DEF TrackedOK
<1> QED
  BY <1>1, <1>2, <1>3, <1>4, <1>5, <1>6, CallTracked DEF RecordMoves, Tracked

\* A call that leaves turns and records alone, and is no instruction or is over.
LEMMA AnswerTracked ==
  ASSUME AgentOK, TrackedOK, NEW c \in Callers, NEW r \in Runs, CallMoves(c), Calling(c), calls[c].run = r,
         UNCHANGED <<turns, feed, contested>>, RecordMoves(r),
         registry'[r].status = registry[r].status /\ registry'[r].turn = registry[r].turn,
         ~At(c, "started", "instruct"), calls[c].op # "cancel" \/ ~Calling(c)',
         \/ ~Calling(c)' /\ calls'[c].run = "none"
         \/ /\ calls'[c].run = r /\ calls'[c].op = calls[c].op /\ calls[c].op # "instruct"
            /\ Calling(c)'
  PROVE  TrackedOK'
<1>1. ASSUME r \notin contested PROVE Tracked(r)'
  <2>1. Named(r) /\ Apart(r) /\ Instructed(r) /\ Cancelling(r)
    BY <1>1 DEF TrackedOK, Tracked, Unrecorded
  <2>2. \A d \in Callers : d # c => calls'[d] = calls[d]
    BY DEF CallMoves
  <2>3. \A d \in Callers : Busy(d, r)' => Busy(d, r) \/ calls'[d].op \notin {"instruct", "cancel"}
    BY <2>2, NamesAssumption DEF Busy, UnderWay, Calling
  <2>4. \A d \in Callers : Busy(d, r)' => calls'[d].op = calls[d].op
    BY <2>2, NamesAssumption DEF Busy, UnderWay, Calling
  <2>5. Named(r)'
    BY <2>1, <2>2 DEF Named, At
  <2>6. Apart(r)' /\ Instructed(r)'
    BY <2>1, <2>3, <2>4 DEF Apart, Instructed
  <2>7. Cancelling(r)'
    BY <2>1, <2>2, <2>3, <2>4, NamesAssumption DEF Cancelling
  <2> QED
    BY <2>5, <2>6, <2>7 DEF Tracked
<1>2. ReportsOK(r)'
  BY ReportsKept DEF TrackedOK
<1> QED
  BY <1>1, <1>2, CallTracked DEF RecordMoves, Tracked

LEMMA AnsweringTracked ==
  ASSUME AgentOK, TrackedOK, NEW c \in Callers, Respond(c) \/ RemoveApproval(c)
  PROVE  TrackedOK'
<1>1. /\ Calling(c) /\ calls[c].op = "answer" /\ UNCHANGED <<turns, feed, contested>>
      /\ (Respond(c) /\ Go(c, "answered")) \/ (RemoveApproval(c) /\ Finish(c))
  BY DEF Respond, RemoveApproval, At, Calling
<1>2. PICK r \in Runs : r = calls[c].run
  BY <1>1, RunOfCall
<1>3. CASE Respond(c) /\ Go(c, "answered")
  <2>1. RecordMoves(r) /\ registry' = registry
    BY <1>3, AgentTyped DEF AgentOK, Respond, RecordMoves
  <2>2. CallMoves(c) /\ calls'[c].at = "answered" /\ calls'[c].op = "answer" /\ calls'[c].run = r
    BY <1>1, <1>2, <1>3, GoStep DEF AgentOK
  <2> QED
    BY <1>1, <1>2, <2>1, <2>2, AnswerTracked DEF At, Calling
<1>4. CASE RemoveApproval(c) /\ Finish(c)
  <2>1. registry[r].pending \ {calls[c].turn} \in SUBSET Turns
    BY AgentTyped DEF AgentOK
  <2>2. registry' = [registry EXCEPT ![r].pending = registry[r].pending \ {calls[c].turn}]
    BY <1>2, <1>4 DEF RemoveApproval
  <2>3. /\ RecordMoves(r)
        /\ registry'[r].status = registry[r].status /\ registry'[r].turn = registry[r].turn
    BY <2>1, <2>2, PendingStep DEF AgentOK
  <2>4. CallMoves(c) /\ calls'[c].at = "over" /\ calls'[c].run = "none"
    BY <1>4, FinishStep DEF AgentOK, Over, Idle
  <2> QED
    BY <1>1, <1>2, <2>3, <2>4, AnswerTracked DEF At, Calling
<1> QED
  BY <1>1, <1>3, <1>4

LEMMA CallFailsTracked ==
  ASSUME AgentOK, TrackedOK, NEW c \in Callers, CallFails(c)
  PROVE  TrackedOK'
<1>1. Calling(c) /\ UNCHANGED <<feed, asked, registry, stream>> /\ Finish(c)
  BY DEF CallFails, UnderWay, Calling
<1>2. PICK r \in Runs : r = calls[c].run
  BY <1>1, RunOfCall
<1>3. CallMoves(c) /\ calls'[c].at = "over" /\ calls'[c].run = "none"
  BY <1>1, FinishStep DEF AgentOK, Over, Idle
<1>4. RecordMoves(r)
  BY <1>1, AgentTyped DEF AgentOK, RecordMoves
<1>5. CASE calls[c].op # "instruct"
  <2>1. UNCHANGED <<turns, contested>>
    BY <1>5 DEF CallFails, At
  <2> QED
    BY <1>1, <1>2, <1>3, <1>4, <1>5, <2>1, AnswerTracked DEF At, Calling
<1>6. CASE calls[c].op = "instruct"
  <2>1. contested' = contested \cup {r}
    BY <1>2, <1>6 DEF CallFails
  <2>2. /\ \A q \in Runs : q # r => turns'[q] = turns[q]
        /\ \A t \in Turns : turns[r][t] = "ended" => turns'[r][t] = "ended"
    <3>1. CASE UNCHANGED turns
      BY <3>1
    <3>2. ASSUME NEW t \in Turns, NextTurn(r, t), turns' = [turns EXCEPT ![r][t] = "live"]
          PROVE  /\ \A q \in Runs : q # r => turns'[q] = turns[q]
                 /\ \A u \in Turns : turns[r][u] = "ended" => turns'[r][u] = "ended"
      BY <3>2, AgentTyped DEF AgentOK, NextTurn, FreeTurns
    <3> QED
      BY <1>2, <3>1, <3>2 DEF CallFails
  <2>3. ReportsOK(r)'
    BY <1>1, <2>2, ReportsKept DEF TrackedOK
  <2> QED
    BY <1>1, <1>2, <1>3, <2>1, <2>2, <2>3, CallTracked DEF Tracked
<1> QED
  BY <1>5, <1>6

LEMMA InterruptTracked ==
  ASSUME AgentOK, TrackedOK, NEW c \in Callers, Interrupt(c)
  PROVE  TrackedOK'
<1>1. At(c, "begun", "cancel") /\ Calling(c) /\ UNCHANGED <<asked, registry, stream, contested>> /\ Go(c, "interrupted")
  BY DEF Interrupt, At, Calling
<1>2. PICK r \in Runs : r = calls[c].run
  BY <1>1, RunOfCall
<1>3. PICK t \in Turns \cup {NoTurn} : t = calls[c].turn
  BY <1>1, RunOfCall
<1>4. /\ CallMoves(c) /\ calls'[c].at = "interrupted" /\ calls'[c].run = r /\ calls'[c].op = "cancel"
  BY <1>1, <1>2, GoStep DEF AgentOK, At
<1>5. /\ \A q \in Runs : q # r => turns'[q] = turns[q] /\ feed'[q] = feed[q]
      /\ \A u \in Turns : turns'[r][u] = turns[r][u] \/ (turns[r][u] = "live" /\ turns'[r][u] = "ended")
      /\ t # NoTurn => turns'[r][t] # "live"
      /\ ReportsOK(r)'
  <2>1. CASE t # NoTurn /\ turns[r][t] = "live"
    <3>1. turns' = [turns EXCEPT ![r][t] = "ended"] /\ Tell(r, "interrupted", t)
      BY <1>2, <1>3, <2>1 DEF Interrupt, Interrupts
    <3>2. t \in Turns /\ "interrupted" \in EventKinds
      BY <2>1 DEF EventKinds
    <3>3. /\ turns'[r][t] = "ended" /\ \A u \in Turns : u # t => turns'[r][u] = turns[r][u]
          /\ \A q \in Runs : q # r => turns'[q] = turns[q]
      BY <3>1, <3>2, AgentTyped DEF AgentOK
    <3>4. \A q \in Runs : q # r => feed'[q] = feed[q]
      BY <3>1, AgentTyped DEF AgentOK, Tell, Feeds
    <3>5. \A u \in Turns : turns[r][u] = "ended" => turns'[r][u] = "ended"
      BY <3>3
    <3>6. ASSUME NEW i \in DOMAIN feed'[r]
          PROVE  \/ \E j \in DOMAIN feed[r] : feed'[r][i] = feed[r][j]
                 \/ feed'[r][i].kind \in Ends => turns'[r][feed'[r][i].turn] = "ended"
      BY <3>1, <3>2, <3>3, TellEvents
    <3>7. ReportsOK(r)'
      BY <3>5, <3>6, ReportsKept DEF TrackedOK
    <3> QED
      BY <2>1, <3>3, <3>4, <3>7
  <2>2. CASE ~(t # NoTurn /\ turns[r][t] = "live")
    <3>1. UNCHANGED <<turns, feed>>
      BY <1>2, <1>3, <2>2 DEF Interrupt, Interrupts
    <3>2. ReportsOK(r)'
      BY <3>1, ReportsKept DEF TrackedOK
    <3> QED
      BY <2>2, <3>1, <3>2
  <2> QED
    BY <2>1, <2>2
<1>6. ASSUME r \notin contested PROVE Tracked(r)'
  <2>1. Named(r) /\ Apart(r) /\ Instructed(r) /\ Cancelling(r)
    BY <1>1, <1>2, <1>6, BusyRun DEF Busy, At, UnderWay
  <2>2. \A u \in Turns : turns[r][u] = "live" => u = t
    BY <1>1, <1>2, <1>3, <2>1 DEF Cancelling, At
  <2>3. \A u \in Turns : turns'[r][u] # "live"
    BY <1>5, <2>2, TurnBounds
  <2>4. Named(r)'
    BY <2>3 DEF Named
  <2>5. \A d \in Callers : (Busy(d, r)' <=> Busy(d, r)) /\ calls'[d].op = calls[d].op /\ calls'[d].run = calls[d].run
    BY <1>1, <1>2, <1>4 DEF CallMoves, Busy, UnderWay, At
  <2>6. Apart(r)' /\ Instructed(r)'
    BY <1>1, <2>1, <2>5 DEF Apart, Instructed
  <2>7. \A d \in Callers : calls'[d].at = "cancelled" => calls'[d] = calls[d]
    BY <1>4 DEF CallMoves
  <2>8. Cancelling(r)'
    BY <1>1, <2>1, <2>3, <2>5, <2>7 DEF Cancelling
  <2> QED
    BY <2>4, <2>6, <2>8 DEF Tracked
<1>7. Calling(c)'
  BY <1>4 DEF Calling
<1> QED
  BY <1>1, <1>2, <1>4, <1>5, <1>6, <1>7, CallTracked DEF Tracked

LEMMA MarkCancelledTracked ==
  ASSUME AgentOK, TrackedOK, NEW c \in Callers, MarkCancelled(c)
  PROVE  TrackedOK'
<1>1. /\ At(c, "interrupted", "cancel") /\ Calling(c) /\ UNCHANGED <<turns, feed, asked, stream, contested>>
      /\ Go(c, "cancelled")
  BY DEF MarkCancelled, At, Calling
<1>2. PICK r \in Runs : r = calls[c].run
  BY <1>1, RunOfCall
<1>3. RecordMoves(r) /\ registry'[r].turn = NoTurn /\ registry'[r].status = "cancelled"
  BY <1>2, RecordStep DEF MarkCancelled, RegistryStatuses, AgentOK
<1>4. CallMoves(c) /\ calls'[c].at = "cancelled" /\ calls'[c].run = r /\ calls'[c].op = "cancel"
  BY <1>1, <1>2, GoStep DEF AgentOK, At
<1>5. ASSUME r \notin contested PROVE Tracked(r)'
  <2>1. Named(r) /\ Apart(r) /\ Instructed(r) /\ Cancelling(r) /\ Busy(c, r)
    BY <1>1, <1>2, <1>5, BusyRun DEF Busy, At, UnderWay
  <2>2. \A u \in Turns : turns[r][u] # "live"
    BY <1>1, <1>2, <2>1 DEF Cancelling, At
  <2>3. Named(r)'
    BY <1>1, <2>2 DEF Named
  <2>4. \A d \in Callers : Busy(d, r)' => d # c /\ Busy(d, r) /\ calls'[d] = calls[d]
    BY <1>4 DEF Busy, UnderWay, CallMoves
  <2>5. Apart(r)' /\ Instructed(r)'
    <3>1. Apart(r)'
      BY <2>1, <2>4 DEF Apart
    <3>2. Instructed(r)'
      BY <1>3 DEF Instructed
    <3> QED
      BY <3>1, <3>2
  <2>6. \A d \in Callers : Busy(d, r)' => calls'[d].op # "instruct"
    BY <1>1, <2>1, <2>4 DEF Apart, At
  <2>7. Cancelling(r)'
    BY <1>1, <1>3, <1>4, <2>1, <2>2, <2>6 DEF Cancelling, CallMoves
  <2> QED
    BY <2>3, <2>5, <2>7 DEF Tracked
<1>6. ReportsOK(r)'
  BY <1>1, ReportsKept DEF TrackedOK
<1>7. Calling(c)'
  BY <1>4 DEF Calling
<1> QED
  BY <1>1, <1>2, <1>3, <1>4, <1>5, <1>6, <1>7, CallTracked DEF RecordMoves, Tracked

LEMMA CallStepTracked ==
  ASSUME AgentOK, TrackedOK, NEW c \in Callers, CallStep(c)
  PROVE  TrackedOK'
BY StartTurnTracked, SetActiveTurnTracked, AnsweringTracked, InterruptTracked, MarkCancelledTracked DEF CallStep

LEMMA TrackedRests == TrackedOK /\ UNCHANGED agentVars => TrackedOK'
  BY DEF TrackedOK, ReportsOK, Tracked, Unrecorded, Named, Apart, Instructed, Cancelling, Busy, UnderWay, At,
     Calling, agentVars

----------------------------------------------------------------------------
(* The change requests. *)

RequestSteps == {"idle", "repository", "branch", "push", "find", "open", "check", "created", "failed"}
RequestRows == [at : RequestSteps, branch : Branches \cup {"none"}, commit : Commits \cup {NoCommit},
                head : Commits \cup {NoCommit}, draft : BOOLEAN]
SourceOK == SourceTypeOK /\ RequestsOK

RequestMoves(p) ==
  request' \in [Publishers -> RequestRows] /\ \A q \in Publishers : q # p => request'[q] = request[q]

SourceFrame ==
  /\ branch' \in [Branches -> Commits \cup {NoCommit}] /\ pull' \in [Branches -> {"none", "draft", "ready"}]
  /\ archived' \in BOOLEAN

LEMMA SourceTyped ==
  ASSUME SourceTypeOK
  PROVE  /\ request \in [Publishers -> RequestRows] /\ branch \in [Branches -> Commits \cup {NoCommit}]
         /\ pull \in [Branches -> {"none", "draft", "ready"}] /\ archived \in BOOLEAN
         /\ \A p \in Publishers : request[p].at \in RequestSteps
  BY DEF SourceTypeOK, RequestRows, RequestSteps

LEMMA RequestStep ==
  ASSUME SourceTypeOK, NEW p \in Publishers, NEW at \in RequestSteps, Step(p, at)
  PROVE  /\ RequestMoves(p) /\ request'[p].at = at /\ request'[p].branch = request[p].branch
         /\ request'[p].commit = request[p].commit /\ request'[p].head = request[p].head
<1> DEFINE row == [request[p] EXCEPT !.at = at]
<1>1. /\ row \in RequestRows /\ row.at = at /\ row.branch = request[p].branch
      /\ row.commit = request[p].commit /\ row.head = request[p].head
  BY SourceTyped DEF RequestRows
<1>2. request' = [request EXCEPT ![p] = row]
  BY SourceTyped DEF Step
<1> HIDE DEF row
<1> QED
  BY <1>1, <1>2, SourceTyped DEF RequestMoves

LEMMA SeeStep ==
  ASSUME SourceTypeOK, NEW p \in Publishers, request[p].branch \in Branches, See(p, "check")
  PROVE  /\ RequestMoves(p) /\ request'[p].at = "check" /\ request'[p].branch = request[p].branch
         /\ request'[p].commit = request[p].commit
<1> DEFINE seen == branch[request[p].branch]
           draft == pull[request[p].branch] # "ready"
           row == [request[p] EXCEPT !.at = "check", !.head = seen, !.draft = draft]
<1>1. seen \in Commits \cup {NoCommit} /\ draft \in BOOLEAN
  BY SourceTyped
<1>2. request' = [request EXCEPT ![p].at = "check", ![p].head = seen, ![p].draft = draft]
  BY DEF See
<1> HIDE DEF seen, draft
<1>3. /\ row \in RequestRows /\ row.at = "check" /\ row.branch = request[p].branch
      /\ row.commit = request[p].commit
  BY <1>1, SourceTyped DEF RequestRows, RequestSteps
<1>4. request' = [request EXCEPT ![p] = row]
  BY <1>2, SourceTyped
<1> HIDE DEF row
<1> QED
  BY <1>3, <1>4, SourceTyped DEF RequestMoves

LEMMA AskStep ==
  ASSUME SourceTypeOK, NEW p \in Publishers, NEW b \in Branches, NEW c \in Commits, Ask(p, b, c)
  PROVE  /\ RequestMoves(p) /\ request'[p].at = "repository" /\ request'[p].branch = b
         /\ request'[p].commit = c
<1> DEFINE row == [at |-> "repository", branch |-> b, commit |-> c, head |-> NoCommit, draft |-> FALSE]
<1>1. row \in RequestRows /\ row.at = "repository" /\ row.branch = b /\ row.commit = c
  BY DEF RequestRows, RequestSteps
<1>2. request' = [request EXCEPT ![p] = row]
  BY DEF Ask
<1> HIDE DEF row
<1> QED
  BY <1>1, <1>2, SourceTyped DEF RequestMoves

\* What a step of one request has to show.
LEMMA RequestKept ==
  ASSUME SourceOK, NEW p \in Publishers, RequestMoves(p), SourceFrame,
         request'[p].branch \in Branches, request'[p].commit \in Commits,
         request'[p].at = "created" => request'[p].head = request'[p].commit
  PROVE  SourceOK'
<1>1. SourceTypeOK'
  BY DEF SourceTypeOK, SourceFrame, RequestMoves, RequestRows, RequestSteps
<1>2. RequestsOK'
  BY DEF SourceOK, RequestsOK, RequestMoves
<1> QED
  BY <1>1, <1>2 DEF SourceOK

\* A step of a request keeps what it is for, and ends it only at the approved
\* commit.
LEMMA SourceStepOK ==
  ASSUME SourceOK, NEW p \in Publishers, SourceStep(p) \/ SourceFails(p)
  PROVE  SourceOK' /\ \A q \in Publishers : request'[q].commit = request[q].commit
<1>1. request[p].at # "idle" /\ SourceTypeOK
  BY DEF SourceOK, SourceStep, SourceFails, CheckRepository, ReadBranch, CreateBranch, FindPullRequest,
     OpenPullRequest, CheckPullRequest, SourceRefuses
<1>2. request[p].branch \in Branches /\ request[p].commit \in Commits
  BY <1>1 DEF SourceOK, RequestsOK
<1>3. SourceFrame
  BY <1>1, <1>2, SourceTyped
     DEF SourceFrame, SourceStep, SourceFails, CheckRepository, ReadBranch, CreateBranch, FindPullRequest,
     OpenPullRequest, CheckPullRequest, SourceRefuses
<1>4. \/ See(p, "check")
      \/ \E at \in RequestSteps \ {"created"} : Step(p, at)
      \/ AtApprovedHead(p) /\ Step(p, "created")
  <2>1. ASSUME ReadBranch(p) PROVE \E at \in RequestSteps \ {"created"} : Step(p, at)
    BY <2>1 DEF ReadBranch, RequestSteps
  <2>2. ASSUME CheckPullRequest(p)
        PROVE  \/ \E at \in RequestSteps \ {"created"} : Step(p, at)
               \/ AtApprovedHead(p) /\ Step(p, "created")
    BY <2>2 DEF CheckPullRequest, RequestSteps
  <2>3. {"branch", "find", "open", "failed"} \subseteq RequestSteps \ {"created"}
    BY DEF RequestSteps
  <2> QED
    BY <2>1, <2>2, <2>3 DEF SourceStep, SourceFails, CheckRepository, CreateBranch, FindPullRequest,
       OpenPullRequest, SourceRefuses
<1>5. CASE See(p, "check")
  BY <1>1, <1>2, <1>3, <1>5, SeeStep, RequestKept DEF RequestMoves
<1>6. ASSUME NEW at \in RequestSteps \ {"created"}, Step(p, at)
      PROVE  SourceOK' /\ \A q \in Publishers : request'[q].commit = request[q].commit
  BY <1>1, <1>2, <1>3, <1>6, RequestStep, RequestKept DEF RequestMoves
<1>7. CASE AtApprovedHead(p) /\ Step(p, "created")
  BY <1>1, <1>2, <1>3, <1>7, RequestStep, RequestKept DEF RequestMoves, AtApprovedHead, RequestSteps
<1> QED
  BY <1>4, <1>5, <1>6, <1>7

LEMMA OutsideSourceOK ==
  ASSUME SourceOK, (\E b \in Branches : Push(b) \/ OpenOrMark(b)) \/ Archive \/ UNCHANGED sourceVars
  PROVE  SourceOK' /\ request' = request
<1>1. request' = request
  BY DEF Push, OpenOrMark, Archive, sourceVars
<1>2. SourceFrame
  BY SourceTyped DEF SourceOK, SourceFrame, Push, OpenOrMark, Archive, sourceVars
<1> QED
  BY <1>1, <1>2 DEF SourceOK, SourceTypeOK, SourceFrame, RequestsOK

----------------------------------------------------------------------------
(* The rows of the store and of the executions. *)

RunRows == [state : RunStates \cup {Absent}, outcome : ReviewOutcomes, iteration : 0..Cardinality(Runs)]
ExecutionRows == [at : ExecutionSteps, copy : RunStates \cup {Absent}]

ServiceTypeOK ==
  /\ runs \in [Runs -> RunRows]
  /\ version \in [Runs -> {0, EvidenceSaves}]
  /\ checks \in [Runs -> {"none", "passed", "failed"}]
  /\ reviews \in [Runs -> [decision : ReviewOutcomes, snapshot : {0, EvidenceSaves}]]
  /\ publications \subseteq [run : Runs, by : Publishers, head : Commits]
  /\ execution \in [Runs -> ExecutionRows]
  /\ publication \in [Publishers -> [run : Runs \cup {NoRun}, key : Keys \cup {"none"}]]
  /\ claimed \in [Keys -> Runs \cup {NoRun}]
  /\ acked \subseteq Runs

ServiceOK ==
  ServiceTypeOK /\ RunsOK /\ IterationsOK /\ PublicationsOK /\ ActiveLimitHolds

SandboxesOK == SandboxTypeOK /\ SandboxOK

ExecutionInv ==
  /\ TypeOK /\ SandboxOK /\ TurnsOK /\ TrackedOK /\ RunsOK /\ IterationsOK
  /\ RequestsOK /\ PublicationsOK /\ ActiveLimitHolds

LEMMA InvParts ==
  ExecutionInv <=>
    SandboxesOK /\ AgentOK /\ TrackedOK /\ SourceOK /\ ServiceOK /\ faults \in 0..MaxFaults
  BY DEF ExecutionInv, SandboxesOK, AgentOK, SourceOK, ServiceOK, TypeOK, ServiceTypeOK, RunRows, ExecutionRows

LEMMA States ==
  /\ Absent \notin RunStates /\ NoRun \notin Runs
  /\ ActiveRunStates \subseteq RunStates /\ TerminalRunStates \subseteq RunStates
  /\ {"completed", "failed", "cancelled"} \subseteq TerminalRunStates
  /\ TerminalRunStates \cap ActiveRunStates = {}
  /\ CancellableRunStates \subseteq ActiveRunStates \ {"awaiting_review"}
  /\ {"queued", "provisioning", "running", "validating", "awaiting_review", "publishing"} \subseteq ActiveRunStates
  BY NamesAssumption DEF Absent, RunStates, ActiveRunStates, TerminalRunStates, CancellableRunStates, NoRun

RunMoves(r, state) ==
  /\ runs' \in [Runs -> RunRows] /\ runs'[r].state = state /\ runs'[r].iteration = runs[r].iteration
  /\ \A q \in Runs : q # r => runs'[q] = runs[q]

LEMMA SaveStep ==
  ASSUME ServiceTypeOK, NEW r \in Runs, NEW state \in RunStates, NEW outcome \in ReviewOutcomes,
         Save(r, state, outcome)
  PROVE  RunMoves(r, state)
<1> DEFINE row == [runs[r] EXCEPT !.state = state, !.outcome = outcome]
<1>1. row \in RunRows /\ row.state = state /\ row.iteration = runs[r].iteration
  <2>1. runs[r] \in RunRows
    BY DEF ServiceTypeOK
  <2> QED
    BY <2>1 DEF RunRows
<1>2. runs' = [runs EXCEPT ![r] = row]
  BY DEF Save, ServiceTypeOK
<1> HIDE DEF row
<1> QED
  BY <1>1, <1>2 DEF ServiceTypeOK, RunMoves

LEMMA GotoStep ==
  ASSUME ServiceTypeOK, NEW r \in Runs, NEW at \in ExecutionSteps, Goto(r, at)
  PROVE  ExecutionMoves(r, at) /\ runs' = runs
<1> DEFINE row == [execution[r] EXCEPT !.at = at]
<1>1. row \in ExecutionRows /\ row.at = at
  BY DEF ServiceTypeOK, ExecutionRows
<1>2. execution' = [execution EXCEPT ![r] = row]
  BY DEF Goto, ServiceTypeOK
<1> HIDE DEF row
<1> QED
  BY <1>1, <1>2 DEF ServiceTypeOK, ExecutionMoves, ExecutionRows, Goto

LEMMA MoveStep ==
  ASSUME ServiceTypeOK, NEW r \in Runs, NEW state \in RunStates, NEW at \in ExecutionSteps,
         MoveTo(r, state, at)
  PROVE  ExecutionMoves(r, at) /\ RunMoves(r, state)
<1> DEFINE row == [at |-> at, copy |-> state]
<1>1. row \in ExecutionRows /\ row.at = at
  BY DEF ExecutionRows
<1>2. execution' = [execution EXCEPT ![r] = row]
  BY DEF MoveTo
<1> HIDE DEF row
<1>3. ExecutionMoves(r, at)
  BY <1>1, <1>2 DEF ServiceTypeOK, ExecutionMoves, ExecutionRows
<1>4. "none" \in ReviewOutcomes
  BY DEF ReviewOutcomes
<1> QED
  BY <1>3, <1>4, SaveStep DEF MoveTo

----------------------------------------------------------------------------
(* The sandboxes. *)

LEMMA SandboxRows ==
  ASSUME SandboxTypeOK, NEW r \in Runs,
         Create(r) \/ CreateFails(r) \/ Stop(r) \/ Expire(r) \/ Destroy(r) \/ DestroyFails(r) \/ UNCHANGED sandboxVars
  PROVE  /\ SandboxTypeOK'
         /\ \A q \in Runs : q # r => machine'[q] = machine[q] /\ record'[q] = record[q] /\ kept'[q] = kept[q]
<1>1. r \in Sandboxes /\ Runs \subseteq Sandboxes
  BY NamesAssumption
<1>2. SandboxTypeOK'
  BY <1>1 DEF SandboxTypeOK, Machines, Reasons, Create, CreateFails, Stop, Expire, Destroy, DestroyFails, sandboxVars
<1>4. \A q \in Runs : q # r => machine'[q] = machine[q] /\ record'[q] = record[q] /\ kept'[q] = kept[q]
  BY <1>1 DEF SandboxTypeOK, Create, CreateFails, Stop, Expire, Destroy, DestroyFails, sandboxVars
<1> QED
  BY <1>2, <1>4

\* What a step of the execution of one run has to show.
LEMMA SandboxKept ==
  ASSUME SandboxesOK, NEW r \in Runs,
         Create(r) \/ CreateFails(r) \/ Stop(r) \/ Expire(r) \/ Destroy(r) \/ DestroyFails(r) \/ UNCHANGED sandboxVars,
         \A q \in Runs : q # r => execution'[q].at = execution[q].at,
         execution'[r].at \in {"idle", "create"} => record'[r] = "none" /\ machine'[r] = "absent",
         execution'[r].at \in {"start", "open", "read", "validate", "destroy", "catch"} =>
           record'[r] # "none" \/ (execution'[r].at = "catch" /\ machine'[r] = "deleted"),
         execution'[r].at = "ended" /\ machine'[r] \in {"running", "stopped"} => Excused(r)'
  PROVE  SandboxesOK'
<1>1. /\ SandboxTypeOK'
      /\ \A q \in Runs : q # r => machine'[q] = machine[q] /\ record'[q] = record[q] /\ kept'[q] = kept[q]
  BY SandboxRows DEF SandboxesOK
<1>2. SandboxOK'
  BY <1>1 DEF SandboxesOK, SandboxOK, Lives, Excused
<1> QED
  BY <1>1, <1>2 DEF SandboxesOK

LEMMA SandboxTyped ==
  ASSUME SandboxTypeOK, NEW r \in Runs
  PROVE  /\ \A m : machine' = [machine EXCEPT ![r] = m] => machine'[r] = m
         /\ \A s : record' = [record EXCEPT ![r] = s] => record'[r] = s
         /\ \A k : kept' = [kept EXCEPT ![r] = k] => kept'[r] = k
         /\ record[r] \in {"none", "running", "stopped"}
  BY NamesAssumption DEF SandboxTypeOK

LEMMA OutsideSandboxOK ==
  ASSUME SandboxesOK, UNCHANGED execution, NEW r \in Runs, Expire(r) \/ Stop(r)
  PROVE  SandboxesOK'
<1>1. machine[r] \in {"running", "stopped"} /\ (record'[r] = "none" <=> record[r] = "none")
  BY SandboxTyped DEF SandboxesOK, Expire, Stop, Lives
<1>2. execution[r].at \notin {"idle", "create"} /\ (execution[r].at = "ended" => Excused(r))
  BY <1>1 DEF SandboxesOK, SandboxOK, Lives
<1>3. kept' = kept /\ (execution[r].at \in {"start", "open", "read", "validate", "destroy", "catch"} => record[r] # "none")
  BY <1>1 DEF SandboxesOK, SandboxOK, Expire, Stop
<1>4. Excused(r) => Excused(r)'
  BY <1>1, <1>3 DEF Excused
<1> QED
  BY <1>1, <1>2, <1>3, <1>4, SandboxKept

----------------------------------------------------------------------------
(* What a step of an execution does to its run.  It never goes back to be   *)
(* unchecked, and leads an active run only from a step that led one.        *)

Leading == {"create", "start", "open", "read", "validate"}
Late == {"destroy", "catch", "ended"}

Advances(r, at) ==
  /\ at \in Leading \cup Late
  /\ execution[r].at \in Late => at \in Late
  /\ at \in {"create", "start"} => execution[r].at \in {"idle", "create"}
  /\ at \in Leading => execution[r].at \in Leading \/ runs[r].state = "queued"

\* The run itself is left as it is, is moved on, or awaits its review.
Moves(r) ==
  \/ UNCHANGED <<execution, runs, version, checks>>
  \/ \E at \in Leading \cup Late :
       /\ execution[r].at # "idle" /\ Advances(r, at) /\ ExecutionMoves(r, at)
       /\ UNCHANGED <<runs, version, checks>>
  \/ \E at \in Leading \cup {"ended"}, state \in RunStates \ {"queued", "awaiting_review"} :
       /\ Advances(r, at) /\ ExecutionMoves(r, at) /\ RunMoves(r, state)
       /\ state \in ActiveRunStates <=> at \in Leading
       /\ UNCHANGED <<version, checks>>
  \/ /\ execution[r].at = "validate" /\ ExecutionMoves(r, "destroy")
     /\ RunMoves(r, "awaiting_review")
     /\ \E found \in {"passed", "failed"} : checks' = [checks EXCEPT ![r] = found]
     /\ version' = [version EXCEPT ![r] = version[r] + EvidenceSaves]

Started(r) == BeginExecution(r) \/ ExecutionStep(r) \/ ExecutionFault(r)

LEMMA ExecutionMovesRun ==
  ASSUME ServiceTypeOK, RunsOK, NEW r \in Runs, Started(r)
  PROVE  Moves(r) /\ Others
<1> USE DEF Leading, Late
<1>1. /\ ExecutionSteps = {"idle"} \cup Leading \cup Late
      /\ {"provisioning", "running", "validating"} \subseteq ActiveRunStates
      /\ ActiveRunStates \subseteq RunStates /\ "failed" \in RunStates \ ActiveRunStates
      /\ "queued" # "failed" /\ "awaiting_review" \in RunStates
  BY States DEF ExecutionSteps, RunStates, ActiveRunStates, TerminalRunStates
<1>2. Others
  BY DEF Started, BeginExecution, ExecutionStep, ExecutionFault, CreateSandbox, CreateSandboxFails,
     StartCodingAgent, StartCodingAgentFails, OpenAgentStream, ReadAgentEvent, AgentStreamRefuses,
     AgentStreamLost, AgentStreamEnds, Validate, ValidateRefused, ValidateFails, DestroySandbox,
     DestroySandboxFails, Catch, CatchCannotDestroy, CatchFindsNothing
<1>3. ASSUME NEW at \in Leading \cup Late, execution[r].at # "idle", Goto(r, at), Advances(r, at), Gathered
      PROVE  Moves(r)
  BY <1>1, <1>3, GotoStep DEF Moves, Gathered
<1>4. ASSUME NEW at \in Leading \cup {"ended"}, NEW state \in RunStates \ {"queued", "awaiting_review"},
             MoveTo(r, state, at), Advances(r, at), state \in ActiveRunStates <=> at \in Leading, Gathered
      PROVE  Moves(r)
  BY <1>1, <1>4, MoveStep DEF Moves, Gathered
<1>5. CASE BeginExecution(r)
  <2>1. execution[r].at = "idle"
    BY <1>5 DEF BeginExecution, Executable, RunsOK
  <2> QED
    BY <1>1, <1>4, <1>5, <2>1 DEF BeginExecution, Executable, Advances
<1>6. CASE CreateSandbox(r)
  BY <1>1, <1>4, <1>6 DEF CreateSandbox, Executing, Advances
<1>7. CASE CreateSandboxFails(r)
  BY <1>1, <1>4, <1>7 DEF CreateSandboxFails, Executing, Advances
<1>8. CASE StartCodingAgent(r) \/ StartCodingAgentFails(r)
  BY <1>3, <1>8 DEF StartCodingAgent, StartCodingAgentFails, Executing, Advances
<1>9. CASE OpenAgentStream(r)
  BY <1>3, <1>9 DEF OpenAgentStream, Executing, Advances
<1>10. CASE ReadAgentEvent(r)
  BY <1>10 DEF ReadAgentEvent, Moves, Gathered
<1>11. CASE AgentStreamRefuses(r) \/ AgentStreamLost(r)
  BY <1>3, <1>11 DEF AgentStreamRefuses, AgentStreamLost, Executing, Advances
<1>12. CASE AgentStreamEnds(r)
  BY <1>1, <1>4, <1>12 DEF AgentStreamEnds, Executing, Advances
<1>13. CASE Validate(r)
  BY <1>1, <1>13, MoveStep DEF Validate, Executing, Moves
<1>14. CASE ValidateRefused(r) \/ ValidateFails(r)
  BY <1>3, <1>14 DEF ValidateRefused, ValidateFails, Executing, Advances
<1>15. CASE DestroySandbox(r) \/ DestroySandboxFails(r)
  BY <1>3, <1>15 DEF DestroySandbox, DestroySandboxFails, Executing, Advances
<1>16. CASE Catch(r) \/ CatchCannotDestroy(r) \/ CatchFindsNothing(r)
  BY <1>1, <1>4, <1>16 DEF Catch, CatchCannotDestroy, CatchFindsNothing, Executing, Advances
<1> QED
  BY <1>2, <1>5, <1>6, <1>7, <1>8, <1>9, <1>10, <1>11, <1>12, <1>13, <1>14, <1>15, <1>16
     DEF Started, ExecutionStep, ExecutionFault

\* The sandbox of the execution is there as long as it is used.
LEMMA ExecutionSandbox ==
  ASSUME SandboxesOK, ServiceTypeOK, RunsOK, NEW r \in Runs, Started(r)
  PROVE  SandboxesOK'
<1> DEFINE used == {"start", "open", "read", "validate", "destroy", "catch"}
<1>1. \A q \in Runs : q # r => execution'[q].at = execution[q].at
  BY ExecutionMovesRun DEF Moves, ExecutionMoves
<1>2. /\ execution[r].at \in {"idle", "create"} => record[r] = "none" /\ machine[r] = "absent"
      /\ execution[r].at \in used =>
           record[r] # "none" \/ (execution[r].at = "catch" /\ machine[r] = "deleted")
  BY DEF SandboxesOK, SandboxOK
<1>3. \A at \in ExecutionSteps : Goto(r, at) => execution'[r].at = at
  BY GotoStep DEF ExecutionMoves
<1>4. \A at \in ExecutionSteps, state \in RunStates : MoveTo(r, state, at) => execution'[r].at = at
  BY MoveStep DEF ExecutionMoves
<1>5. {"provisioning", "running", "validating", "awaiting_review", "failed"} \subseteq RunStates
  BY DEF RunStates, ActiveRunStates, TerminalRunStates
<1> USE DEF ExecutionSteps, Executing
<1>6. CASE BeginExecution(r)
  <2>1. execution[r].at = "idle" /\ UNCHANGED sandboxVars
    BY <1>6 DEF BeginExecution, Executable, RunsOK
  <2>2. execution'[r].at = "create"
    BY <1>4, <1>5, <1>6 DEF BeginExecution
  <2> QED
    BY <1>1, <1>2, <2>1, <2>2, SandboxKept DEF sandboxVars
<1>7. CASE CreateSandbox(r)
  <2>1. execution'[r].at = "start" /\ Create(r)
    BY <1>4, <1>5, <1>7 DEF CreateSandbox
  <2>2. record'[r] = "running"
    BY <2>1, SandboxTyped DEF SandboxesOK, Create
  <2> QED
    BY <1>1, <2>1, <2>2, SandboxKept
<1>8. CASE CreateSandboxFails(r)
  <2>1. execution'[r].at = "ended" /\ execution[r].at = "create" /\ (PolicyRefuses \/ CreateFails(r))
    BY <1>4, <1>5, <1>8 DEF CreateSandboxFails
  <2>2. machine'[r] \in {"running", "stopped"} => Excused(r)'
    BY <1>2, <2>1, SandboxTyped DEF SandboxesOK, PolicyRefuses, CreateFails, sandboxVars, Excused
  <2> QED
    BY <1>1, <2>1, <2>2, SandboxKept DEF PolicyRefuses
<1>9. CASE /\ execution[r].at \in used /\ UNCHANGED sandboxVars
           /\ \/ UNCHANGED execution
              \/ \E at \in used : execution'[r].at = at /\ execution[r].at # "catch"
  BY <1>1, <1>2, <1>9, SandboxKept DEF sandboxVars
<1>10. CASE DestroySandbox(r) \/ Catch(r)
  <2>1. execution'[r].at = "ended" /\ Destroy(r)
    BY <1>3, <1>4, <1>5, <1>10 DEF DestroySandbox, Catch, Release
  <2>2. machine'[r] = "deleted"
    BY <2>1, SandboxTyped DEF SandboxesOK, Destroy
  <2> QED
    BY <1>1, <2>1, <2>2, SandboxKept
<1>11. CASE DestroySandboxFails(r)
  <2>1. execution'[r].at = "catch" /\ DestroyFails(r) /\ record[r] # "none"
    BY <1>2, <1>3, <1>11 DEF DestroySandboxFails
  <2>2. record'[r] # "none" \/ machine'[r] = "deleted"
    BY <2>1, SandboxTyped DEF DestroyFails, SandboxesOK
  <2> QED
    BY <1>1, <2>1, <2>2, SandboxKept
<1>12. CASE CatchCannotDestroy(r)
  <2>1. execution'[r].at = "ended" /\ execution[r].at = "catch" /\ DestroyFails(r)
    BY <1>4, <1>5, <1>12 DEF CatchCannotDestroy
  <2>2. machine'[r] \in {"running", "stopped"} => Excused(r)'
    BY <1>2, <2>1, SandboxTyped DEF SandboxesOK, DestroyFails, Excused
  <2> QED
    BY <1>1, <2>1, <2>2, SandboxKept
<1>15. CASE CatchFindsNothing(r)
  <2>1. /\ execution'[r].at = "ended" /\ execution[r].at = "catch"
        /\ record[r] = "none" /\ UNCHANGED sandboxVars
    BY <1>4, <1>5, <1>15 DEF CatchFindsNothing, DestroyFindsNothing
  <2> QED
    BY <1>1, <1>2, <2>1, SandboxKept DEF sandboxVars
<1>13. CASE \/ StartCodingAgent(r) \/ StartCodingAgentFails(r) \/ OpenAgentStream(r) \/ ReadAgentEvent(r)
            \/ AgentStreamRefuses(r) \/ AgentStreamLost(r) \/ AgentStreamEnds(r)
            \/ ValidateRefused(r) \/ ValidateFails(r)
  BY <1>3, <1>4, <1>5, <1>9, <1>13 DEF StartCodingAgent, StartCodingAgentFails, OpenAgentStream,
     ReadAgentEvent, AgentStreamRefuses, AgentStreamLost, AgentStreamEnds, ValidateRefused, ValidateFails
<1>14. CASE Validate(r)
  BY <1>4, <1>5, <1>9, <1>14 DEF Validate
<1> QED
  BY <1>6, <1>7, <1>8, <1>10, <1>11, <1>12, <1>13, <1>14, <1>15 DEF Started, ExecutionStep, ExecutionFault

----------------------------------------------------------------------------
(* The store. *)

LEMMA Counts ==
  ASSUME NEW S \in SUBSET Runs, NEW T \in SUBSET S
  PROVE  /\ IsFiniteSet(S) /\ Cardinality(S) \in Nat /\ Cardinality(S) <= Cardinality(Runs)
         /\ Cardinality(T) <= Cardinality(S) /\ Cardinality(T) \in Nat /\ Cardinality(Runs) \in Nat
<1>1. IsFiniteSet(S) /\ Cardinality(S) <= Cardinality(Runs)
  BY NamesAssumption, FS_Subset
<1>2. IsFiniteSet(T) /\ Cardinality(T) <= Cardinality(S)
  BY <1>1, FS_Subset
<1> QED
  BY <1>1, <1>2, NamesAssumption, FS_CardinalityType

LEMMA IterationsKept ==
  ASSUME ServiceOK, runs' \in [Runs -> RunRows], Existing \subseteq Existing',
         \A r \in Runs : runs'[r].iteration = runs[r].iteration
  PROVE  IterationsOK'
<1>1. /\ Existing' \in SUBSET Runs /\ Existing \in SUBSET Existing'
  BY DEF Existing
<1>2. /\ Cardinality(Existing) <= Cardinality(Existing') /\ Cardinality(Existing) \in Nat
      /\ Cardinality(Existing') \in Nat
  BY <1>1, Counts
<1>3. \A r \in Runs : runs[r].iteration \in Nat
  <2>1. Cardinality(Runs) \in Nat
    BY NamesAssumption, FS_CardinalityType
  <2> QED
    BY <2>1 DEF ServiceOK, ServiceTypeOK, RunRows
<1>4. Cardinality(Existing)' = Cardinality(Existing')
  OBVIOUS
<1> QED
  BY <1>2, <1>3, <1>4 DEF ServiceOK, IterationsOK

LEMMA LimitKept ==
  ASSUME ActiveLimitHolds, ActiveRuns' \ acked' \subseteq ActiveRuns \ acked
  PROVE  ActiveLimitHolds'
<1> DEFINE before == ActiveRuns \ acked
           after == ActiveRuns' \ acked'
<1>1. before \in SUBSET Runs /\ after \in SUBSET before
  BY DEF ActiveRuns
<1>2. Cardinality(before) <= ActiveRunLimit
  BY DEF ActiveLimitHolds
<1>3. (ActiveRuns \ acked)' = after
  OBVIOUS
<1> HIDE DEF before, after
<1>4. Cardinality(after) <= Cardinality(before) /\ Cardinality(after) \in Nat /\ Cardinality(before) \in Nat
  BY <1>1, Counts
<1>5. Cardinality(after) <= ActiveRunLimit
  BY <1>2, <1>4, LimitAssumption
<1> QED
  BY <1>3, <1>5 DEF ActiveLimitHolds

\* A run that is saved under another state.
LEMMA SavedRun ==
  ASSUME ServiceOK, NEW r \in Runs, NEW state \in RunStates, RunMoves(r, state), acked \subseteq acked',
         state \in ActiveRunStates => runs[r].state \in ActiveRunStates \/ r \in acked
  PROVE  IterationsOK' /\ ActiveLimitHolds'
<1>1. Existing \subseteq Existing'
  BY States DEF RunMoves, Existing
<1>2. ActiveRuns' \ acked' \subseteq ActiveRuns \ acked
  BY DEF RunMoves, ActiveRuns
<1> QED
  BY <1>1, <1>2, IterationsKept, LimitKept DEF RunMoves, ServiceOK

LEMMA UnsavedRuns ==
  ASSUME ServiceOK, UNCHANGED runs, acked \subseteq acked'
  PROVE  IterationsOK' /\ ActiveLimitHolds'
<1>1. ActiveRuns' \ acked' \subseteq ActiveRuns \ acked /\ Existing' = Existing
  BY DEF ActiveRuns, Existing
<1> QED
  BY <1>1, IterationsKept, LimitKept DEF ServiceOK, ServiceTypeOK

LEMMA PublicationTyped ==
  ASSUME ServiceTypeOK
  PROVE  /\ \A p \in Publishers : publication[p].run \in Runs \cup {NoRun}
         /\ \A x \in publications : x.run \in Runs
  BY DEF ServiceTypeOK

LEMMA PublicationsKept ==
  ASSUME ServiceOK, UNCHANGED <<publication, publications>>,
         \A r \in Runs : Approved(r) => Approved(r)',
         \A p \in Publishers : request'[p].commit = request[p].commit
  PROVE  PublicationsOK'
<1>1. ASSUME NEW p \in Publishers, Publishing(p)
      PROVE  /\ Approved(publication[p].run)' /\ request'[p].commit = publication'[p].run
             /\ \A q \in Publishers : publication'[q].run = publication'[p].run => q = p
  <2>1. PICK r \in Runs : r = publication[p].run
    BY <1>1, PublicationTyped DEF Publishing, ServiceOK
  <2>2. Approved(r)'
    BY <1>1, <2>1 DEF ServiceOK, PublicationsOK
  <2>3. Approved(publication[p].run)'
    BY <2>1, <2>2
  <2> QED
    BY <1>1, <2>3 DEF ServiceOK, PublicationsOK
<1>2. ASSUME NEW x \in publications
      PROVE  /\ Approved(x.run)' /\ x.head = x.run
             /\ \A p \in Publishers : publication'[p].run # x.run
             /\ \A y \in publications : y.run = x.run => y = x
  <2>1. PICK r \in Runs : r = x.run
    BY PublicationTyped DEF ServiceOK
  <2>2. Approved(r)'
    BY <2>1 DEF ServiceOK, PublicationsOK
  <2>3. Approved(x.run)'
    BY <2>1, <2>2
  <2> QED
    BY <2>3 DEF ServiceOK, PublicationsOK
<1>3. \A p \in Publishers : Publishing(p)' <=> Publishing(p)
  BY DEF Publishing
<1> QED
  BY <1>1, <1>2, <1>3 DEF PublicationsOK

\* An execution touches neither a review nor an approved run's evidence.
LEMMA ExecutionServices ==
  ASSUME ServiceOK, NEW r \in Runs, Moves(r), Others
  PROVE  ServiceOK'
<1>1. /\ UNCHANGED <<reviews, publications, publication, claimed, acked>> /\ request' = request
  BY DEF Others, sourceVars
<1>2. ServiceTypeOK /\ RunsOK /\ Absent \notin RunStates
  BY States DEF ServiceOK
<1>3. CASE UNCHANGED <<execution, runs, version, checks>>
  <2>1. ServiceTypeOK' /\ RunsOK'
    BY <1>1, <1>2, <1>3 DEF ServiceTypeOK, RunsOK, Unchecked
  <2>2. \A q \in Runs : Approved(q) => Approved(q)'
    BY <1>1, <1>3 DEF Approved
  <2> QED
    BY <1>1, <1>3, <2>1, <2>2, UnsavedRuns, PublicationsKept DEF ServiceOK
<1>4. ASSUME NEW at \in Leading \cup Late, execution[r].at # "idle", Advances(r, at), ExecutionMoves(r, at),
             UNCHANGED <<runs, version, checks>>
      PROVE  ServiceOK'
  <2>1. ServiceTypeOK'
    BY <1>1, <1>2, <1>4 DEF ServiceTypeOK, ExecutionMoves, ExecutionRows
  <2>2. RunsOK'
    <3>1. runs[r].state \notin {Absent, "queued"}
      BY <1>2, <1>4 DEF RunsOK
    <3>2. at \in Leading => (runs[r].state \in ActiveRunStates \/ r \in acked) /\ Unchecked(r)
      BY <1>2, <1>4, <3>1 DEF Advances, RunsOK, Leading, Unchecked
    <3> QED
      BY <1>1, <1>2, <1>4, <3>1, <3>2 DEF RunsOK, ExecutionMoves, Leading, Late, Unchecked
  <2>3. \A q \in Runs : Approved(q) => Approved(q)'
    BY <1>1, <1>4 DEF Approved
  <2> QED
    BY <1>1, <1>4, <2>1, <2>2, <2>3, UnsavedRuns, PublicationsKept DEF ServiceOK
<1>5. ASSUME NEW at \in Leading \cup {"ended"}, NEW state \in RunStates \ {"queued", "awaiting_review"},
             Advances(r, at), ExecutionMoves(r, at), RunMoves(r, state),
             state \in ActiveRunStates <=> at \in Leading, UNCHANGED <<version, checks>>
      PROVE  ServiceOK'
  <2>1. ServiceTypeOK'
    BY <1>1, <1>2, <1>5 DEF ServiceTypeOK, ExecutionMoves, ExecutionRows, RunMoves
  <2>2. at \in Leading => (runs[r].state \in ActiveRunStates \/ r \in acked) /\ Unchecked(r)
    <3>1. runs[r].state = "queued" => runs[r].state \in ActiveRunStates /\ execution[r].at = "idle"
      BY <1>2, States DEF RunsOK
    <3> QED
      BY <1>2, <1>5, <3>1 DEF Advances, RunsOK, Leading, Unchecked
  <2>3. RunsOK'
    BY <1>1, <1>2, <1>5, <2>2 DEF RunsOK, ExecutionMoves, RunMoves, Leading, Unchecked
  <2>4. \A q \in Runs : Approved(q) => Approved(q)'
    BY <1>1, <1>5 DEF Approved, RunMoves
  <2> QED
    BY <1>1, <1>5, <2>1, <2>2, <2>3, <2>4, SavedRun, PublicationsKept DEF ServiceOK
<1>6. ASSUME execution[r].at = "validate", ExecutionMoves(r, "destroy"), RunMoves(r, "awaiting_review"),
             NEW found \in {"passed", "failed"}, checks' = [checks EXCEPT ![r] = found],
             version' = [version EXCEPT ![r] = version[r] + EvidenceSaves]
      PROVE  ServiceOK'
  <2>1. checks[r] = "none" /\ version[r] = 0 /\ (runs[r].state \in ActiveRunStates \/ r \in acked)
    BY <1>2, <1>6 DEF RunsOK, Unchecked
  <2>2. version' \in [Runs -> {0, EvidenceSaves}] /\ \A q \in Runs : q # r => version'[q] = version[q]
    BY <1>2, <1>6, <2>1 DEF ServiceTypeOK, EvidenceSaves
  <2>3. /\ checks' \in [Runs -> {"none", "passed", "failed"}] /\ checks'[r] # "none"
        /\ \A q \in Runs : q # r => checks'[q] = checks[q]
    BY <1>2, <1>6 DEF ServiceTypeOK
  <2>4. ServiceTypeOK'
    BY <1>1, <1>2, <1>6, <2>2, <2>3 DEF ServiceTypeOK, ExecutionMoves, ExecutionRows, RunMoves
  <2>5. RunsOK'
    BY <1>1, <1>2, <1>6, <2>2, <2>3 DEF RunsOK, ExecutionMoves, RunMoves, Unchecked, Absent
  <2>6. \A q \in Runs : Approved(q) => Approved(q)'
    BY <1>1, <1>6, <2>1, <2>2, <2>3 DEF Approved, RunMoves
  <2>7. "awaiting_review" \in RunStates
    BY DEF RunStates, ActiveRunStates
  <2> QED
    BY <1>1, <1>6, <2>1, <2>4, <2>5, <2>6, <2>7, SavedRun, PublicationsKept DEF ServiceOK
<1> QED
  BY <1>3, <1>4, <1>5, <1>6 DEF Moves

\* A run is admitted below the limit, and its row is new.
LEMMA InsertOK ==
  ASSUME ServiceOK, NEW r \in Runs, NEW n \in 1..Cardinality(Existing) + 1,
         runs[r].state = Absent, Admits, Insert(r, n), Idempotent, UNCHANGED <<reviews, acked, request>>
  PROVE  ServiceOK'
<1> DEFINE row == [state |-> "queued", outcome |-> "none", iteration |-> n]
<1>1. ServiceTypeOK /\ RunsOK /\ Absent \notin RunStates /\ "queued" \in ActiveRunStates /\ "queued" \in RunStates
  BY States DEF ServiceOK
<1>2. Existing \in SUBSET Runs /\ Existing \cup {r} \in SUBSET Runs /\ r \notin Existing
  BY DEF Existing
<1>3. /\ IsFiniteSet(Existing) /\ Cardinality(Existing) \in Nat /\ Cardinality(Existing \cup {r}) <= Cardinality(Runs)
      /\ Cardinality(Runs) \in Nat
  BY <1>2, Counts
<1>4. Cardinality(Existing \cup {r}) = Cardinality(Existing) + 1
  BY <1>2, <1>3, FS_AddElement
<1>5. row \in RunRows /\ row.state = "queued" /\ row.iteration = n
  <2>1. n \in 0..Cardinality(Runs)
    BY <1>3, <1>4
  <2> QED
    BY <1>1, <2>1 DEF RunRows, ReviewOutcomes
<1>6. runs' = [runs EXCEPT ![r] = row]
  BY DEF Insert
<1> HIDE DEF row
<1>7. /\ runs' \in [Runs -> RunRows] /\ runs'[r].state = "queued" /\ runs'[r].iteration = n
      /\ \A q \in Runs : q # r => runs'[q] = runs[q]
  BY <1>1, <1>5, <1>6 DEF ServiceTypeOK
<1>8. UNCHANGED <<version, checks, publications, execution, publication, claimed, reviews, acked>>
  BY DEF Idempotent
<1>9. ServiceTypeOK'
  BY <1>1, <1>7, <1>8 DEF ServiceTypeOK
<1>10. execution[r].at = "idle" /\ checks[r] = "none"
  BY <1>1 DEF RunsOK, Unchecked
<1>11. RunsOK'
  BY <1>1, <1>7, <1>8, <1>10 DEF RunsOK, Unchecked
<1>12. IterationsOK'
  <2>1. Existing' = Existing \cup {r}
    BY <1>1, <1>7 DEF Existing, Absent
  <2>2. Cardinality(Existing)' = Cardinality(Existing) + 1
    BY <1>4, <2>1
  <2>3. \A q \in Runs : runs[q].iteration \in Nat /\ runs[q].iteration <= Cardinality(Existing)
    BY <1>1, <1>3 DEF ServiceTypeOK, RunRows, ServiceOK, IterationsOK
  <2> QED
    BY <1>3, <1>7, <2>2, <2>3 DEF IterationsOK
<1>13. ActiveLimitHolds'
  <2>1. ActiveRuns \in SUBSET Runs /\ ActiveRuns \cup {r} \in SUBSET Runs /\ ActiveRuns' \ acked' \subseteq ActiveRuns \cup {r}
    BY <1>7 DEF ActiveRuns
  <2>2. IsFiniteSet(ActiveRuns) /\ Cardinality(ActiveRuns) \in Nat
    BY <2>1, Counts
  <2>3. Cardinality(ActiveRuns) < ActiveRunLimit
    BY DEF Admits, Admitted
  <2>4. Cardinality(ActiveRuns \cup {r}) <= ActiveRunLimit /\ Cardinality(ActiveRuns \cup {r}) \in Nat
    BY <2>2, <2>3, FS_AddElement, LimitAssumption
  <2> DEFINE after == ActiveRuns' \ acked'
  <2>5. (ActiveRuns \ acked)' = after /\ after \in SUBSET (ActiveRuns \cup {r})
    BY <2>1
  <2> HIDE DEF after
  <2>6. Cardinality(after) <= Cardinality(ActiveRuns \cup {r}) /\ Cardinality(after) \in Nat
    BY <2>1, <2>5, Counts
  <2>7. Cardinality(after) <= ActiveRunLimit
    BY <2>4, <2>6, LimitAssumption
  <2> QED
    BY <2>5, <2>7 DEF ActiveLimitHolds
<1>14. PublicationsOK'
  <2>1. \A q \in Runs : Approved(q) => Approved(q)'
    BY <1>7, <1>8, <1>10 DEF Approved
  <2> QED
    BY <1>8, <2>1, PublicationsKept
<1> QED
  BY <1>9, <1>11, <1>12, <1>13, <1>14 DEF ServiceOK

LEMMA StartRunOK ==
  ASSUME ServiceOK, NEW r \in Runs, StartRun(r)
  PROVE  ServiceOK'
<1>1. Existing \in SUBSET Runs
  BY DEF Existing
<1>2. Cardinality(Existing) + 1 \in 1..Cardinality(Existing) + 1
  BY <1>1, Counts
<1> QED
  BY <1>2, InsertOK DEF StartRun, Providers, sourceVars

LEMMA NextIterationOK ==
  ASSUME ServiceOK, NEW r \in Runs, NEW next \in Runs, CreateNextIteration(r, next)
  PROVE  ServiceOK'
<1>1. Existing \in SUBSET Runs
  BY DEF Existing
<1>2. Cardinality(Existing) \in Nat /\ Cardinality(Runs) \in Nat
  BY <1>1, Counts
<1>3. runs[r].iteration + 1 \in 1..Cardinality(Existing) + 1
  BY <1>2 DEF ServiceOK, IterationsOK, ServiceTypeOK, RunRows
<1> QED
  BY <1>3, InsertOK DEF CreateNextIteration, Providers, sourceVars

LEMMA CancelRunOK ==
  ASSUME ServiceOK, NEW r \in Runs, CancelRun(r)
  PROVE  ServiceOK'
<1>1. ServiceTypeOK /\ RunsOK /\ Absent \notin RunStates /\ "cancelled" \in RunStates \ ActiveRunStates
  BY States DEF ServiceOK
<1>2. RunMoves(r, "cancelled") /\ runs[r].state # "awaiting_review"
  <2>1. runs[r].outcome \in ReviewOutcomes
    BY <1>1 DEF ServiceTypeOK, RunRows
  <2> QED
    BY <1>1, <2>1, SaveStep, States DEF CancelRun
<1>3. /\ acked' = acked \cup {r} /\ request' = request
      /\ UNCHANGED <<version, checks, publications, execution, publication, claimed, reviews>>
  BY DEF CancelRun, Idempotent, Providers, sourceVars
<1>4. ServiceTypeOK'
  BY <1>1, <1>2, <1>3 DEF ServiceTypeOK, RunMoves
<1>5. RunsOK'
  BY <1>1, <1>2, <1>3 DEF RunsOK, RunMoves, Unchecked
<1>6. \A q \in Runs : Approved(q) => Approved(q)'
  BY <1>2, <1>3 DEF Approved, RunMoves
<1> QED
  BY <1>1, <1>2, <1>3, <1>4, <1>5, <1>6, SavedRun, PublicationsKept DEF ServiceOK

\* Only a run that awaits review is decided on, and it has not been before.
LEMMA ResolveReviewOK ==
  ASSUME ServiceOK, NEW r \in Runs, NEW decision \in {"approved", "rejected", "cancelled"},
         ResolveReview(r, decision)
  PROVE  ServiceOK'
<1>1. ServiceTypeOK /\ RunsOK /\ Absent \notin RunStates /\ "completed" \in RunStates \ ActiveRunStates
  BY States DEF ServiceOK
<1>2. runs[r].state = "awaiting_review" /\ checks[r] # "none" /\ decision \in ReviewOutcomes
  BY <1>1 DEF ResolveReview, Reviewable, RunsOK, ReviewOutcomes
<1>3. /\ UNCHANGED <<version, checks, publications, execution, publication, claimed, acked>> /\ request' = request
  BY DEF ResolveReview, Idempotent, Providers, sourceVars
<1>4. /\ reviews' \in [Runs -> [decision : ReviewOutcomes, snapshot : {0, EvidenceSaves}]]
      /\ \A q \in Runs : q # r => reviews'[q] = reviews[q]
  <2> DEFINE row == [decision |-> decision, snapshot |-> version[r]]
  <2>1. row \in [decision : ReviewOutcomes, snapshot : {0, EvidenceSaves}]
    BY <1>1, <1>2 DEF ServiceTypeOK
  <2>2. reviews' = [reviews EXCEPT ![r] = row]
    BY DEF ResolveReview
  <2> HIDE DEF row
  <2> QED
    BY <1>1, <2>1, <2>2 DEF ServiceTypeOK
<1>5. UNCHANGED runs \/ RunMoves(r, "completed")
  BY <1>1, <1>2, SaveStep DEF ResolveReview
<1>6. ServiceTypeOK'
  BY <1>1, <1>3, <1>4, <1>5 DEF ServiceTypeOK, RunMoves
<1>7. RunsOK'
  BY <1>1, <1>2, <1>3, <1>4, <1>5 DEF RunsOK, RunMoves, Unchecked
<1>8. \A q \in Runs : Approved(q) => Approved(q)'
  BY <1>2, <1>3, <1>4, <1>5 DEF Approved, RunMoves
<1> QED
  BY <1>1, <1>3, <1>5, <1>6, <1>7, <1>8, SavedRun, UnsavedRuns, PublicationsKept DEF ServiceOK

----------------------------------------------------------------------------
(* Publications. *)

LEMMA OnlyReviewedPublishes ==
  ASSUME NEW s \in RunStates, CanTransition(s, "publishing")
  PROVE  s = "awaiting_review"
  BY DEF CanTransition, LegalTransitions, RunStates, ActiveRunStates, TerminalRunStates

\* A run can be published only when its evidence passed and the review is of it.
LEMMA PublishableRun ==
  ASSUME ServiceOK, NEW r \in Existing, Publishable(r)
  PROVE  /\ runs[r].state = "awaiting_review" /\ checks[r] = "passed"
         /\ reviews[r] = [decision |-> "approved", snapshot |-> version[r]]
<1>1. r \in Runs /\ runs[r].state \in RunStates
  BY DEF Existing, ServiceOK, ServiceTypeOK, RunRows
<1>2. runs[r].state = "awaiting_review"
  BY <1>1, OnlyReviewedPublishes DEF Publishable
<1>3. checks[r] # "none"
  BY <1>1, <1>2 DEF ServiceOK, RunsOK
<1>4. /\ EligibleForApproval(Validations(r), Evidence(r))
      /\ reviews[r].decision = "approved" /\ reviews[r].snapshot = version[r]
  BY DEF Publishable, EligibleForPublication
<1>5. checks[r] = "passed"
  <2> DEFINE v == [requirement |-> "constitution", status |-> checks[r]]
  <2>1. v \in Validations(r) /\ v.requirement = "constitution" /\ v.status = checks[r]
    BY <1>3 DEF Validations
  <2>2. ~ValidationBlocks(v)
    BY <1>4, <2>1 DEF EligibleForApproval
  <2> HIDE DEF v
  <2> QED
    BY <2>1, <2>2 DEF ValidationBlocks, IsMandatory
<1>6. reviews[r] = [decision |-> "approved", snapshot |-> version[r]]
  BY <1>1, <1>4 DEF ServiceOK, ServiceTypeOK
<1> QED
  BY <1>2, <1>5, <1>6

PublicationRows == [run : Runs \cup {NoRun}, key : Keys \cup {"none"}]

LEMMA BeginPublicationOK ==
  ASSUME ServiceOK, SourceOK, NEW p \in Publishers, NEW r \in Runs, NEW k \in Keys, NEW b \in Branches,
         BeginPublication(p, r, k, b)
  PROVE  ServiceOK' /\ SourceOK'
<1>1. ServiceTypeOK /\ RunsOK /\ "publishing" \in RunStates /\ "awaiting_review" \in ActiveRunStates /\ "publishing" # Absent
  BY States DEF ServiceOK, Absent
<1>2. /\ runs[r].state = "awaiting_review" /\ checks[r] = "passed"
      /\ reviews[r] = [decision |-> "approved", snapshot |-> version[r]]
      /\ r \in Existing /\ ~Publishing(p)
  BY PublishableRun DEF BeginPublication
<1>3. /\ UNCHANGED <<version, checks, reviews, execution, acked, archived, branch, pull, publications>>
      /\ claimed' = [claimed EXCEPT ![k] = r]
  BY DEF BeginPublication, ExecutionRests
<1>4. RunMoves(r, "publishing")
  <2>1. runs[r].outcome \in ReviewOutcomes
    BY <1>1 DEF ServiceTypeOK, RunRows
  <2> QED
    BY <1>1, <2>1, SaveStep DEF BeginPublication
<1>5. /\ publication' \in [Publishers -> PublicationRows] /\ publication'[p].run = r
      /\ \A q \in Publishers : q # p => publication'[q] = publication[q]
  <2> DEFINE row == [run |-> r, key |-> k]
  <2>1. row \in PublicationRows /\ row.run = r
    BY DEF PublicationRows
  <2>2. publication' = [publication EXCEPT ![p] = row]
    BY DEF BeginPublication
  <2> HIDE DEF row
  <2> QED
    BY <1>1, <2>1, <2>2 DEF ServiceTypeOK, PublicationRows
<1>6. /\ SourceOK' /\ request'[p].commit = r
      /\ \A q \in Publishers : q # p => request'[q] = request[q]
  <2>1. /\ RequestMoves(p) /\ request'[p].at = "repository" /\ request'[p].branch = b /\ request'[p].commit = r
    BY AskStep, NamesAssumption DEF BeginPublication, SourceOK
  <2>2. r \in Commits /\ SourceFrame
    BY <1>3, NamesAssumption, SourceTyped DEF SourceOK, SourceFrame
  <2> QED
    BY <2>1, <2>2, RequestKept DEF RequestMoves
<1>7. ServiceTypeOK'
  BY <1>1, <1>3, <1>4, <1>5 DEF ServiceTypeOK, RunMoves, PublicationRows
<1>8. RunsOK'
  BY <1>1, <1>2, <1>3, <1>4, States DEF RunsOK, RunMoves, Unchecked
<1>9. /\ Approved(r)' /\ \A q \in Runs : Approved(q) => q # r /\ Approved(q)'
  BY <1>2, <1>3, <1>4 DEF Approved, RunMoves
<1>10. PublicationsOK'
  <2>1. ASSUME NEW q \in Publishers, Publishing(q)'
        PROVE  /\ Approved(publication[q].run)' /\ request'[q].commit = publication'[q].run
               /\ \A s \in Publishers : publication'[s].run = publication'[q].run => s = q
    <3>1. ASSUME NEW s \in Publishers, s # p, Publishing(s)
          PROVE  publication[s].run \in Runs /\ Approved(publication[s].run) /\ publication[s].run # r
      BY <1>1, <1>9, <3>1, PublicationTyped DEF ServiceOK, PublicationsOK, Publishing
    <3>2. CASE q = p
      <4>1. Approved(publication[p].run)'
        BY <1>5, <1>9
      <4>2. ASSUME NEW s \in Publishers, s # p PROVE publication'[s].run # r
        BY <1>5, <3>1, <4>2, States DEF Publishing
      <4> QED
        BY <1>5, <1>6, <3>2, <4>1, <4>2
    <3>3. CASE q # p
      <4>1. publication'[q] = publication[q] /\ Publishing(q) /\ request'[q] = request[q]
        BY <1>5, <1>6, <2>1, <3>3 DEF Publishing
      <4>2. PICK s \in Runs : s = publication[q].run /\ s # r /\ Approved(s)'
        BY <1>9, <3>1, <3>3, <4>1
      <4>3. Approved(publication[q].run)'
        BY <4>1, <4>2
      <4>4. request'[q].commit = publication'[q].run
        BY <4>1 DEF ServiceOK, PublicationsOK
      <4>5. \A u \in Publishers : publication'[u].run = publication'[q].run => u = q
        BY <1>5, <4>1, <4>2 DEF ServiceOK, PublicationsOK
      <4> QED
        BY <4>3, <4>4, <4>5
    <3> QED
      BY <3>2, <3>3
  <2>2. ASSUME NEW x \in publications
        PROVE  /\ Approved(x.run)' /\ x.head = x.run
               /\ \A q \in Publishers : publication'[q].run # x.run
               /\ \A y \in publications : y.run = x.run => y = x
    <3>1. PICK s \in Runs : s = x.run /\ s # r /\ Approved(s)'
      BY <1>1, <1>9, PublicationTyped DEF ServiceOK, PublicationsOK
    <3>2. Approved(x.run)'
      BY <3>1
    <3> QED
      BY <1>5, <3>1, <3>2 DEF ServiceOK, PublicationsOK
  <2> QED
    BY <1>3, <2>1, <2>2 DEF PublicationsOK
<1>11. IterationsOK' /\ ActiveLimitHolds'
  BY <1>1, <1>2, <1>3, <1>4, SavedRun
<1> QED
  BY <1>6, <1>7, <1>8, <1>10, <1>11 DEF ServiceOK

LEMMA PublicationStepOK ==
  ASSUME ServiceOK, SourceOK, NEW p \in Publishers, PublicationStep(p) \/ PublicationFault(p)
  PROVE  ServiceOK' /\ SourceOK'
<1>1. /\ UNCHANGED <<version, checks, reviews, execution, acked, runs, publications, publication, claimed>>
      /\ SourceStep(p) \/ SourceFails(p)
  BY DEF PublicationStep, PublicationFault, ExecutionRests
<1>2. SourceOK' /\ \A q \in Publishers : request'[q].commit = request[q].commit
  BY <1>1, SourceStepOK
<1>3. ServiceTypeOK' /\ RunsOK' /\ \A q \in Runs : Approved(q) => Approved(q)'
  BY <1>1 DEF ServiceOK, ServiceTypeOK, RunsOK, Unchecked, Approved
<1> QED
  BY <1>1, <1>2, <1>3, UnsavedRuns, PublicationsKept DEF ServiceOK

\* A publication that is over has no run.
LEMMA PublicationOver ==
  ASSUME ServiceTypeOK, NEW p \in Publishers, publication' = [publication EXCEPT ![p] = NotPublishing]
  PROVE  /\ publication' \in [Publishers -> PublicationRows] /\ publication'[p].run = NoRun
         /\ \A q \in Publishers : q # p => publication'[q] = publication[q]
<1>1. NotPublishing \in PublicationRows /\ NotPublishing.run = NoRun
  BY DEF NotPublishing, PublicationRows
<1> QED
  BY <1>1 DEF ServiceTypeOK, PublicationRows

LEMMA CompletePublicationOK ==
  ASSUME ServiceOK, SourceOK, NEW p \in Publishers, CompletePublication(p)
  PROVE  ServiceOK' /\ SourceOK'
<1>1. ServiceTypeOK /\ RunsOK /\ "completed" \in RunStates \ ActiveRunStates /\ Absent \notin RunStates
      /\ "approved" \in ReviewOutcomes
  BY States DEF ServiceOK, ReviewOutcomes
<1>2. PICK r \in Runs : r = publication[p].run
  BY <1>1, PublicationTyped DEF CompletePublication, Publishing
<1>3. /\ Publishing(p) /\ request[p].at = "created"
      /\ UNCHANGED <<version, checks, reviews, execution, acked, claimed, sourceVars>>
  BY DEF CompletePublication, ExecutionRests, sourceVars
<1>4. RunMoves(r, "completed")
  BY <1>1, <1>2, SaveStep DEF CompletePublication
<1>5. /\ Approved(r) /\ request[p].commit = r /\ request[p].head = r
      /\ \A q \in Publishers : publication[q].run = r => q = p
  BY <1>2, <1>3 DEF ServiceOK, PublicationsOK, SourceOK, RequestsOK
<1>6. /\ publication' \in [Publishers -> PublicationRows] /\ publication'[p].run = NoRun
      /\ \A q \in Publishers : q # p => publication'[q] = publication[q]
  BY <1>1, PublicationOver DEF CompletePublication
<1>7. PICK new \in [run : Runs, by : Publishers, head : Commits] :
        publications' = publications \cup {new} /\ new.run = r /\ new.head = r
  <2> DEFINE new == [run |-> r, by |-> p, head |-> request[p].head]
  <2>1. new \in [run : Runs, by : Publishers, head : Commits] /\ new.run = r /\ new.head = r
    BY <1>5, NamesAssumption
  <2>2. publications' = publications \cup {new}
    BY <1>2 DEF CompletePublication
  <2> HIDE DEF new
  <2> QED
    BY <2>1, <2>2
<1>8. ServiceTypeOK'
  BY <1>1, <1>3, <1>4, <1>6, <1>7 DEF ServiceTypeOK, RunMoves, PublicationRows
<1>9. RunsOK'
  <2>1. ~Unchecked(r)
    BY <1>1, <1>5 DEF Approved, RunsOK
  <2> QED
    BY <1>1, <1>3, <1>4, <2>1 DEF RunsOK, RunMoves, Unchecked
<1>10. \A q \in Runs : Approved(q) => Approved(q)'
  BY <1>3, <1>4 DEF Approved, RunMoves
<1>11. PublicationsOK'
  <2>1. ASSUME NEW q \in Publishers, Publishing(q)'
        PROVE  /\ Approved(publication[q].run)' /\ request'[q].commit = publication'[q].run
               /\ \A s \in Publishers : publication'[s].run = publication'[q].run => s = q
    <3>1. q # p /\ publication'[q] = publication[q] /\ Publishing(q)
      BY <1>6, <2>1 DEF Publishing
    <3>2. PICK s \in Runs : s = publication[q].run /\ Approved(s)'
      BY <1>1, <1>10, <3>1, PublicationTyped DEF Publishing, ServiceOK, PublicationsOK
    <3>3. Approved(publication[q].run)'
      BY <3>1, <3>2
    <3>4. request'[q].commit = publication'[q].run
      BY <1>3, <3>1 DEF ServiceOK, PublicationsOK, sourceVars
    <3>5. \A u \in Publishers : publication'[u].run = publication'[q].run => u = q
      BY <1>6, <3>1, <3>2, States DEF ServiceOK, PublicationsOK
    <3> QED
      BY <3>3, <3>4, <3>5
  <2>2. ASSUME NEW x \in publications'
        PROVE  /\ Approved(x.run)' /\ x.head = x.run
               /\ \A q \in Publishers : publication'[q].run # x.run
               /\ \A y \in publications' : y.run = x.run => y = x
    <3>1. ASSUME NEW y \in publications PROVE y.run # r
      BY <1>2, <3>1 DEF ServiceOK, PublicationsOK
    <3>2. CASE x = new
      <4>1. Approved(x.run)'
        BY <1>5, <1>7, <1>10, <3>2
      <4> QED
        BY <1>5, <1>6, <1>7, <3>1, <3>2, <4>1, States
    <3>3. CASE x \in publications
      <4>1. PICK s \in Runs : s = x.run /\ s # r /\ Approved(s)'
        BY <1>1, <1>10, <3>1, <3>3, PublicationTyped DEF ServiceOK, PublicationsOK
      <4>2. Approved(x.run)'
        BY <4>1
      <4> QED
        BY <1>6, <1>7, <3>3, <4>1, <4>2, States DEF ServiceOK, PublicationsOK
    <3> QED
      BY <1>7, <3>2, <3>3
  <2> QED
    BY <2>1, <2>2 DEF PublicationsOK
<1>12. IterationsOK' /\ ActiveLimitHolds'
  BY <1>1, <1>3, <1>4, SavedRun
<1> QED
  BY <1>3, <1>8, <1>9, <1>11, <1>12, OutsideSourceOK DEF ServiceOK

LEMMA FailPublicationOK ==
  ASSUME ServiceOK, SourceOK, NEW p \in Publishers, FailPublication(p)
  PROVE  ServiceOK' /\ SourceOK'
<1>1. /\ Publishing(p)
      /\ UNCHANGED <<version, checks, reviews, execution, acked, runs, publications, sourceVars>>
      /\ claimed' = [claimed EXCEPT ![publication[p].key] = NoRun]
  BY DEF FailPublication, ExecutionRests, sourceVars
<1>2. /\ publication' \in [Publishers -> PublicationRows] /\ publication'[p].run = NoRun
      /\ \A q \in Publishers : q # p => publication'[q] = publication[q]
  BY PublicationOver DEF FailPublication, ServiceOK
<1>3. ServiceTypeOK' /\ RunsOK'
  BY <1>1, <1>2 DEF ServiceOK, ServiceTypeOK, RunsOK, Unchecked, PublicationRows
<1>4. PublicationsOK'
  <2>1. \A r \in Runs : Approved(r)' <=> Approved(r)
    BY <1>1 DEF Approved
  <2>2. ASSUME NEW q \in Publishers, Publishing(q)'
        PROVE  /\ Approved(publication[q].run)' /\ request'[q].commit = publication'[q].run
               /\ \A s \in Publishers : publication'[s].run = publication'[q].run => s = q
    <3>1. q # p /\ publication'[q] = publication[q] /\ Publishing(q)
      BY <1>2, <2>2 DEF Publishing
    <3>2. PICK s \in Runs : s = publication[q].run /\ Approved(s)'
      BY <2>1, <3>1, PublicationTyped DEF Publishing, ServiceOK, PublicationsOK
    <3>3. Approved(publication[q].run)'
      BY <3>1, <3>2
    <3>4. request'[q].commit = publication'[q].run
      BY <1>1, <3>1 DEF ServiceOK, PublicationsOK, sourceVars
    <3>5. \A u \in Publishers : publication'[u].run = publication'[q].run => u = q
      BY <1>2, <3>1, <3>2, States DEF ServiceOK, PublicationsOK
    <3> QED
      BY <3>3, <3>4, <3>5
  <2>3. ASSUME NEW x \in publications
        PROVE  /\ Approved(x.run)' /\ x.head = x.run
               /\ \A q \in Publishers : publication'[q].run # x.run
               /\ \A y \in publications : y.run = x.run => y = x
    <3>1. PICK s \in Runs : s = x.run /\ Approved(s)'
      BY <2>1, PublicationTyped DEF ServiceOK, PublicationsOK
    <3>2. Approved(x.run)'
      BY <3>1
    <3> QED
      BY <1>2, <3>1, <3>2, States DEF ServiceOK, PublicationsOK
  <2> QED
    BY <1>1, <2>2, <2>3 DEF PublicationsOK
<1> QED
  BY <1>1, <1>3, <1>4, UnsavedRuns, OutsideSourceOK DEF ServiceOK

----------------------------------------------------------------------------
(* Every step keeps the invariant. *)

LEMMA ExecutionAgent ==
  ASSUME AgentOK, ServiceTypeOK, RunsOK, NEW r \in Runs, Started(r)
  PROVE  AgentOK'
<1> USE DEF ExecutionSteps, Executing
<1>1. CASE StartCodingAgent(r) \/ StartCodingAgentFails(r)
  BY <1>1, GotoStep, StartAgentOK DEF StartCodingAgent, StartCodingAgentFails
<1>2. CASE OpenAgentStream(r) \/ AgentStreamRefuses(r) \/ AgentStreamLost(r)
  BY <1>2, GotoStep, StreamOK DEF OpenAgentStream, AgentStreamRefuses, AgentStreamLost
<1>3. CASE AgentStreamEnds(r)
  <2>1. "validating" \in RunStates
    BY DEF RunStates, ActiveRunStates
  <2> QED
    BY <1>3, <2>1, MoveStep, StreamOK DEF AgentStreamEnds
<1>4. CASE ReadAgentEvent(r)
  BY <1>4, StreamOK DEF ReadAgentEvent
<1>5. CASE UNCHANGED agentVars
  <2>1. ASSUME NEW q \in Runs, Unstarted(q)' PROVE Unstarted(q)
    BY <2>1, ExecutionMovesRun DEF Moves, ExecutionMoves, Advances, Unstarted, Leading, Late, RunsOK
  <2> QED
    BY <1>5, <2>1, AgentRests
<1> QED
  BY <1>1, <1>2, <1>3, <1>4, <1>5 DEF Started, ExecutionStep, ExecutionFault, BeginExecution, CreateSandbox,
     CreateSandboxFails, Validate, ValidateRefused, ValidateFails, DestroySandbox, DestroySandboxFails,
     Catch, CatchCannotDestroy, CatchFindsNothing

LEMMA ExecutionTracked ==
  ASSUME AgentOK, TrackedOK, NEW r \in Runs, Started(r)
  PROVE  TrackedOK'
<1> USE DEF ExecutionSteps, Executing
<1>1. CASE StartCodingAgent(r) \/ StartCodingAgentFails(r)
  BY <1>1, StartAgentTracked DEF StartCodingAgent, StartCodingAgentFails
<1>2. CASE OpenAgentStream(r) \/ AgentStreamRefuses(r) \/ AgentStreamLost(r)
  BY <1>2, StreamTracked DEF OpenAgentStream, AgentStreamRefuses, AgentStreamLost
<1>3. CASE AgentStreamEnds(r) \/ ReadAgentEvent(r)
  BY <1>3, StreamTracked DEF AgentStreamEnds, ReadAgentEvent
<1>4. CASE UNCHANGED agentVars
  BY <1>4, TrackedRests
<1> QED
  BY <1>1, <1>2, <1>3, <1>4 DEF Started, ExecutionStep, ExecutionFault, BeginExecution, CreateSandbox,
     CreateSandboxFails, Validate, ValidateRefused, ValidateFails, DestroySandbox, DestroySandboxFails,
     Catch, CatchCannotDestroy, CatchFindsNothing

Parts == SandboxesOK /\ AgentOK /\ TrackedOK /\ SourceOK /\ ServiceOK

LEMMA ExecutionOK ==
  ASSUME Parts, NEW r \in Runs, Started(r)
  PROVE  Parts'
<1>1. Moves(r) /\ Others
  BY ExecutionMovesRun DEF Parts, ServiceOK
<1>2. SourceOK'
  BY <1>1, OutsideSourceOK DEF Parts, Others
<1> QED
  BY <1>1, <1>2, ExecutionSandbox, ExecutionAgent, ExecutionTracked, ExecutionServices DEF Parts, ServiceOK

\* A step that leaves the executions and their providers alone.
LEMMA ServicesOnly ==
  ASSUME Parts, UNCHANGED <<execution, sandboxVars, agentVars>>, ServiceOK', SourceOK'
  PROVE  Parts'
<1>1. SandboxesOK'
  BY DEF Parts, SandboxesOK, SandboxTypeOK, SandboxOK, Lives, Excused, sandboxVars
<1>2. AgentOK'
  BY AgentRests DEF Parts, Unstarted
<1>3. TrackedOK'
  BY TrackedRests DEF Parts
<1> QED
  BY <1>1, <1>2, <1>3 DEF Parts

\* A step of a provider alone.
LEMMA ServicesRest ==
  ASSUME Parts, UNCHANGED serviceVars, \A p \in Publishers : request'[p].commit = request[p].commit
  PROVE  ServiceOK'
<1>1. ServiceTypeOK' /\ RunsOK' /\ \A q \in Runs : Approved(q) => Approved(q)'
  BY DEF Parts, ServiceOK, ServiceTypeOK, RunsOK, Unchecked, Approved, serviceVars, storeVars
<1> QED
  BY <1>1, UnsavedRuns, PublicationsKept DEF Parts, ServiceOK, serviceVars, storeVars

LEMMA RunServicesOK ==
  ASSUME Parts, RunServices
  PROVE  Parts'
<1>1. PICK r \in Runs :
        \/ StartRun(r) \/ CancelRun(r) \/ Started(r)
        \/ \E next \in Runs : CreateNextIteration(r, next)
        \/ \E decision \in {"approved", "rejected", "cancelled"} : ResolveReview(r, decision)
  BY DEF RunServices, Started
<1>2. CASE Started(r)
  BY <1>2, ExecutionOK
<1>3. CASE ~Started(r)
  <2>1. UNCHANGED <<execution, sandboxVars, agentVars, sourceVars>>
    BY <1>1, <1>3 DEF StartRun, CancelRun, CreateNextIteration, ResolveReview, Idempotent, Providers
  <2>2. ServiceOK'
    BY <1>1, <1>3, StartRunOK, CancelRunOK, NextIterationOK, ResolveReviewOK DEF Parts
  <2> QED
    BY <2>1, <2>2, ServicesOnly, OutsideSourceOK DEF Parts
<1> QED
  BY <1>2, <1>3

LEMMA PublishersOK ==
  ASSUME Parts, Publications \/ \E p \in Publishers : PublicationFault(p)
  PROVE  Parts'
<1>1. UNCHANGED <<execution, sandboxVars, agentVars>>
  BY DEF Publications, PublicationFault, PublicationStep, CompletePublication, FailPublication,
     BeginPublication, ExecutionRests
<1>2. ServiceOK' /\ SourceOK'
  BY BeginPublicationOK, PublicationStepOK, CompletePublicationOK, FailPublicationOK DEF Parts, Publications
<1> QED
  BY <1>1, <1>2, ServicesOnly

LEMMA ProvidersOK ==
  ASSUME Parts, AgentStep \/ AgentFault \/ OperatorCalls \/ OutsideEvent
  PROVE  Parts'
<1>1. UNCHANGED serviceVars
  BY DEF AgentStep, AgentFault, OperatorCalls, OutsideEvent
<1>2. UNCHANGED execution
  BY <1>1 DEF serviceVars
<1>3. SourceOK' /\ request' = request
  BY OutsideSourceOK DEF Parts, AgentStep, AgentFault, OperatorCalls, OutsideEvent
<1>4. ServiceOK'
  BY <1>1, <1>3, ServicesRest
<1>5. CASE AgentStep \/ AgentFault \/ OperatorCalls
  <2>1. AgentOK'
    BY <1>2, <1>5, TurnAsksOK, TurnEndsOK, CallStepOK, CallFailsOK, BeginOK
       DEF Parts, AgentStep, AgentFault, OperatorCalls
  <2>2. TrackedOK'
    BY <1>2, <1>5, TurnAsksTracked, TurnEndsTracked, CallStepTracked, CallFailsTracked, BeginTracked
       DEF Parts, AgentStep, AgentFault, OperatorCalls
  <2>3. SandboxesOK'
    BY <1>2, <1>5 DEF AgentStep, AgentFault, OperatorCalls, Parts, SandboxesOK, SandboxTypeOK, SandboxOK,
       Lives, Excused, sandboxVars
  <2> QED
    BY <1>3, <1>4, <2>1, <2>2, <2>3 DEF Parts
<1>6. CASE OutsideEvent
  <2>1. AgentOK'
    BY <1>2, <1>6, AgentRests DEF OutsideEvent, Parts, Unstarted
  <2>2. TrackedOK'
    BY <1>6, TrackedRests DEF OutsideEvent, Parts
  <2>3. SandboxesOK'
    <3>1. CASE UNCHANGED sandboxVars
      BY <1>2, <3>1 DEF Parts, SandboxesOK, SandboxTypeOK, SandboxOK, Lives, Excused, sandboxVars
    <3> QED
      BY <1>2, <1>6, <3>1, OutsideSandboxOK DEF OutsideEvent, Parts
  <2> QED
    BY <1>3, <1>4, <2>1, <2>2, <2>3 DEF Parts
<1> QED
  BY <1>5, <1>6

LEMMA InitOK == Init => ExecutionInv
<1> SUFFICES ASSUME Init PROVE ExecutionInv
  OBVIOUS
<1>1. SandboxTypeOK /\ SandboxOK
  BY NamesAssumption DEF Init, SandboxInit, SandboxTypeOK, SandboxOK, Machines, Reasons, NotExecuted, Lives
<1>2. SourceOK
  BY DEF Init, SourceInit, SourceOK, SourceTypeOK, RequestsOK, NoRequest
<1>3. AgentTypeOK
  <2>1. NoRecord \in Records /\ Idle \in CallRows
    BY DEF NoRecord, Records, RegistryStatuses, Idle, CallRows
  <2>2. <<>> \in Seq(Events) /\ Len(<<>>) <= MaxFeed
    BY AgentBounds
  <2>3. feed \in Feeds /\ \A r \in Runs : Len(feed[r]) <= MaxFeed
    BY <2>2 DEF Init, AgentInit, Feeds
  <2>4. /\ turns \in [Runs -> [Turns -> TurnStates]] /\ asked \in [Runs -> [Turns -> {"no", "waiting", "answered"}]]
        /\ stream \in [Runs -> [state : {"new", "open", "closed"}, turn : Turns \cup {NoTurn}]]
    BY DEF Init, AgentInit, TurnStates, NoStream
  <2>5. registry \in [Runs -> Records] /\ calls \in [Callers -> CallRows]
    BY <2>1 DEF Init, AgentInit
  <2> QED
    BY <2>3, <2>4, <2>5 DEF AgentTypeOK, Feeds, Events, CallRows, Init, AgentInit
<1>4. TurnsOK
  BY DEF Init, AgentInit, TurnsOK, Unstarted, Calling, NoRecord, Idle, NoTurn
<1>12. TrackedOK
  <2>1. ASSUME NEW q \in Runs PROVE ReportsOK(q) /\ Unrecorded(q)
    BY NamesAssumption DEF Init, AgentInit, ReportsOK, Unrecorded, NoRecord, Idle
  <2> QED
    BY <2>1 DEF Init, AgentInit, TrackedOK, Tracked, Calling, Idle
<1>5. ServiceTypeOK
  <2>1. 0 \in 0..Cardinality(Runs)
    BY NamesAssumption, FS_CardinalityType
  <2>2. AbsentRun \in RunRows /\ NotExecuted \in ExecutionRows /\ NotPublishing \in PublicationRows
    BY <2>1 DEF AbsentRun, RunRows, NotExecuted, ExecutionRows, ExecutionSteps, NotPublishing, PublicationRows,
       ReviewOutcomes
  <2>3. NoReview \in [decision : ReviewOutcomes, snapshot : {0, EvidenceSaves}]
    BY DEF NoReview, ReviewOutcomes
  <2> QED
    BY <2>2, <2>3 DEF Init, ServiceTypeOK, PublicationRows
<1>6. RunsOK
  BY DEF Init, RunsOK, AbsentRun, NotExecuted, Absent
<1>7. Existing = {} /\ ActiveRuns \ acked = {}
  BY States DEF Init, Existing, ActiveRuns, AbsentRun
<1>8. IterationsOK
  BY <1>7, FS_EmptySet DEF Init, IterationsOK, AbsentRun
<1>9. ActiveLimitHolds
  <2>1. Cardinality(ActiveRuns \ acked) = 0
    BY <1>7, FS_EmptySet
  <2> QED
    BY <2>1, LimitAssumption DEF ActiveLimitHolds
<1>10. PublicationsOK
  BY DEF Init, PublicationsOK, Publishing, NotPublishing
<1>11. faults \in 0..MaxFaults
  BY LimitAssumption DEF Init
<1> QED
  BY <1>1, <1>2, <1>3, <1>4, <1>5, <1>6, <1>8, <1>9, <1>10, <1>11, <1>12, InvParts
     DEF SandboxesOK, AgentOK, ServiceOK

LEMMA NextOK == ExecutionInv /\ [Next]_vars => ExecutionInv'
<1> SUFFICES ASSUME ExecutionInv, [Next]_vars PROVE ExecutionInv'
  OBVIOUS
<1>1. Parts /\ faults \in 0..MaxFaults
  BY InvParts DEF Parts
<1>2. ASSUME Steps PROVE Parts'
  BY <1>1, <1>2, RunServicesOK, PublishersOK, ProvidersOK DEF Steps
<1>3. ASSUME Faults PROVE Parts'
  BY <1>1, <1>3, ExecutionOK, PublishersOK, ProvidersOK DEF Faults, Started
<1>4. ASSUME UNCHANGED vars PROVE Parts'
  <2>1. ServiceOK'
    BY <1>1, <1>4, ServicesRest DEF vars, sourceVars
  <2> QED
    BY <1>1, <1>4, <2>1, ServicesOnly, OutsideSourceOK DEF Parts, vars, serviceVars
<1>5. Parts'
  BY <1>2, <1>3, <1>4 DEF Next
<1>6. faults' \in 0..MaxFaults
  BY <1>1, LimitAssumption DEF Next, vars
<1>7. ExecutionInv' <=> (SandboxesOK /\ AgentOK /\ TrackedOK /\ SourceOK /\ ServiceOK /\ faults \in 0..MaxFaults)'
  BY DEF ExecutionInv, SandboxesOK, AgentOK, SourceOK, ServiceOK, TypeOK, ServiceTypeOK, RunRows, ExecutionRows
<1> QED
  BY <1>5, <1>6, <1>7 DEF Parts

LEMMA ExecutionInvariant == Spec => []ExecutionInv
  BY InitOK, NextOK, PTL DEF Spec

----------------------------------------------------------------------------
\* The store, the executions and all three providers keep their types.
THEOREM ExecutionTypes == Spec => []TypeOK
<1>1. ExecutionInv => TypeOK
  BY DEF ExecutionInv
<1> QED
  BY <1>1, ExecutionInvariant, PTL

\* Whatever failed, an execution that has ended leaves no sandbox behind that
\* Vercel was willing to delete (execute-run.ts, its catch block;
\* vercel-sandbox-provider.ts, create and destroy).
THEOREM SandboxesAreReleased == Spec => []SandboxReleased
<1>1. ExecutionInv => SandboxReleased
  BY DEF ExecutionInv, SandboxOK, SandboxReleased, Excused
<1> QED
  BY <1>1, ExecutionInvariant, PTL

\* When cancel of the Codex provider has answered, no turn of its run is at work
\* and none starts any more, whether or not its record named one, as long as no
\* instruction that starts a turn was under way beside a cancel or another such
\* instruction or failed before its turn was recorded (codex-provider.ts, cancel
\* and addInstruction).
THEOREM CancelledTurnsAreOver == Spec => []CancelStopsTurns
<1>1. ExecutionInv => CancelStopsTurns
  <2> SUFFICES ASSUME ExecutionInv, NEW c \in Callers, At(c, "cancelled", "cancel"),
                      calls[c].run \notin contested
               PROVE  LiveTurns(calls[c].run) = {}
    BY DEF CancelStopsTurns
  <2>1. PICK r \in Runs : r = calls[c].run
    BY DEF ExecutionInv, TurnsOK, Calling, At
  <2>2. Cancelling(r)
    BY <2>1 DEF ExecutionInv, TrackedOK, Tracked, Unrecorded
  <2> QED
    BY <2>1, <2>2 DEF Cancelling, At, LiveTurns
<1> QED
  BY <1>1, ExecutionInvariant, PTL

\* The active runs of a workspace, cancelled ones apart, stay within the limit
\* (start-run.ts and create-next-run-iteration.ts, evaluateRunAdmission).
THEOREM RunsStayWithinLimit == Spec => []ActiveLimitHolds
<1>1. ExecutionInv => ActiveLimitHolds
  BY DEF ExecutionInv
<1> QED
  BY <1>1, ExecutionInvariant, PTL

\* A run is published once, at the commit that was asked for, on a review of
\* exactly the evidence it has (publish-run.ts; github-source-provider.ts,
\* createDraftChangeRequest).
THEOREM PublishedOnceAsApproved == Spec => []PublishedAsApproved
<1>1. ExecutionInv => PublishedAsApproved
  BY DEF ExecutionInv, PublicationsOK, Approved, PublishedAsApproved
<1> QED
  BY <1>1, ExecutionInvariant, PTL

\* Only a call that was in flight when a run ended may still change it
\* (execute-run.ts and publish-run.ts save the copy they hold).
THEOREM SettledRunsAreLeftAlone == Spec => SettledRunsRest
<1>1. ExecutionInv /\ [Next]_vars =>
        [\A r \in Runs :
           runs[r].state \in TerminalRunStates /\ runs'[r] # runs[r] =>
             \/ execution[r].at \notin {"idle", "ended"}
             \/ \E p \in Publishers : publication[p].run = r]_vars
  <2> SUFFICES ASSUME ExecutionInv, Next, NEW r \in Runs,
                      runs[r].state \in TerminalRunStates, runs'[r] # runs[r]
               PROVE  \/ execution[r].at \notin {"idle", "ended"}
                      \/ \E p \in Publishers : publication[p].run = r
    OBVIOUS
  <2>1. ServiceOK /\ ServiceTypeOK /\ RunsOK
    BY InvParts DEF ServiceOK
  <2>2. /\ runs[r].state \notin {Absent, "queued", "awaiting_review"} /\ runs[r].state \notin CancellableRunStates
    BY States DEF TerminalRunStates, Absent, CancellableRunStates
  <2>3. ASSUME NEW q \in Runs, Started(q) PROVE execution[r].at \notin {"idle", "ended"}
    <3>1. q = r
      BY <2>1, <2>3, ExecutionMovesRun DEF Moves, RunMoves
    <3>2. execution[q].at \notin {"idle", "ended"} \/ runs[q].state = "queued"
      BY <2>3 DEF Started, BeginExecution, Executable, ExecutionStep, ExecutionFault, Executing, CreateSandbox,
         CreateSandboxFails, StartCodingAgent, StartCodingAgentFails, OpenAgentStream, ReadAgentEvent,
         AgentStreamRefuses, AgentStreamLost, AgentStreamEnds, Validate, ValidateRefused, ValidateFails,
         DestroySandbox, DestroySandboxFails, Catch, CatchCannotDestroy, CatchFindsNothing
    <3> QED
      BY <2>2, <3>1, <3>2
  <2>4. ASSUME NEW q \in Runs, NEW n, Insert(q, n), runs[q].state = Absent PROVE FALSE
    BY <2>1, <2>2, <2>4 DEF Insert, ServiceTypeOK
  <2>5. ASSUME NEW q \in Runs, NEW state, NEW outcome, Save(q, state, outcome) PROVE q = r
    BY <2>1, <2>5 DEF Save, ServiceTypeOK
  <2>6. ASSUME NEW p \in Publishers, NEW q \in Runs, NEW k \in Keys, NEW b \in Branches,
               BeginPublication(p, q, k, b)
        PROVE  FALSE
    <3>1. q = r
      BY <2>5, <2>6 DEF BeginPublication
    <3> QED
      BY <2>1, <2>2, <2>6, <3>1, PublishableRun DEF BeginPublication
  <2>7. ASSUME NEW p \in Publishers, CompletePublication(p) PROVE publication[p].run = r
    <3>1. PICK q \in Runs : q = publication[p].run
      BY <2>1, <2>7, PublicationTyped DEF CompletePublication, Publishing
    <3> QED
      BY <2>5, <2>7, <3>1 DEF CompletePublication
  <2>8. CASE RunServices
    BY <2>2, <2>3, <2>4, <2>5, <2>8 DEF RunServices, Started, StartRun, CancelRun, CreateNextIteration,
       ResolveReview, Reviewable
  <2>9. CASE Publications
    BY <2>6, <2>7, <2>9 DEF Publications, PublicationStep, FailPublication
  <2>10. CASE Faults
    BY <2>3, <2>10 DEF Faults, Started, PublicationFault, AgentFault, OutsideEvent, serviceVars, storeVars
  <2>11. CASE AgentStep \/ OperatorCalls
    BY <2>11 DEF AgentStep, OperatorCalls, serviceVars, storeVars
  <2> QED
    BY <2>8, <2>9, <2>10, <2>11 DEF Next, Steps
<1> QED
  BY <1>1, ExecutionInvariant, PTL DEF Spec, SettledRunsRest
=============================================================================
