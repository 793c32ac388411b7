----------------------------- MODULE CodexAgent -----------------------------
(***************************************************************************)
(* The Codex provider (packages/provider-codex/src/codex-provider.ts): a    *)
(* thread of the app server per run, the turns of the thread, the record of *)
(* the injected registry, the event stream that one execution reads and the *)
(* calls of operators that steer, answer and cancel beside it.              *)
(*                                                                         *)
(* A thread is named by its run.  Turns are numbered in the order they      *)
(* start and a turn asks for at most one approval, whose key is the turn.   *)
(* The app server and the registry are external: they are what the provider *)
(* calls, with the registry refusing to mark a turn that is not the active  *)
(* one.  Events that touch no record (messages, usage, warnings) are not    *)
(* modelled; a text, cursor or count that the provider refuses is a stream   *)
(* that fails.                                                              *)
(***************************************************************************)
EXTENDS Naturals, Sequences, FiniteSets

CONSTANTS Runs,     \* runs, and their threads
          Callers,  \* operators' calls, one each
          Operated, \* bound: the runs that are executed and that operators call
          MaxTurns, \* bound: turns of a thread
          MaxFeed   \* bound: events of a thread that the stream has not read yet

ASSUME AgentBounds == MaxTurns \in Nat \ {0} /\ MaxFeed \in Nat \ {0}

VARIABLES turns,    \* app server: the state of each turn of a thread
          feed,     \* app server: events that the stream has not read yet
          asked,    \* app server: approvals waiting, answered, or never asked
          registry, \* run registry: status, active turn, pending approvals
          stream,   \* the open event stream and the active turn it was opened on
          calls,    \* the operators' calls
          contested \* history: runs that may have a turn no record names

agentVars == <<turns, feed, asked, registry, stream, calls, contested>>

Turns == 1..MaxTurns
NoTurn == 0
TurnStates == {"none", "live", "ended"}
EventKinds == {"approval", "completed", "failed", "interrupted"}
RegistryStatuses == {"absent", "idle", "running", "completed", "cancelled"}
Operations == {"instruct", "answer", "cancel"}

NoRecord == [status |-> "absent", turn |-> NoTurn, pending |-> {}]
Records == [status : RegistryStatuses, turn : Turns \cup {NoTurn}, pending : SUBSET Turns]
NoStream == [state |-> "new", turn |-> NoTurn]
Idle == [at |-> "idle", op |-> "none", run |-> "none", turn |-> NoTurn]
Over == [Idle EXCEPT !.at = "over"]

AgentTypeOK ==
  /\ turns \in [Runs -> [Turns -> TurnStates]]
  /\ feed \in [Runs -> Seq([kind : EventKinds, turn : Turns])]
  /\ \A r \in Runs : Len(feed[r]) <= MaxFeed
  /\ asked \in [Runs -> [Turns -> {"no", "waiting", "answered"}]]
  /\ registry \in [Runs -> Records]
  /\ stream \in [Runs -> [state : {"new", "open", "closed"}, turn : Turns \cup {NoTurn}]]
  /\ calls \in [Callers -> [at : {"idle", "begun", "interrupted", "started", "answered",
                                  "cancelled", "over"},
                            op : Operations \cup {"none"}, run : Runs \cup {"none"},
                            turn : Turns \cup {NoTurn}]]
  /\ contested \subseteq Runs

AgentInit ==
  /\ turns = [r \in Runs |-> [t \in Turns |-> "none"]]
  /\ feed = [r \in Runs |-> <<>>]
  /\ asked = [r \in Runs |-> [t \in Turns |-> "no"]]
  /\ registry = [r \in Runs |-> NoRecord]
  /\ stream = [r \in Runs |-> NoStream]
  /\ calls = [c \in Callers |-> Idle]
  /\ contested = {}

-----------------------------------------------------------------------------
(* The app server.                                                          *)

LiveTurns(r) == {t \in Turns : turns[r][t] = "live"}
FreeTurns(r) == {t \in Turns : turns[r][t] = "none"}
NextTurn(r, t) == t \in FreeTurns(r) /\ \A u \in FreeTurns(r) : t <= u

\* An event waits for the stream; when the stream is closed nobody reads it.
Tell(r, kind, t) ==
  IF stream[r].state = "closed" THEN UNCHANGED feed
  ELSE /\ Len(feed[r]) < MaxFeed
       /\ feed' = [feed EXCEPT ![r] = Append(@, [kind |-> kind, turn |-> t])]

\* A live turn asks for its approval, or ends.  What a turn does when its
\* stream is closed is seen by nobody.
TurnAsks(r, t) ==
  /\ turns[r][t] = "live" /\ asked[r][t] = "no" /\ stream[r].state # "closed"
  /\ Tell(r, "approval", t)
  /\ asked' = [asked EXCEPT ![r][t] = "waiting"]
  /\ UNCHANGED <<turns, registry, stream, calls, contested>>

TurnEnds(r, t, outcome) ==
  /\ turns[r][t] = "live" /\ stream[r].state # "closed"
  /\ turns' = [turns EXCEPT ![r][t] = "ended"]
  /\ Tell(r, outcome, t)
  /\ UNCHANGED <<asked, registry, stream, calls, contested>>

-----------------------------------------------------------------------------
(* start, resume and the event stream.                                      *)

\* start: the thread, its first turn, and the record of both.
StartAgent(r) ==
  /\ turns' = [turns EXCEPT ![r][1] = "live"]
  /\ registry' = [registry EXCEPT ![r] = [status |-> "running", turn |-> 1, pending |-> {}]]
  /\ UNCHANGED <<feed, asked, stream, calls, contested>>

\* start fails: no workspace or thread, no turn, or a turn that no record names.
StartAgentFails(r) ==
  /\ turns' \in {turns, [turns EXCEPT ![r][1] = "live"]}
  /\ UNCHANGED <<feed, asked, registry, stream, calls, contested>>

\* events: the record is read once, when the stream is opened.
OpenStream(r) ==
  /\ stream' = [stream EXCEPT ![r] = [state |-> "open", turn |-> registry[r].turn]]
  /\ UNCHANGED <<turns, feed, asked, registry, calls, contested>>

CloseStream(r) ==
  /\ stream' = [stream EXCEPT ![r] = [state |-> "closed", turn |-> NoTurn]]
  /\ feed' = [feed EXCEPT ![r] = <<>>]

Open(r) == stream[r].state = "open"

\* The turn an event is about is the one the stream was opened on.
Expected(r, e) == stream[r].turn = e.turn

\* The registry accepts the end of its active turn only.
Markable(r, t) == registry[r].turn = t

\* The provider hands the event at the head of the feed on to the execution.
Accepted(r, e) ==
  \/ e.kind = "approval" /\ Expected(r, e)
  \/ e.kind \in {"completed", "failed", "interrupted"} /\ Expected(r, e) /\ Markable(r, e.turn)

\* What reading an accepted event leaves in the registry.
Noted(r, e) ==
  CASE e.kind = "approval" ->
         [registry EXCEPT ![r].pending = @ \cup {e.turn}]
    [] e.kind = "completed" ->
         [registry EXCEPT ![r].status = "completed", ![r].turn = NoTurn]
    [] e.kind \in {"failed", "interrupted"} ->
         [registry EXCEPT ![r].status = "idle", ![r].turn = NoTurn]

\* The execution receives an event and asks for the next one.
ReadEvent(r) ==
  /\ Open(r) /\ feed[r] # <<>>
  /\ LET e == Head(feed[r])
     IN  /\ Accepted(r, e)
         /\ e.kind \in {"approval", "completed"}
         /\ registry' = Noted(r, e)
  /\ feed' = [feed EXCEPT ![r] = Tail(@)]
  /\ UNCHANGED <<turns, asked, stream, calls, contested>>

\* The stream throws at an event the provider refuses, and the execution at
\* the end of a turn that failed or was interrupted.
StreamRefuses(r) ==
  /\ Open(r) /\ feed[r] # <<>>
  /\ LET e == Head(feed[r])
     IN  /\ ~Accepted(r, e) \/ e.kind \in {"failed", "interrupted"}
         /\ registry' = IF Accepted(r, e) THEN Noted(r, e) ELSE registry
  /\ CloseStream(r)
  /\ UNCHANGED <<turns, asked, calls, contested>>

\* The connection is lost, or an event is malformed.
StreamLost(r) ==
  /\ Open(r)
  /\ CloseStream(r)
  /\ UNCHANGED <<turns, asked, registry, calls, contested>>

\* The app server has nothing more to say and closes the stream, whether or not
\* the turn has ended.
StreamEnds(r) ==
  /\ Open(r) /\ feed[r] = <<>>
  /\ CloseStream(r)
  /\ UNCHANGED <<turns, asked, registry, calls, contested>>

-----------------------------------------------------------------------------
(* The calls of operators.  Each reads the record first and works on what it  *)
(* read.                                                                    *)

\* requireControllableRun.
ControllableOnceStarted(r) == registry[r].status # "absent"
Controllable(r) == registry[r].status \in {"idle", "running"}

Go(c, step) == calls' = [calls EXCEPT ![c].at = step]
Finish(c) == calls' = [calls EXCEPT ![c] = Over]
At(c, step, op) == calls[c].at = step /\ calls[c].op = op

UnderWay(c) == calls[c].at \in {"begun", "interrupted", "started", "answered"}

\* Call d, which is under way, and a call of op on r do not know of each other,
\* and one of them starts a turn which the other does not see.
Contends(d, op, r) ==
  /\ UnderWay(d) /\ calls[d].run = r
  /\ "instruct" \in {op, calls[d].op} /\ {op, calls[d].op} \subseteq {"instruct", "cancel"}

\* A call that is refused, a resume and an instruction that steers the active
\* turn change nothing, and are no steps.
Begin(c, op, r) ==
  /\ calls[c].at = "idle"
  /\ Controllable(r)
  /\ op = "instruct" => registry[r].turn = NoTurn
  /\ calls' = [calls EXCEPT ![c] = [at |-> "begun", op |-> op, run |-> r, turn |-> registry[r].turn]]
  /\ contested' = IF \E d \in Callers : Contends(d, op, r) THEN contested \cup {r} ELSE contested
  /\ UNCHANGED <<turns, feed, asked, registry, stream>>

\* A call of the app server or of the registry fails; a turn may have started.
CallFails(c) ==
  LET r == calls[c].run
      starts == calls[c].op = "instruct"
  IN  /\ UnderWay(c)
      /\ Finish(c)
      /\ \/ UNCHANGED turns
         \/ /\ At(c, "begun", "instruct")
            /\ \E t \in Turns : NextTurn(r, t) /\ turns' = [turns EXCEPT ![r][t] = "live"]
      /\ contested' = IF starts THEN contested \cup {r} ELSE contested
      /\ UNCHANGED <<feed, asked, registry, stream>>

\* addInstruction to an idle run: a new turn is started, and then recorded.
StartTurn(c) ==
  LET r == calls[c].run
  IN  /\ At(c, "begun", "instruct")
      /\ \E t \in Turns :
           /\ NextTurn(r, t)
           /\ calls' = [calls EXCEPT ![c].at = "started", ![c].turn = t]
           /\ turns' = [turns EXCEPT ![r][t] = "live"]
      /\ UNCHANGED <<feed, asked, registry, stream, contested>>

SetActiveTurn(c) ==
  LET r == calls[c].run
  IN  /\ At(c, "started", "instruct")
      /\ Finish(c)
      /\ registry' = [registry EXCEPT ![r].status = "running", ![r].turn = calls[c].turn]
      /\ UNCHANGED <<turns, feed, asked, stream, contested>>

\* resolveApproval: an approval of the turn that was active when the call began.
PendingOfTurn(c, t) == t \in registry[calls[c].run].pending /\ t = calls[c].turn

Respond(c) ==
  LET r == calls[c].run
  IN  /\ At(c, "begun", "answer")
      /\ \E t \in Turns :
           /\ PendingOfTurn(c, t)
           /\ asked' = [asked EXCEPT ![r][t] = "answered"]
           /\ Go(c, "answered")
      /\ UNCHANGED <<turns, feed, registry, stream, contested>>

RemoveApproval(c) ==
  LET r == calls[c].run
  IN  /\ At(c, "answered", "answer")
      /\ Finish(c)
      /\ registry' = [registry EXCEPT ![r].pending = @ \ {calls[c].turn}]
      /\ UNCHANGED <<turns, feed, asked, stream, contested>>

\* cancel: the active turn is interrupted, the terminals are cleaned, and only
\* then is the run recorded as cancelled.
Interrupts(c) == calls[c].turn # NoTurn

Interrupt(c) ==
  LET r == calls[c].run
      t == calls[c].turn
  IN  /\ At(c, "begun", "cancel")
      /\ Go(c, "interrupted")
      /\ IF Interrupts(c) /\ turns[r][t] = "live"
         THEN turns' = [turns EXCEPT ![r][t] = "ended"] /\ Tell(r, "interrupted", t)
         ELSE UNCHANGED <<turns, feed>>
      /\ UNCHANGED <<asked, registry, stream, contested>>

MarkCancelled(c) ==
  LET r == calls[c].run
  IN  /\ At(c, "interrupted", "cancel")
      /\ Go(c, "cancelled")
      /\ registry' = [registry EXCEPT ![r].status = "cancelled", ![r].turn = NoTurn]
      /\ UNCHANGED <<turns, feed, asked, stream, contested>>

CallStep(c) ==
  \/ StartTurn(c) \/ SetActiveTurn(c) \/ Respond(c) \/ RemoveApproval(c)
  \/ Interrupt(c) \/ MarkCancelled(c)
=============================================================================
