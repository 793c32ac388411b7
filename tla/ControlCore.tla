---------------------------- MODULE ControlCore ----------------------------
(***************************************************************************)
(* One task of the control core: its record in the ControlStore, the HTTP    *)
(* handlers that start, cancel and decide it, the agent sessions AgentRunner *)
(* supervises in its two modes, and the restart of the core.  The core is    *)
(* one thread: an action is what a handler does between two awaits.          *)
(*                                                                           *)
(* Every store call waits in one write queue (ControlStore.#mutate).  The    *)
(* next mutation runs before the handler of the last one goes on, but not    *)
(* the one after it, which has a file to write first: `done` holds the       *)
(* handlers whose mutation ran and which have not gone on, at most two.      *)
(* Everything that comes from outside (a request, a child, a timer, a file    *)
(* written) waits until the core is Settled.  A handler that goes on, or an   *)
(* event that arrives, reads the task as it is then.  Calls that only append  *)
(* an event or patch texts keep their place in the queue where something      *)
(* follows them, and are left out elsewhere.                                  *)
(***************************************************************************)
EXTENDS Naturals, Sequences, FiniteSets

CONSTANTS
  Starters, Cancellers, Deciders,  \* HTTP clients, one request at a time each
  Modes,                           \* CYCLEWARDEN_CODEX_MODE of the core
  MaxSessions,                     \* bounds: sessions of each mode,
  MaxApprovals,                    \* approvals a session asks for,
  MaxRestarts                      \* restarts of the core

ASSUME CoreBounds ==
  /\ Modes \subseteq {"exec", "app-server"}
  /\ MaxSessions \in [Modes -> Nat] /\ MaxApprovals \in Nat /\ MaxRestarts \in Nat
  /\ IsFiniteSet(Starters)
ASSUME ClientsAreNoSessions == (Starters \cup Cancellers \cup Deciders) \cap Nat = {}

VARIABLES
  mode,        \* mode of the core
  task,        \* the task in the store
  queue,       \* mutations waiting in the write queue
  done,        \* mutations that ran and whose handlers have not gone on
  handler,     \* what each client's request and each session's callback awaits
  registered,  \* AgentRunner.processes.get(task), 0 for none
  session,     \* process records, clients and child processes
  used,        \* sessions launched so far
  work,        \* the task's worktree
  restarts,    \* restarts of the core so far
  overlapped   \* history: a session was launched while another was not over

vars ==
  <<mode, task, queue, done, handler, registered, session, used, work, restarts, overlapped>>

-----------------------------------------------------------------------------
(* Tasks and their transitions.                                              *)

TaskStates ==
  {"BACKLOG", "READY", "RUNNING", "NEEDS_INPUT", "VERIFYING", "INTERRUPTED",
   "READY_TO_SHIP", "FAILED", "MERGED", "CLOSED"}

Transitions ==
  [BACKLOG       |-> {"READY", "CLOSED"},
   READY         |-> {"RUNNING", "CLOSED"},
   RUNNING       |-> {"NEEDS_INPUT", "VERIFYING", "INTERRUPTED", "FAILED", "CLOSED"},
   NEEDS_INPUT   |-> {"RUNNING", "INTERRUPTED", "FAILED", "CLOSED"},
   VERIFYING     |-> {"READY_TO_SHIP", "INTERRUPTED", "FAILED", "CLOSED"},
   INTERRUPTED   |-> {"READY", "RUNNING", "CLOSED"},
   READY_TO_SHIP |-> {"MERGED", "CLOSED", "RUNNING"},
   FAILED        |-> {"READY", "RUNNING", "CLOSED"},
   MERGED        |-> {"CLOSED"},
   CLOSED        |-> {}]

Legal(from, to) == from = to \/ to \in Transitions[from]

Clients == Starters \cup Cancellers \cup Deciders
Sessions == UNION {1..MaxSessions[m] : m \in Modes}
Requests == 1..MaxApprovals
Handlers == Clients \cup Sessions

\* A mutation: append only, or a transition with its patch of pendingDecision.
Mutation == [by : Handlers, to : TaskStates \cup {"append"}, pending : Requests \cup {0}]

Idle == [pc |-> "idle", session |-> 0, seen |-> 0, request |-> 0, ok |-> FALSE]

\* A child is signalled once its client was killed, and an orphan when it
\* outlives the core; both may go on working.
NewSession ==
  [child |-> "none", listening |-> FALSE, closed |-> FALSE, cancelled |-> FALSE,
   stopped |-> FALSE, turn |-> FALSE, approvals |-> {}, asked |-> 0, inbox |-> <<>>]

-----------------------------------------------------------------------------
(* Awaiting the store, and going on.                                         *)

Await(h, row, to, pending) ==
  /\ handler' = [handler EXCEPT ![h] = row]
  /\ queue' = Append(queue, [by |-> h, to |-> to, pending |-> pending])

AwaitAt(h, pc, to, pending) == Await(h, [handler[h] EXCEPT !.pc = pc], to, pending)

GoTo(h, row) ==
  /\ handler' = [handler EXCEPT ![h] = row]
  /\ UNCHANGED queue

Return(h) == GoTo(h, Idle)

\* h goes on after the mutation it awaited at pc succeeded.
Resume(h, pc) ==
  /\ handler[h].pc = pc
  /\ done # <<>> /\ Head(done).by = h /\ Head(done).ok
  /\ done' = Tail(done)

\* AgentRunner.#fail, awaited at pc by h: a task that is not Failable is left alone.
Failable == task.status \in {"RUNNING", "VERIFYING", "NEEDS_INPUT"}

Fail(h, pc) ==
  IF Failable
  THEN AwaitAt(h, pc, "FAILED", 0)
  ELSE Return(h)

\* A rejected mutation in a callback that nobody handles: the core exits, and
\* is no more until it is started again.
Ended ==
  /\ done # <<>> /\ ~Head(done).ok
  /\ Head(done).by \in Sessions
  /\ mode = "exec" \/ handler[Head(done).by].pc = "catching"

\* What can run without input or output has run: of two handlers whose
\* mutations ran the first has gone on, and no session has a callback to begin.
Settled ==
  /\ ~Ended /\ Len(done) <= 1
  /\ \A s \in Sessions : session[s].inbox # <<>> => handler[s].pc # "idle"

\* The mutation at the head of the queue runs: pendingDecision is part of the
\* patches of RUNNING, NEEDS_INPUT and FAILED, and recovery is read only while
\* the task is INTERRUPTED.
Commit ==
  /\ Settled
  /\ queue # <<>>
  /\ LET op == Head(queue)
         legal == op.to = "append" \/ Legal(task.status, op.to)
     IN  /\ done' = Append(done, [by |-> op.by, ok |-> legal])
         /\ task' = IF legal /\ op.to # "append"
                    THEN [status |-> op.to, recovery |-> FALSE,
                          pending |-> IF op.to \in {"RUNNING", "NEEDS_INPUT", "FAILED"}
                                      THEN op.pending ELSE task.pending]
                    ELSE task
  /\ queue' = Tail(queue)
  /\ UNCHANGED <<mode, handler, registered, session, used, work, restarts, overlapped>>

\* A rejected transition is an error to the HTTP client; in a callback of an
\* app-server session it fails the task, unless that is what was rejected.
Rejected(h) ==
  /\ ~Ended
  /\ done # <<>> /\ Head(done).by = h /\ ~Head(done).ok
  /\ done' = Tail(done)
  /\ IF h \in Sessions THEN Fail(h, "catching") ELSE Return(h)
  /\ UNCHANGED <<mode, task, registered, session, used, work, restarts, overlapped>>

\* What a handler awaited last.
Finish(h) ==
  /\ \E pc \in {"noted", "shipping", "failing", "catching"} : Resume(h, pc)
  /\ Return(h)
  /\ UNCHANGED <<mode, task, registered, session, used, work, restarts, overlapped>>

-----------------------------------------------------------------------------
(* start: the task is made ready, its worktree prepared, an agent launched.  *)

\* Bound: MaxSessions.
Start(c) ==
  /\ Settled
  /\ c \in Starters /\ handler[c].pc = "idle"
  /\ used + Cardinality({d \in Starters : handler[d].pc # "idle"}) < MaxSessions[mode]
  /\ registered = 0
  /\ task.status = "INTERRUPTED" => task.recovery
  /\ \/ /\ task.status \in {"BACKLOG", "FAILED", "INTERRUPTED"}
        /\ AwaitAt(c, "readying", "READY", 0)
     \/ /\ task.status \in {"READY", "READY_TO_SHIP"}
        /\ GoTo(c, [Idle EXCEPT !.pc = "preparing"])
  /\ UNCHANGED <<mode, task, done, registered, session, used, work, restarts, overlapped>>

Readied(c) ==
  /\ Resume(c, "readying")
  /\ GoTo(c, [Idle EXCEPT !.pc = "preparing"])
  /\ UNCHANGED <<mode, task, registered, session, used, work, restarts, overlapped>>

\* createTaskWorktree ends; it may fail.
Prepare(c) ==
  /\ Settled
  /\ handler[c].pc = "preparing"
  /\ Return(c) \/ AwaitAt(c, "launching", "RUNNING", 0)
  /\ UNCHANGED <<mode, task, done, registered, session, used, work, restarts, overlapped>>

\* No earlier session is registered, has a child, or has a handler under way.
Quiet(c) ==
  /\ registered = 0
  /\ \A s \in 1..used :
       session[s].child \in {"none", "dead"} /\ session[s].inbox = <<>> /\ handler[s] = Idle
  /\ \A d \in Clients \ {c} : handler[d].session = 0

\* exec spawns the child at once; app-server has only the client so far.
Launch(c) ==
  /\ Resume(c, "launching")
  /\ overlapped' = (overlapped \/ ~Quiet(c))
  /\ used' = used + 1 /\ registered' = used + 1
  /\ session' = [session EXCEPT ![used + 1].child = IF mode = "exec" THEN "alive" ELSE "none"]
  /\ Await(c, [Idle EXCEPT !.pc = "spawned", !.session = used + 1], "append", 0)
  /\ UNCHANGED <<mode, task, work, restarts>>

Listen(c) ==
  /\ mode = "exec"
  /\ Resume(c, "spawned")
  /\ session' = [session EXCEPT ![handler[c].session].listening = TRUE]
  /\ Return(c)
  /\ UNCHANGED <<mode, task, registered, used, work, restarts, overlapped>>

\* client.start spawns the child whether or not the client was killed since.
SpawnServer(c) ==
  /\ mode = "app-server"
  /\ Resume(c, "spawned")
  /\ session' = [session EXCEPT ![handler[c].session].child = "alive"]
  /\ GoTo(c, [handler[c] EXCEPT !.pc = "handshaking"])
  /\ UNCHANGED <<mode, task, registered, used, work, restarts, overlapped>>

\* initialize and thread/start are answered.
ThreadStarted(c) ==
  /\ Settled
  /\ handler[c].pc = "handshaking"
  /\ session[handler[c].session].child = "alive"
  /\ AwaitAt(c, "threaded", "append", 0)
  /\ UNCHANGED <<mode, task, done, registered, session, used, work, restarts, overlapped>>

RequestTurn(c) ==
  /\ Resume(c, "threaded")
  /\ GoTo(c, [handler[c] EXCEPT !.pc = "turning"])
  /\ UNCHANGED <<mode, task, registered, session, used, work, restarts, overlapped>>

TurnStarted(c) ==
  /\ Settled
  /\ handler[c].pc = "turning"
  /\ session[handler[c].session].child = "alive"
  /\ session' = [session EXCEPT ![handler[c].session].turn = TRUE]
  /\ Return(c)
  /\ UNCHANGED <<mode, task, done, registered, used, work, restarts, overlapped>>

\* client.kill: its child gets a SIGTERM, which does not wait for its end, and
\* its approvals and their timers are dropped.
Killed(row) ==
  [row EXCEPT !.child = IF @ = "alive" THEN "signalled" ELSE @,
              !.closed = TRUE, !.approvals = {}]

\* A request of the handshake is refused, times out, or its child is gone; a
\* turn may have begun all the same.
\* The process record that is removed need not be this handler's own.
StartFails(c) ==
  /\ Settled
  /\ handler[c].pc \in {"handshaking", "turning"}
  /\ \E turn \in {FALSE, handler[c].pc = "turning"} :
       session' = [session EXCEPT ![handler[c].session] = [Killed(@) EXCEPT !.turn = turn]]
  /\ registered' = 0
  /\ Fail(c, "failing")
  /\ UNCHANGED <<mode, task, done, used, work, restarts, overlapped>>

-----------------------------------------------------------------------------
(* cancel and decide.                                                        *)

Cancel(c) ==
  /\ Settled
  /\ c \in Cancellers /\ handler[c].pc = "idle"
  /\ registered # 0
  /\ session' = [session EXCEPT ![registered].cancelled = TRUE]
  /\ Await(c, [Idle EXCEPT !.pc = "cancelling", !.session = registered], "append", 0)
  /\ UNCHANGED <<mode, task, done, registered, used, work, restarts, overlapped>>

\* Mutant: a cancelled exec run is forgotten and failed at once.
SendKillAndForget(c) ==
  /\ mode = "exec"
  /\ Resume(c, "cancelling")
  /\ registered' = 0
  /\ Fail(c, "stopping")
  /\ UNCHANGED <<mode, task, session, used, work, restarts, overlapped>>

\* exec: SIGTERM is sent and the answer given; the rest is left to the exit.
SendKill(c) ==
  /\ mode = "exec"
  /\ Resume(c, "cancelling")
  /\ session' = [session EXCEPT ![handler[c].session].stopped = TRUE]
  /\ Return(c)
  /\ UNCHANGED <<mode, task, registered, used, work, restarts, overlapped>>

\* The record removed is the registered one, whichever that is by now.
KillServer(c) ==
  /\ mode = "app-server"
  /\ Resume(c, "cancelling")
  /\ session' = [session EXCEPT ![handler[c].session] =
                   [Killed(@) EXCEPT !.stopped = ~Failable]]
  /\ registered' = 0
  /\ Fail(c, "stopping")
  /\ UNCHANGED <<mode, task, used, work, restarts, overlapped>>

Stopped(c) ==
  /\ Resume(c, "stopping")
  /\ session' = [session EXCEPT ![handler[c].session].stopped = TRUE]
  /\ Return(c)
  /\ UNCHANGED <<mode, task, registered, used, work, restarts, overlapped>>

\* The user answers the request that the dashboard shows.
Click(c) ==
  /\ Settled
  /\ c \in Deciders /\ handler[c].pc = "idle"
  /\ task.status = "NEEDS_INPUT"
  /\ GoTo(c, [Idle EXCEPT !.pc = "clicked", !.seen = task.pending])
  /\ UNCHANGED <<mode, task, done, registered, session, used, work, restarts, overlapped>>

\* decide takes the request that is pending when the click arrives.
Decide(c) ==
  /\ Settled
  /\ handler[c].pc = "clicked"
  /\ IF /\ task.status = "NEEDS_INPUT" /\ registered # 0
        /\ task.pending \in session[registered].approvals
     THEN Await(c, [handler[c] EXCEPT !.pc = "deciding", !.session = registered,
                                      !.request = task.pending], "RUNNING", 0)
     ELSE Return(c)
  /\ UNCHANGED <<mode, task, done, registered, session, used, work, restarts, overlapped>>

Decided(c) ==
  /\ Resume(c, "deciding")
  /\ AwaitAt(c, "answering", "append", 0)
  /\ UNCHANGED <<mode, task, registered, session, used, work, restarts, overlapped>>

\* client.decide: the answer is written, or the approval has gone since.
Answer(c) ==
  /\ Resume(c, "answering")
  /\ LET s == handler[c].session
         q == handler[c].request
     IN  IF q \in session[s].approvals
         THEN /\ session' = [session EXCEPT ![s].approvals = @ \ {q}]
              /\ Return(c)
         ELSE Fail(c, "failing") /\ UNCHANGED session
  /\ UNCHANGED <<mode, task, registered, used, work, restarts, overlapped>>

-----------------------------------------------------------------------------
(* The agent: a child process that works in the worktree, asks, and ends.    *)

\* A killed child ends its turn or not; an orphan has nobody to tell.
Heard(s) == session[s].child \in {"alive", "signalled"}

Working(s) ==
  /\ Heard(s) \/ session[s].child = "orphan"
  /\ mode = "exec" \/ session[s].turn

AgentWorks(s) ==
  /\ Settled
  /\ Working(s)
  /\ work' \in {"dirty", "committed"} \ {work}
  /\ UNCHANGED <<mode, task, queue, done, handler, registered, session, used, restarts, overlapped>>

\* The callbacks of a session wait in its consumeQueue.
Notify(row, event, request, ok) ==
  [row EXCEPT !.inbox = Append(@, [event |-> event, request |-> request, ok |-> ok])]

\* Bound: MaxApprovals requests of a session.
AgentAsks(s) ==
  /\ Settled
  /\ mode = "app-server" /\ Working(s) /\ Heard(s)
  /\ session[s].asked < MaxApprovals
  /\ LET q == session[s].asked + 1
         row == [session[s] EXCEPT !.asked = q, !.approvals = @ \cup {q}]
     IN  session' = [session EXCEPT ![s] = Notify(row, "approval", q, FALSE)]
  /\ UNCHANGED <<mode, task, queue, done, handler, registered, used, work, restarts, overlapped>>

\* Mutant: the timer answers the agent and tells the runner nothing.
ExpireSilently(s) ==
  /\ Settled
  /\ \E q \in session[s].approvals : session' = [session EXCEPT ![s].approvals = @ \ {q}]
  /\ UNCHANGED <<mode, task, queue, done, handler, registered, used, work, restarts, overlapped>>

\* approvalTimeoutMs has passed for an approval of the client.
Expire(s) ==
  /\ Settled
  /\ \E q \in session[s].approvals :
       LET row == [session[s] EXCEPT !.approvals = @ \ {q}]
       IN  session' = [session EXCEPT ![s] = Notify(row, "timeout", q, FALSE)]
  /\ UNCHANGED <<mode, task, queue, done, handler, registered, used, work, restarts, overlapped>>

\* turn/completed arrives, with status completed or another.
TurnEnds(s) ==
  /\ Settled
  /\ mode = "app-server" /\ Working(s) /\ Heard(s)
  /\ \E ok \in BOOLEAN :
       session' = [session EXCEPT ![s] = Notify([@ EXCEPT !.turn = FALSE], "turn", 0, ok)]
  /\ UNCHANGED <<mode, task, queue, done, handler, registered, used, work, restarts, overlapped>>

\* The child of an app-server exits: the client closes unless it was killed.
ServerExits(s) ==
  /\ Settled
  /\ mode = "app-server" /\ session[s].child \in {"alive", "signalled", "orphan"}
  /\ LET row == [session[s] EXCEPT !.child = "dead", !.turn = FALSE]
     IN  session' = [session EXCEPT ![s] =
           IF row.closed THEN row
           ELSE Notify([row EXCEPT !.closed = TRUE, !.approvals = {}], "close", 0, FALSE)]
  /\ UNCHANGED <<mode, task, queue, done, handler, registered, used, work, restarts, overlapped>>

\* codex exec exits, with code 0 or not; without a listener that is not noticed.
AgentExits(s) ==
  /\ Settled
  /\ mode = "exec" /\ session[s].child \in {"alive", "orphan"}
  /\ session' = [session EXCEPT ![s].child = "dead"]
  /\ IF session[s].listening
     THEN \E ok \in BOOLEAN :
            GoTo(s, [Idle EXCEPT !.pc = "exiting", !.session = registered, !.ok = ok])
     ELSE UNCHANGED <<handler, queue>>
  /\ UNCHANGED <<mode, task, done, registered, used, work, restarts, overlapped>>

-----------------------------------------------------------------------------
(* The callbacks of a session.  They act on the record that is registered    *)
(* when they run, not on the session they belong to.                         *)

Receive(s, event) ==
  /\ ~Ended
  /\ handler[s].pc = "idle"
  /\ session[s].inbox # <<>> /\ Head(session[s].inbox).event = event

Received(s) == [session EXCEPT ![s].inbox = Tail(@)]

\* Nothing is registered: every callback returns.
IgnoreEvent(s) ==
  /\ \E event \in {"approval", "timeout", "turn", "close"} : Receive(s, event)
  /\ registered = 0
  /\ session' = Received(s)
  /\ UNCHANGED <<mode, task, queue, done, handler, registered, used, work, restarts, overlapped>>

\* A request beside another, or outside RUNNING, is cancelled at once.
HandleApproval(s) ==
  /\ Receive(s, "approval") /\ registered # 0
  /\ LET q == Head(session[s].inbox).request
     IN  IF task.status = "RUNNING"
         THEN /\ session' = Received(s)
              /\ Await(s, [Idle EXCEPT !.pc = "asking"], "NEEDS_INPUT", q)
         ELSE /\ session' = [Received(s) EXCEPT ![registered].approvals = @ \ {q}]
              /\ AwaitAt(s, "noted", "append", 0)
  /\ UNCHANGED <<mode, task, done, registered, used, work, restarts, overlapped>>

Asked(s) ==
  /\ Resume(s, "asking")
  /\ AwaitAt(s, "noted", "append", 0)
  /\ UNCHANGED <<mode, task, registered, session, used, work, restarts, overlapped>>

HandleTimeout(s) ==
  /\ Receive(s, "timeout") /\ registered # 0
  /\ IF task.status = "NEEDS_INPUT" /\ task.pending = Head(session[s].inbox).request
     THEN /\ session' = [Received(s) EXCEPT ![registered] = Killed(@)]
          /\ registered' = 0
          /\ Fail(s, "failing")
     ELSE /\ session' = Received(s)
          /\ UNCHANGED <<registered, handler, queue>>
  /\ UNCHANGED <<mode, task, done, used, work, restarts, overlapped>>

HandleTurn(s) ==
  /\ Receive(s, "turn") /\ registered # 0
  /\ session' = Received(s)
  /\ Await(s, [Idle EXCEPT !.pc = "ending", !.session = registered,
                           !.ok = Head(session[s].inbox).ok], "append", 0)
  /\ UNCHANGED <<mode, task, done, registered, used, work, restarts, overlapped>>

EndTurn(s) ==
  /\ Resume(s, "ending")
  /\ session' = [session EXCEPT ![handler[s].session] = Killed(@)]
  /\ registered' = 0
  /\ IF handler[s].ok /\ task.status = "RUNNING"
     THEN AwaitAt(s, "verifying", "VERIFYING", 0)
     ELSE Fail(s, "failing")
  /\ UNCHANGED <<mode, task, used, work, restarts, overlapped>>

HandleClose(s) ==
  /\ Receive(s, "close") /\ registered # 0
  /\ session' = Received(s)
  /\ registered' = 0
  /\ IF task.status \in {"RUNNING", "NEEDS_INPUT"} THEN Fail(s, "failing") ELSE Return(s)
  /\ UNCHANGED <<mode, task, done, used, work, restarts, overlapped>>

\* Mutant: an exit with code 0 is a success even of a cancelled run.
ExitCodeFails(s) == ~handler[s].ok

ExitFails(s) ==
  \/ handler[s].session # 0 /\ session[handler[s].session].cancelled
  \/ ~handler[s].ok

\* The output of codex exec has been consumed.
HandleExit(s) ==
  /\ Settled
  /\ handler[s].pc = "exiting"
  /\ registered' = 0
  /\ IF task.status # "RUNNING" THEN Return(s)
     ELSE IF ExitFails(s) THEN Fail(s, "failing")
     ELSE AwaitAt(s, "verifying", "VERIFYING", 0)
  /\ UNCHANGED <<mode, task, done, session, used, work, restarts, overlapped>>

-----------------------------------------------------------------------------
(* verify: the project's checks, then the state of the worktree.             *)

StartChecks(s) ==
  /\ Resume(s, "verifying")
  /\ GoTo(s, [handler[s] EXCEPT !.pc = "checking"])
  /\ UNCHANGED <<mode, task, registered, session, used, work, restarts, overlapped>>

\* All checks are one step, which need not come: runCheck has no timeout.
\* They may leave files in the worktree.
RunChecks(s) ==
  /\ Settled
  /\ handler[s].pc = "checking"
  /\ \E passed \in BOOLEAN, left \in {work, "dirty"} :
       /\ work' = IF passed /\ left = "committed" THEN "checked" ELSE left
       /\ Await(s, [handler[s] EXCEPT !.pc = "checked", !.ok = passed], "append", 0)
  /\ UNCHANGED <<mode, task, done, registered, session, used, restarts, overlapped>>

\* Mutant: failed checks end the verification without failing the task.
CheckedQuietly(s) ==
  /\ Resume(s, "checked")
  /\ IF handler[s].ok THEN GoTo(s, [handler[s] EXCEPT !.pc = "collecting"]) ELSE Return(s)
  /\ UNCHANGED <<mode, task, registered, session, used, work, restarts, overlapped>>

Checked(s) ==
  /\ Resume(s, "checked")
  /\ IF handler[s].ok THEN GoTo(s, [handler[s] EXCEPT !.pc = "collecting"])
                      ELSE Fail(s, "failing")
  /\ UNCHANGED <<mode, task, registered, session, used, work, restarts, overlapped>>

\* Mutant: the evidence is stored without a look at what git status says.
CollectAnything(s) ==
  /\ Settled
  /\ handler[s].pc = "collecting"
  /\ AwaitAt(s, "shipping", "READY_TO_SHIP", 0)
  /\ UNCHANGED <<mode, task, done, registered, session, used, work, restarts, overlapped>>

\* worktreeEvidence has read git status.
CollectEvidence(s) ==
  /\ Settled
  /\ handler[s].pc = "collecting"
  /\ IF work = "dirty" THEN Fail(s, "failing")
                       ELSE AwaitAt(s, "shipping", "READY_TO_SHIP", 0)
  /\ UNCHANGED <<mode, task, done, registered, session, used, work, restarts, overlapped>>

-----------------------------------------------------------------------------
(* Restart.                                                                  *)

\* The core ends and reconciles the task when it is back.  It leaves its
\* children as they are: those that do not end by themselves are orphans.
\* Bound: MaxRestarts.
Restart ==
  /\ restarts < MaxRestarts
  /\ restarts' = restarts + 1
  /\ queue' = <<>> /\ done' = <<>>
  /\ handler' = [h \in Handlers |-> Idle]
  /\ registered' = 0
  /\ \E survivors \in SUBSET {s \in 1..used : Heard(s) \/ session[s].child = "orphan"} :
       session' = [s \in Sessions |->
         IF s > used THEN session[s]
         ELSE [NewSession EXCEPT !.child = IF s \in survivors THEN "orphan" ELSE "dead",
                                 !.closed = TRUE, !.turn = s \in survivors /\ session[s].turn]]
  /\ IF task.status \in {"RUNNING", "VERIFYING"}
     THEN \E recovery \in BOOLEAN :
            task' = [task EXCEPT !.status = "INTERRUPTED", !.recovery = recovery]
     ELSE UNCHANGED task
  /\ UNCHANGED <<mode, used, work, overlapped>>

Init ==
  /\ mode \in Modes
  /\ task = [status |-> "BACKLOG", pending |-> 0, recovery |-> FALSE]
  /\ queue = <<>> /\ done = <<>>
  /\ handler = [h \in Handlers |-> Idle]
  /\ registered = 0 /\ used = 0
  /\ session = [s \in Sessions |-> NewSession]
  /\ work = "committed"
  /\ restarts = 0 /\ overlapped = FALSE

Request(c) == Start(c) \/ Cancel(c) \/ Click(c)

\* A handler goes on after the store has answered it.
GoesOn(h) ==
  \/ Finish(h) \/ Rejected(h)
  \/ Readied(h) \/ Launch(h) \/ Listen(h) \/ SpawnServer(h) \/ RequestTurn(h)
  \/ SendKill(h) \/ KillServer(h) \/ Stopped(h) \/ Decided(h) \/ Answer(h)
  \/ Asked(h) \/ EndTurn(h) \/ StartChecks(h) \/ Checked(h)

\* A handler gets what it awaited of git, of a check or of an agent.
Receives(h) ==
  \/ Prepare(h) \/ ThreadStarted(h) \/ TurnStarted(h) \/ StartFails(h)
  \/ Decide(h) \/ HandleExit(h) \/ RunChecks(h) \/ CollectEvidence(h)

Callback(s) ==
  \/ IgnoreEvent(s) \/ HandleApproval(s) \/ HandleTimeout(s) \/ HandleTurn(s) \/ HandleClose(s)

Agent(s) ==
  \/ AgentWorks(s) \/ AgentAsks(s) \/ Expire(s) \/ TurnEnds(s)
  \/ ServerExits(s) \/ AgentExits(s)

Next ==
  \/ Commit \/ Restart
  \/ \E h \in Handlers : GoesOn(h) \/ Receives(h)
  \/ \E c \in Clients : Request(c)
  \/ \E s \in Sessions : Agent(s) \/ Callback(s)

Spec == Init /\ [][Next]_vars

\* The event loop writes files and runs what is ready (of the handlers that can
\* go on only the first can, so one condition is enough), git ends, and the timer
\* of an approval fires.  Nothing is assumed of agents, of the project's checks
\* and of users.
Fairness ==
  /\ WF_vars(Commit \/ \E h \in Handlers : GoesOn(h))
  /\ WF_vars(\E s \in Sessions :
               HandleExit(s) \/ CollectEvidence(s) \/ Callback(s) \/ Expire(s))

FairSpec == Spec /\ Fairness

-----------------------------------------------------------------------------
(* Properties.                                                               *)

TypeOK ==
  /\ mode \in Modes
  /\ task \in [status : TaskStates, pending : Requests \cup {0}, recovery : BOOLEAN]
  /\ queue \in Seq(Mutation)
  /\ done \in Seq([by : Handlers, ok : BOOLEAN]) /\ Len(done) <= 2
  /\ registered \in 0..used /\ used \in {0} \cup Sessions /\ restarts \in 0..MaxRestarts
  /\ work \in {"dirty", "committed", "checked"} /\ overlapped \in BOOLEAN

\* As long as no session was launched while another was not over, every agent
\* that the core neither killed nor left behind at a restart is the registered
\* one, so that a cancel reaches it, and in exec mode its task is RUNNING.
AgentSupervised ==
  overlapped
    \/ \A s \in Sessions :
         session[s].child = "alive"
           => registered = s /\ (mode = "exec" => task.status = "RUNNING")

\* As long as sessions do not overlap, READY_TO_SHIP means that the checks
\* passed on the commits in the worktree: no agent that was killed, left behind
\* or not listened to has touched them since.
ReadyIsVerified ==
  task.status = "READY_TO_SHIP" => overlapped \/ work = "checked"

\* A step in which the verification that session s began makes the task ready.
ShippedBy(s) ==
  /\ task.status # "READY_TO_SHIP" /\ task'.status = "READY_TO_SHIP"
  /\ Head(queue).by = s

\* A session whose cancellation was answered never makes its task ready to
\* ship, whichever session is the last one, as long as sessions do not overlap.
CancelSticks ==
  [][\A s \in Sessions : ShippedBy(s) => overlapped \/ ~session[s].stopped]_vars

\* A task that waits for a decision under a live session goes on: it is
\* decided, or the approval expires, or the session or the core ends; sessions
\* that overlap are the exception.
ApprovalEnds ==
  task.status = "NEEDS_INPUT" /\ registered # 0
    ~> task.status # "NEEDS_INPUT" \/ registered = 0 \/ overlapped

\* A check of the project is running, and may never end.
Checking == \E s \in Sessions : handler[s].pc = "checking"

\* A verification ends, whatever its checks return and whoever cancels, unless
\* a check hangs or the core has ended.
VerificationEnds ==
  task.status = "VERIFYING" /\ ~Checking ~> task.status # "VERIFYING" \/ Checking \/ Ended
=============================================================================
