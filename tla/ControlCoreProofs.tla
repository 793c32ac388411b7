------------------------- MODULE ControlCoreProofs -------------------------
(***************************************************************************)
(* The theorems of ControlCore.                                              *)
(***************************************************************************)
EXTENDS ControlCore, SequenceTheorems, FiniteSetTheorems, TLAPS

-----------------------------------------------------------------------------
(* Types.                                                                    *)

\* Where a handler awaits the store, and where it does not.
Awaiting ==
  {"readying", "launching", "spawned", "threaded", "cancelling", "stopping", "deciding",
   "answering", "asking", "noted", "ending", "verifying", "checked", "shipping",
   "failing", "catching"}

Resting ==
  {"idle", "preparing", "handshaking", "turning", "clicked", "exiting", "checking",
   "collecting"}

HandlerRow ==
  [pc : Awaiting \cup Resting, session : {0} \cup Sessions, seen : Requests \cup {0},
   request : Requests \cup {0}, ok : BOOLEAN]

Notice ==
  [event : {"approval", "timeout", "turn", "close"}, request : Requests \cup {0}, ok : BOOLEAN]

SessionRow ==
  [child : {"none", "alive", "signalled", "orphan", "dead"}, listening : BOOLEAN, closed : BOOLEAN,
   cancelled : BOOLEAN, stopped : BOOLEAN, turn : BOOLEAN, approvals : SUBSET Requests,
   asked : {0} \cup Requests, inbox : Seq(Notice)]

Launching == {c \in Starters : handler[c].pc \in {"readying", "preparing", "launching"}}

Types ==
  /\ TypeOK
  /\ handler \in [Handlers -> HandlerRow]
  /\ session \in [Sessions -> SessionRow]
  /\ \A h \in Handlers : handler[h].session <= used

\* A start counts as a session until it has launched one.
Room ==
  /\ \A h \in Handlers : handler[h].pc \in {"readying", "preparing", "launching"} => h \in Starters
  /\ used + Cardinality(Launching) <= MaxSessions[mode]

-----------------------------------------------------------------------------
(* The write queue.                                                          *)

\* The handlers that await the store, in the order in which they go on.
Waiting ==
  [i \in 1..(Len(done) + Len(queue)) |->
     IF i <= Len(done) THEN done[i].by ELSE queue[i - Len(done)].by]

Target(pc) ==
  CASE pc = "readying"                              -> "READY"
    [] pc \in {"launching", "deciding"}             -> "RUNNING"
    [] pc = "asking"                                -> "NEEDS_INPUT"
    [] pc = "verifying"                             -> "VERIFYING"
    [] pc = "shipping"                              -> "READY_TO_SHIP"
    [] pc \in {"failing", "stopping", "catching"}   -> "FAILED"
    [] OTHER                                        -> "append"

\* A handler awaits one mutation at a time, the one of the place where it is.
OneMutationEach ==
  /\ \A i, j \in DOMAIN Waiting : Waiting[i] = Waiting[j] => i = j
  /\ \A i \in DOMAIN Waiting : handler[Waiting[i]].pc \in Awaiting
  /\ \A h \in Handlers : handler[h].pc \in Awaiting => \E i \in DOMAIN Waiting : Waiting[i] = h
  /\ \A i \in DOMAIN queue : queue[i].to = Target(handler[queue[i].by].pc)
  /\ \A i \in DOMAIN done : Target(handler[done[i].by].pc) = "append" => done[i].ok

Unlaunched ==
  \A s \in Sessions : s > used => handler[s] = Idle /\ session[s] = NewSession

\* A child that may go on working.
Live == {"alive", "signalled", "orphan"}

ExecRows ==
  mode = "exec" =>
    \A s \in Sessions :
      /\ session[s].inbox = <<>> /\ session[s].approvals = {}
      /\ session[s].child \in Live => handler[s].pc = "idle"

Discipline == OneMutationEach /\ Unlaunched /\ ExecRows

Starting(c) == handler[c].pc \in {"readying", "preparing", "launching"}

-----------------------------------------------------------------------------
(* Steps of the handlers.                                                    *)

\* h goes on: it awaited nothing of the store, or is the first that it answered.
Leaves(h) ==
  \/ handler[h].pc \in Resting /\ done' = done
  \/ handler[h].pc \in Awaiting /\ done # <<>> /\ Head(done).by = h /\ done' = Tail(done)

\* h comes to its next place, and awaits there what belongs to it.
Enters(h) ==
  /\ handler'[h] \in HandlerRow /\ handler'[h].session <= used'
  /\ handler' = [handler EXCEPT ![h] = handler'[h]]
  /\ \/ handler'[h].pc \in Resting /\ queue' = queue
     \/ /\ handler'[h].pc \in Awaiting
        /\ \E p \in Requests \cup {0} :
             queue' = Append(queue, [by |-> h, to |-> Target(handler'[h].pc), pending |-> p])

Moves(h) == Leaves(h) /\ Enters(h)

LEMMA SessionsAreNumbers ==
  /\ Sessions \subseteq Nat \ {0}
  /\ \A m \in Modes : MaxSessions[m] \in Nat /\ 1..MaxSessions[m] \subseteq Sessions
  /\ Clients \cap Sessions = {}
  BY CoreBounds, ClientsAreNoSessions DEF Sessions, Clients

LEMMA AwaitEnters ==
  ASSUME handler \in [Handlers -> HandlerRow],
         NEW h \in Handlers, NEW row \in HandlerRow, row.session <= used', row.pc \in Awaiting,
         NEW to, to = Target(row.pc), NEW p \in Requests \cup {0}, Await(h, row, to, p)
  PROVE  Enters(h) /\ handler'[h] = row
  BY DEF Await, Enters

LEMMA GoToEnters ==
  ASSUME handler \in [Handlers -> HandlerRow],
         NEW h \in Handlers, NEW row \in HandlerRow, row.session <= used', row.pc \in Resting,
         GoTo(h, row)
  PROVE  Enters(h) /\ handler'[h] = row
  BY DEF GoTo, Enters

LEMMA IdleRow ==
  /\ Idle \in HandlerRow /\ Idle.pc = "idle" /\ Idle.session = 0
  /\ Idle.ok = FALSE /\ Idle.seen = 0 /\ Idle.request = 0
  BY DEF Idle, HandlerRow, Resting, Awaiting

LEMMA ReturnEnters ==
  ASSUME Types, used' \in Nat, NEW h \in Handlers, Return(h)
  PROVE  Enters(h) /\ handler'[h] = Idle
  BY IdleRow, GoToEnters DEF Return, Types, Resting

LEMMA ResumeLeaves ==
  ASSUME NEW h, NEW pc \in Awaiting, Resume(h, pc)
  PROVE  Leaves(h)
  BY DEF Resume, Leaves

LEMMA FailEnters ==
  ASSUME Types, used' = used, NEW h \in Handlers, NEW pc \in {"failing", "stopping", "catching"},
         Fail(h, pc)
  PROVE  /\ Enters(h)
         /\ Failable => handler'[h] = [handler[h] EXCEPT !.pc = pc]
         /\ ~Failable => handler'[h] = Idle
  <1>0. used \in Nat
    BY SessionsAreNumbers DEF Types, TypeOK
  <1>1. CASE Failable
    <2> DEFINE row == [handler[h] EXCEPT !.pc = pc]
    <2>1. row \in HandlerRow /\ row.session <= used' /\ row.pc = pc /\ pc \in Awaiting
      BY DEF Types, HandlerRow, Awaiting
    <2>2. Target(pc) = "FAILED"
      BY DEF Target
    <2>3. Await(h, row, "FAILED", 0)
      BY <1>1 DEF Fail, AwaitAt
    <2> HIDE DEF row
    <2>4. Enters(h) /\ handler'[h] = row
      BY <2>1, <2>2, <2>3, AwaitEnters DEF Types
    <2>5. QED
      BY <1>1, <2>4 DEF row
  <1>2. CASE ~Failable
    BY <1>0, <1>2, ReturnEnters DEF Fail
  <1>3. QED
    BY <1>1, <1>2

LEMMA AwaitAtEnters ==
  ASSUME Types, used' = used, NEW h \in Handlers, NEW pc \in Awaiting, NEW to, to = Target(pc),
         NEW p \in Requests \cup {0}, AwaitAt(h, pc, to, p)
  PROVE  Enters(h) /\ handler'[h] = [handler[h] EXCEPT !.pc = pc]
  <1> DEFINE row == [handler[h] EXCEPT !.pc = pc]
  <1>1. row \in HandlerRow /\ row.session <= used' /\ row.pc = pc
    BY DEF Types, HandlerRow
  <1>2. Await(h, row, to, p)
    BY DEF AwaitAt
  <1> HIDE DEF row
  <1>3. Enters(h) /\ handler'[h] = row
    BY <1>1, <1>2, AwaitEnters DEF Types
  <1>4. QED
    BY <1>3 DEF row

LEMMA GoToAtEnters ==
  ASSUME Types, used' = used, NEW h \in Handlers, NEW pc \in Resting,
         GoTo(h, [handler[h] EXCEPT !.pc = pc])
  PROVE  Enters(h) /\ handler'[h] = [handler[h] EXCEPT !.pc = pc]
  <1> DEFINE row == [handler[h] EXCEPT !.pc = pc]
  <1>1. row \in HandlerRow /\ row.session <= used' /\ row.pc = pc
    BY DEF Types, HandlerRow
  <1>2. GoTo(h, row)
    OBVIOUS
  <1> HIDE DEF row
  <1>3. Enters(h) /\ handler'[h] = row
    BY <1>1, <1>2, GoToEnters DEF Types
  <1>4. QED
    BY <1>3 DEF row

\* A new row of a handler, at the place it begins with or comes to.
LEMMA BeginsAt ==
  ASSUME NEW pc \in Awaiting \cup Resting, NEW row, row = [Idle EXCEPT !.pc = pc]
  PROVE  row \in HandlerRow /\ row.pc = pc /\ row.session = 0 /\ row.ok = FALSE
  <1>1. Idle \in HandlerRow /\ Idle.session = 0 /\ Idle.ok = FALSE
    BY IdleRow
  <1>2. QED
    BY <1>1 DEF HandlerRow

LEMMA BeginsWith ==
  ASSUME NEW pc \in Awaiting \cup Resting, NEW s \in {0} \cup Sessions,
         NEW row, row = [Idle EXCEPT !.pc = pc, !.session = s]
  PROVE  row \in HandlerRow /\ row.pc = pc /\ row.session = s /\ row.ok = FALSE
  <1>1. Idle \in HandlerRow /\ Idle.ok = FALSE
    BY IdleRow
  <1>2. QED
    BY <1>1 DEF HandlerRow

LEMMA Numbers ==
  ASSUME Types
  PROVE  /\ used \in Nat /\ registered \in Nat /\ registered <= used
         /\ registered \in {0} \cup Sessions
         /\ task.pending \in Requests \cup {0}
  <1>1. mode \in Modes /\ used \in {0} \cup Sessions /\ registered \in 0..used
    BY DEF Types, TypeOK
  <1>2. \A i \in {0} \cup Sessions : \A j \in 1..i : j \in Sessions
    BY CoreBounds DEF Sessions
  <1>3. QED
    BY <1>1, <1>2, SessionsAreNumbers DEF Types, TypeOK

\* The first handler that the store has answered awaits it.
LEMMA AnsweredAwaits ==
  ASSUME Types, OneMutationEach, done # <<>>
  PROVE  /\ 1 \in DOMAIN Waiting /\ Waiting[1] = Head(done).by
         /\ Head(done).by \in Handlers /\ handler[Head(done).by].pc \in Awaiting
  <1>1. done \in Seq([by : Handlers, ok : BOOLEAN]) /\ Len(done) \in Nat /\ Len(queue) \in Nat
    BY DEF Types, TypeOK
  <1>2. Len(done) >= 1 /\ 1 \in DOMAIN done /\ Head(done) = done[1]
    BY <1>1
  <1>3. 1 \in DOMAIN Waiting /\ Waiting[1] = Head(done).by
    BY <1>1, <1>2 DEF Waiting
  <1>4. Head(done) \in [by : Handlers, ok : BOOLEAN]
    BY <1>1, HeadTailProperties
  <1>5. handler[Waiting[1]].pc \in Awaiting
    BY <1>3 DEF OneMutationEach
  <1>6. QED
    BY <1>3, <1>4, <1>5

\* A start that was let in has room for its session.
LEMMA RoomToLaunch ==
  ASSUME Types, Room, NEW c \in Handlers, Starting(c)
  PROVE  used + 1 \in Sessions /\ used + 1 <= MaxSessions[mode]
  <1>1. Launching \subseteq Starters /\ c \in Launching
    BY DEF Launching, Starting, Room
  <1>2. IsFiniteSet(Launching)
    BY <1>1, FS_Subset, CoreBounds
  <1>3. Cardinality(Launching) \in Nat /\ Cardinality(Launching) # 0
    BY <1>1, <1>2, FS_CardinalityType, FS_EmptySet
  <1>4. used + 1 <= MaxSessions[mode]
    BY <1>3, Numbers, SessionsAreNumbers DEF Room, Types, TypeOK
  <1>5. QED
    BY <1>4, Numbers, SessionsAreNumbers DEF Types, TypeOK

\* Every step that goes on after the store has answered is a move of its handler.
LEMMA GoesOnMoves ==
  ASSUME Types, Room, Discipline, NEW h \in Handlers, GoesOn(h)
  PROVE  Moves(h)
  <1> USE Numbers
  <1>1. CASE Finish(h)
    <2>1. Leaves(h)
      BY <1>1, ResumeLeaves DEF Finish, Awaiting
    <2>2. Enters(h)
      BY <1>1, ReturnEnters DEF Finish
    <2>3. QED
      BY <2>1, <2>2 DEF Moves
  <1>2. CASE Rejected(h)
    <2>1. Leaves(h)
      BY <1>2, AnsweredAwaits DEF Rejected, Leaves, Discipline
    <2>2. Enters(h)
      BY <1>2, ReturnEnters, FailEnters DEF Rejected
    <2>3. QED
      BY <2>1, <2>2 DEF Moves
  <1>3. CASE Readied(h)
    <2>1. Leaves(h)
      BY <1>3, ResumeLeaves DEF Readied, Awaiting
    <2> DEFINE row == [Idle EXCEPT !.pc = "preparing"]
    <2>2. GoTo(h, row)
      BY <1>3 DEF Readied
    <2>3. row \in HandlerRow /\ row.pc = "preparing" /\ row.session = 0
      BY BeginsAt DEF Resting
    <2> HIDE DEF row
    <2>4. Enters(h)
      BY <1>3, <2>2, <2>3, GoToEnters DEF Resting, Readied, Types
    <2>5. QED
      BY <2>1, <2>4 DEF Moves
  <1>4. CASE Launch(h)
    <2>1. Leaves(h)
      BY <1>4, ResumeLeaves DEF Launch, Awaiting
    <2> DEFINE row == [Idle EXCEPT !.pc = "spawned", !.session = used + 1]
    <2>2. used + 1 \in Sessions
      BY <1>4, RoomToLaunch DEF Launch, Resume, Starting
    <2>3. row \in HandlerRow /\ row.pc = "spawned" /\ row.session = used + 1
      <3>1. "spawned" \in Awaiting /\ Idle \in HandlerRow
        BY IdleRow DEF Awaiting
      <3>2. QED
        BY <2>2, <3>1 DEF HandlerRow
    <2>4. Await(h, row, "append", 0)
      BY <1>4 DEF Launch
    <2>5. Target("spawned") = "append" /\ "spawned" \in Awaiting
      BY DEF Target, Awaiting
    <2> HIDE DEF row
    <2>6. row.session <= used'
      BY <1>4, <2>3 DEF Launch
    <2>8. Enters(h)
      BY <2>3, <2>4, <2>5, <2>6, AwaitEnters DEF Types
    <2>9. QED
      BY <2>1, <2>8 DEF Moves
  <1>5. CASE Listen(h)
    <2>1. Leaves(h)
      BY <1>5, ResumeLeaves DEF Listen, Awaiting
    <2>2. Enters(h)
      BY <1>5, ReturnEnters DEF Listen
    <2>3. QED
      BY <2>1, <2>2 DEF Moves
  <1>6. CASE SpawnServer(h)
    <2>1. Leaves(h)
      BY <1>6, ResumeLeaves DEF SpawnServer, Awaiting
    <2>2. Enters(h)
      BY <1>6, GoToAtEnters DEF SpawnServer, Resting
    <2>3. QED
      BY <2>1, <2>2 DEF Moves
  <1>7. CASE RequestTurn(h)
    <2>1. Leaves(h)
      BY <1>7, ResumeLeaves DEF RequestTurn, Awaiting
    <2>2. Enters(h)
      BY <1>7, GoToAtEnters DEF RequestTurn, Resting
    <2>3. QED
      BY <2>1, <2>2 DEF Moves
  <1>8. CASE SendKill(h)
    <2>1. Leaves(h)
      BY <1>8, ResumeLeaves DEF SendKill, Awaiting
    <2>2. Enters(h)
      BY <1>8, ReturnEnters DEF SendKill
    <2>3. QED
      BY <2>1, <2>2 DEF Moves
  <1>9. CASE KillServer(h)
    <2>1. Leaves(h)
      BY <1>9, ResumeLeaves DEF KillServer, Awaiting
    <2>2. Enters(h)
      BY <1>9, FailEnters DEF KillServer
    <2>3. QED
      BY <2>1, <2>2 DEF Moves
  <1>10. CASE Stopped(h)
    <2>1. Leaves(h)
      BY <1>10, ResumeLeaves DEF Stopped, Awaiting
    <2>2. Enters(h)
      BY <1>10, ReturnEnters DEF Stopped
    <2>3. QED
      BY <2>1, <2>2 DEF Moves
  <1>11. CASE Decided(h)
    <2>1. Leaves(h)
      BY <1>11, ResumeLeaves DEF Decided, Awaiting
    <2>2. Enters(h)
      BY <1>11, AwaitAtEnters DEF Decided, Awaiting, Target
    <2>3. QED
      BY <2>1, <2>2 DEF Moves
  <1>12. CASE Answer(h)
    <2>1. Leaves(h)
      BY <1>12, ResumeLeaves DEF Answer, Awaiting
    <2>2. Return(h) \/ Fail(h, "failing")
      BY <1>12 DEF Answer
    <2>3. Enters(h)
      BY <1>12, <2>2, ReturnEnters, FailEnters DEF Answer
    <2>4. QED
      BY <2>1, <2>3 DEF Moves
  <1>13. CASE Asked(h)
    <2>1. Leaves(h)
      BY <1>13, ResumeLeaves DEF Asked, Awaiting
    <2>2. Enters(h)
      BY <1>13, AwaitAtEnters DEF Asked, Awaiting, Target
    <2>3. QED
      BY <2>1, <2>2 DEF Moves
  <1>14. CASE EndTurn(h)
    <2>1. Leaves(h)
      BY <1>14, ResumeLeaves DEF EndTurn, Awaiting
    <2>2. AwaitAt(h, "verifying", "VERIFYING", 0) \/ Fail(h, "failing")
      BY <1>14 DEF EndTurn
    <2>3. Enters(h)
      BY <1>14, <2>2, AwaitAtEnters, FailEnters DEF EndTurn, Awaiting, Target
    <2>4. QED
      BY <2>1, <2>3 DEF Moves
  <1>15. CASE StartChecks(h)
    <2>1. Leaves(h)
      BY <1>15, ResumeLeaves DEF StartChecks, Awaiting
    <2>2. Enters(h)
      BY <1>15, GoToAtEnters DEF StartChecks, Resting
    <2>3. QED
      BY <2>1, <2>2 DEF Moves
  <1>16. CASE Checked(h)
    <2>1. Leaves(h)
      BY <1>16, ResumeLeaves DEF Checked, Awaiting
    <2>2. GoTo(h, [handler[h] EXCEPT !.pc = "collecting"]) \/ Fail(h, "failing")
      BY <1>16 DEF Checked
    <2>3. Enters(h)
      BY <1>16, <2>2, GoToAtEnters, FailEnters DEF Checked, Resting
    <2>4. QED
      BY <2>1, <2>3 DEF Moves
  <1>17. QED
    BY <1>1, <1>2, <1>3, <1>4, <1>5, <1>6, <1>7, <1>8, <1>9, <1>10, <1>11, <1>12, <1>13,
       <1>14, <1>15, <1>16 DEF GoesOn

LEMMA RestingLeaves ==
  ASSUME NEW h, handler[h].pc \in Resting, done' = done
  PROVE  Leaves(h)
  BY DEF Leaves

\* Every step that brings a handler what it waited for outside is its move.
LEMMA ReceivesMoves ==
  ASSUME Types, Room, Discipline, NEW h \in Handlers, Receives(h)
  PROVE  Moves(h)
  <1> USE Numbers
  <1>1. CASE Prepare(h)
    <2>1. Leaves(h)
      BY <1>1, RestingLeaves DEF Prepare, Resting
    <2>2. Return(h) \/ AwaitAt(h, "launching", "RUNNING", 0)
      BY <1>1 DEF Prepare
    <2>3. Enters(h)
      BY <1>1, <2>2, ReturnEnters, AwaitAtEnters DEF Prepare, Awaiting, Target
    <2>4. QED
      BY <2>1, <2>3 DEF Moves
  <1>2. CASE ThreadStarted(h)
    <2>1. Leaves(h)
      BY <1>2, RestingLeaves DEF ThreadStarted, Resting
    <2>2. Enters(h)
      BY <1>2, AwaitAtEnters DEF ThreadStarted, Awaiting, Target
    <2>3. QED
      BY <2>1, <2>2 DEF Moves
  <1>3. CASE TurnStarted(h)
    <2>1. Leaves(h)
      BY <1>3, RestingLeaves DEF TurnStarted, Resting
    <2>2. Enters(h)
      BY <1>3, ReturnEnters DEF TurnStarted
    <2>3. QED
      BY <2>1, <2>2 DEF Moves
  <1>4. CASE StartFails(h)
    <2>1. Leaves(h)
      BY <1>4, RestingLeaves DEF StartFails, Resting
    <2>2. Enters(h)
      BY <1>4, FailEnters DEF StartFails
    <2>3. QED
      BY <2>1, <2>2 DEF Moves
  <1>5. CASE Decide(h)
    <2>1. Leaves(h)
      BY <1>5, RestingLeaves DEF Decide, Resting
    <2> DEFINE row == [handler[h] EXCEPT !.pc = "deciding", !.session = registered,
                                         !.request = task.pending]
    <2>2. row \in HandlerRow /\ row.pc = "deciding" /\ row.session = registered
      <3>1. "deciding" \in Awaiting /\ handler[h] \in HandlerRow
        BY DEF Awaiting, Types
      <3>2. QED
        BY <3>1 DEF HandlerRow
    <2>3. Return(h) \/ Await(h, row, "RUNNING", 0)
      BY <1>5 DEF Decide
    <2>4. used' = used /\ Target("deciding") = "RUNNING" /\ "deciding" \in Awaiting
      BY <1>5 DEF Decide, Target, Awaiting
    <2> HIDE DEF row
    <2>5. Enters(h)
      BY <2>2, <2>3, <2>4, ReturnEnters, AwaitEnters DEF Types
    <2>6. QED
      BY <2>1, <2>5 DEF Moves
  <1>6. CASE HandleExit(h)
    <2>1. Leaves(h)
      BY <1>6, RestingLeaves DEF HandleExit, Resting
    <2>2. Return(h) \/ Fail(h, "failing") \/ AwaitAt(h, "verifying", "VERIFYING", 0)
      BY <1>6 DEF HandleExit
    <2>3. Enters(h)
      BY <1>6, <2>2, ReturnEnters, FailEnters, AwaitAtEnters DEF HandleExit, Awaiting, Target
    <2>4. QED
      BY <2>1, <2>3 DEF Moves
  <1>7. CASE RunChecks(h)
    <2>1. Leaves(h)
      BY <1>7, RestingLeaves DEF RunChecks, Resting
    <2>2. PICK passed \in BOOLEAN : Await(h, [handler[h] EXCEPT !.pc = "checked", !.ok = passed], "append", 0)
      BY <1>7 DEF RunChecks
    <2> DEFINE row == [handler[h] EXCEPT !.pc = "checked", !.ok = passed]
    <2>3. row \in HandlerRow /\ row.pc = "checked" /\ row.session = handler[h].session
      <3>1. "checked" \in Awaiting /\ handler[h] \in HandlerRow
        BY DEF Awaiting, Types
      <3>2. QED
        BY <3>1 DEF HandlerRow
    <2>4. used' = used /\ Target("checked") = "append" /\ "checked" \in Awaiting
      BY <1>7 DEF RunChecks, Target, Awaiting
    <2>5. Await(h, row, "append", 0)
      BY <2>2
    <2> HIDE DEF row
    <2>6. row.session <= used'
      BY <2>3, <2>4 DEF Types
    <2>7. Enters(h)
      BY <2>3, <2>4, <2>5, <2>6, AwaitEnters DEF Types
    <2>8. QED
      BY <2>1, <2>7 DEF Moves
  <1>8. CASE CollectEvidence(h)
    <2>1. Leaves(h)
      BY <1>8, RestingLeaves DEF CollectEvidence, Resting
    <2>2. Fail(h, "failing") \/ AwaitAt(h, "shipping", "READY_TO_SHIP", 0)
      BY <1>8 DEF CollectEvidence
    <2>3. Enters(h)
      BY <1>8, <2>2, FailEnters, AwaitAtEnters DEF CollectEvidence, Awaiting, Target
    <2>4. QED
      BY <2>1, <2>3 DEF Moves
  <1>9. QED
    BY <1>1, <1>2, <1>3, <1>4, <1>5, <1>6, <1>7, <1>8 DEF Receives

LEMMA RequestMoves ==
  ASSUME Types, Room, Discipline, NEW c \in Clients, Request(c)
  PROVE  Moves(c)
  <1> USE Numbers
  <1>0. c \in Handlers
    BY DEF Handlers
  <1>1. CASE Start(c)
    <2>1. Leaves(c)
      BY <1>1, RestingLeaves DEF Start, Resting
    <2> DEFINE row == [Idle EXCEPT !.pc = "preparing"]
    <2>2. AwaitAt(c, "readying", "READY", 0) \/ GoTo(c, row)
      BY <1>1 DEF Start
    <2>3. row \in HandlerRow /\ row.pc = "preparing" /\ row.session = 0
      BY BeginsAt DEF Resting
    <2> HIDE DEF row
    <2>4. Enters(c)
      BY <1>0, <1>1, <2>2, <2>3, AwaitAtEnters, GoToEnters
      DEF Start, Awaiting, Resting, Target, Types
    <2>5. QED
      BY <2>1, <2>4 DEF Moves
  <1>2. CASE Cancel(c)
    <2>1. Leaves(c)
      BY <1>2, RestingLeaves DEF Cancel, Resting
    <2> DEFINE row == [Idle EXCEPT !.pc = "cancelling", !.session = registered]
    <2>2. Await(c, row, "append", 0)
      BY <1>2 DEF Cancel
    <2>3. row \in HandlerRow /\ row.pc = "cancelling" /\ row.session = registered
      <3>1. "cancelling" \in Awaiting /\ Idle \in HandlerRow
        BY IdleRow DEF Awaiting
      <3>2. QED
        BY <3>1 DEF HandlerRow
    <2>4. used' = used /\ Target("cancelling") = "append" /\ "cancelling" \in Awaiting
      BY <1>2 DEF Cancel, Target, Awaiting
    <2> HIDE DEF row
    <2>5. Enters(c)
      BY <1>0, <2>2, <2>3, <2>4, AwaitEnters DEF Types
    <2>6. QED
      BY <2>1, <2>5 DEF Moves
  <1>3. CASE Click(c)
    <2>1. Leaves(c)
      BY <1>3, RestingLeaves DEF Click, Resting
    <2> DEFINE row == [Idle EXCEPT !.pc = "clicked", !.seen = task.pending]
    <2>2. GoTo(c, row)
      BY <1>3 DEF Click
    <2>3. row \in HandlerRow /\ row.pc = "clicked" /\ row.session = 0
      <3>1. "clicked" \in Resting /\ Idle \in HandlerRow /\ Idle.session = 0
        BY IdleRow DEF Resting
      <3>2. QED
        BY <3>1 DEF HandlerRow
    <2>4. used' = used /\ "clicked" \in Resting
      BY <1>3 DEF Click, Resting
    <2> HIDE DEF row
    <2>5. Enters(c)
      BY <1>0, <2>2, <2>3, <2>4, GoToEnters DEF Types
    <2>6. QED
      BY <2>1, <2>5 DEF Moves
  <1>4. QED
    BY <1>1, <1>2, <1>3 DEF Request

LEMMA NoticeTyped ==
  ASSUME Types, NEW s \in Sessions, session[s].inbox # <<>>
  PROVE  /\ Head(session[s].inbox) \in Notice
         /\ Tail(session[s].inbox) \in Seq(Notice)
         /\ Len(Tail(session[s].inbox)) = Len(session[s].inbox) - 1
         /\ \A i \in 1..Len(Tail(session[s].inbox)) : Tail(session[s].inbox)[i] = session[s].inbox[i + 1]
  <1>1. session[s].inbox \in Seq(Notice)
    BY DEF Types, SessionRow
  <1>2. QED
    BY <1>1, HeadTailProperties

\* A callback of a session begins a move, or is over at once.
LEMMA CallbackMoves ==
  ASSUME Types, Room, Discipline, NEW s \in Sessions, Callback(s)
  PROVE  Moves(s) \/ UNCHANGED <<handler, queue, done>>
  <1> USE Numbers
  <1>0. s \in Handlers
    BY DEF Handlers
  <1>l. ASSUME NEW event, Receive(s, event), done' = done
        PROVE  Leaves(s)
    BY <1>l, RestingLeaves DEF Receive, Resting
  <1>1. CASE IgnoreEvent(s)
    BY <1>1 DEF IgnoreEvent
  <1>2. CASE HandleApproval(s)
    <2>1. Leaves(s)
      BY <1>2, <1>l DEF HandleApproval
    <2>2. Head(session[s].inbox).request \in Requests \cup {0}
      BY <1>2, NoticeTyped DEF HandleApproval, Receive, Notice
    <2> DEFINE q == Head(session[s].inbox).request
               row == [Idle EXCEPT !.pc = "asking"]
    <2>3. Await(s, row, "NEEDS_INPUT", q) \/ AwaitAt(s, "noted", "append", 0)
      BY <1>2 DEF HandleApproval
    <2>4. row \in HandlerRow /\ row.pc = "asking" /\ row.session = 0
      BY BeginsAt DEF Awaiting
    <2>5. /\ used' = used /\ Target("asking") = "NEEDS_INPUT" /\ Target("noted") = "append"
          /\ "asking" \in Awaiting /\ "noted" \in Awaiting
      BY <1>2 DEF HandleApproval, Target, Awaiting
    <2>6. q \in Requests \cup {0}
      BY <2>2
    <2> HIDE DEF row, q
    <2>7. CASE Await(s, row, "NEEDS_INPUT", q)
      BY <1>0, <2>1, <2>4, <2>5, <2>6, <2>7, AwaitEnters DEF Types, Moves
    <2>8. CASE AwaitAt(s, "noted", "append", 0)
      BY <1>0, <2>1, <2>5, <2>8, AwaitAtEnters DEF Moves
    <2>9. QED
      BY <2>3, <2>7, <2>8
  <1>3. CASE HandleTimeout(s)
    <2>1. Leaves(s)
      BY <1>3, <1>l DEF HandleTimeout
    <2>2. Fail(s, "failing") \/ UNCHANGED <<handler, queue, done>>
      BY <1>3 DEF HandleTimeout
    <2>3. CASE Fail(s, "failing")
      BY <1>0, <1>3, <2>1, <2>3, FailEnters DEF HandleTimeout, Moves
    <2>4. QED
      BY <2>2, <2>3
  <1>4. CASE HandleTurn(s)
    <2>1. Leaves(s)
      BY <1>4, <1>l DEF HandleTurn
    <2>2. Head(session[s].inbox).ok \in BOOLEAN
      BY <1>4, NoticeTyped DEF HandleTurn, Receive, Notice
    <2> DEFINE row == [Idle EXCEPT !.pc = "ending", !.session = registered,
                                   !.ok = Head(session[s].inbox).ok]
    <2>3. Await(s, row, "append", 0)
      BY <1>4 DEF HandleTurn
    <2>4. row \in HandlerRow /\ row.pc = "ending" /\ row.session = registered
      <3>1. "ending" \in Awaiting /\ Idle \in HandlerRow
        BY IdleRow DEF Awaiting
      <3>2. QED
        BY <2>2, <3>1 DEF HandlerRow
    <2>5. used' = used /\ Target("ending") = "append" /\ "ending" \in Awaiting
      BY <1>4 DEF HandleTurn, Target, Awaiting
    <2> HIDE DEF row
    <2>6. row.session <= used'
      BY <2>4, <2>5
    <2>7. Enters(s)
      BY <1>0, <2>3, <2>4, <2>5, <2>6, AwaitEnters DEF Types
    <2>8. QED
      BY <2>1, <2>7 DEF Moves
  <1>5. CASE HandleClose(s)
    <2>1. Leaves(s)
      BY <1>5, <1>l DEF HandleClose
    <2>2. Fail(s, "failing") \/ Return(s)
      BY <1>5 DEF HandleClose
    <2>3. Enters(s)
      BY <1>0, <1>5, <2>2, FailEnters, ReturnEnters DEF HandleClose
    <2>4. QED
      BY <2>1, <2>3 DEF Moves
  <1>6. QED
    BY <1>1, <1>2, <1>3, <1>4, <1>5 DEF Callback

\* Of what an agent does only the exit of codex exec begins a move.
LEMMA AgentMoves ==
  ASSUME Types, Room, Discipline, NEW s \in Sessions, Agent(s)
  PROVE  Moves(s) \/ UNCHANGED <<handler, queue, done>>
  <1> USE Numbers
  <1>0. s \in Handlers
    BY DEF Handlers
  <1>1. CASE AgentExits(s)
    <2>1. CASE session[s].listening
      <3>1. handler[s].pc = "idle"
        BY <1>1 DEF AgentExits, Discipline, ExecRows, Live
      <3>2. Leaves(s)
        <4>1. done' = done /\ handler[s].pc \in Resting
          BY <1>1, <3>1 DEF AgentExits, Resting
        <4>2. QED
          BY <4>1, RestingLeaves
      <3>3. PICK ok \in BOOLEAN : GoTo(s, [Idle EXCEPT !.pc = "exiting", !.session = registered, !.ok = ok])
        BY <1>1, <2>1 DEF AgentExits
      <3> DEFINE row == [Idle EXCEPT !.pc = "exiting", !.session = registered, !.ok = ok]
      <3>4. row \in HandlerRow /\ row.pc = "exiting" /\ row.session = registered
        <4>1. "exiting" \in Resting /\ Idle \in HandlerRow
          BY IdleRow DEF Resting
        <4>2. QED
          BY <4>1 DEF HandlerRow
      <3>5. GoTo(s, row) /\ used' = used /\ "exiting" \in Resting
        BY <1>1, <3>3 DEF AgentExits, Resting
      <3> HIDE DEF row
      <3>6. Enters(s)
        BY <1>0, <3>4, <3>5, GoToEnters DEF Types
      <3>7. QED
        BY <3>2, <3>6 DEF Moves
    <2>2. CASE ~session[s].listening
      BY <1>1, <2>2 DEF AgentExits
    <2>3. QED
      BY <2>1, <2>2
  <1>2. CASE AgentWorks(s) \/ AgentAsks(s) \/ Expire(s) \/ TurnEnds(s) \/ ServerExits(s)
    BY <1>2 DEF AgentWorks, AgentAsks, Expire, TurnEnds, ServerExits
  <1>3. QED
    BY <1>1, <1>2 DEF Agent

-----------------------------------------------------------------------------
(* What the steps do to the write queue.                                     *)

LEMMA Lengths ==
  ASSUME Types
  PROVE  /\ done \in Seq([by : Handlers, ok : BOOLEAN]) /\ queue \in Seq(Mutation)
         /\ Len(done) \in Nat /\ Len(queue) \in Nat
         /\ DOMAIN done = 1..Len(done) /\ DOMAIN queue = 1..Len(queue)
         /\ DOMAIN Waiting = 1..(Len(done) + Len(queue))
         /\ \A i \in DOMAIN done : done[i].by \in Handlers
         /\ \A i \in DOMAIN queue : queue[i].by \in Handlers
         /\ \A i \in DOMAIN Waiting : Waiting[i] \in Handlers
  <1>1. done \in Seq([by : Handlers, ok : BOOLEAN]) /\ queue \in Seq(Mutation)
    BY DEF Types, TypeOK
  <1>2. /\ Len(done) \in Nat /\ Len(queue) \in Nat
        /\ DOMAIN done = 1..Len(done) /\ DOMAIN queue = 1..Len(queue)
    BY <1>1
  <1>3. \A i \in DOMAIN done : done[i].by \in Handlers
    <2>1. \A i \in 1..Len(done) : done[i] \in [by : Handlers, ok : BOOLEAN]
      BY <1>1, ElementOfSeq
    <2>2. QED
      BY <1>2, <2>1
  <1>4. \A i \in DOMAIN queue : queue[i].by \in Handlers
    <2>1. \A i \in 1..Len(queue) : queue[i] \in Mutation
      BY <1>1, ElementOfSeq
    <2>2. QED
      BY <1>2, <2>1 DEF Mutation
  <1>5. DOMAIN Waiting = 1..(Len(done) + Len(queue))
    BY DEF Waiting
  <1>6. \A i \in DOMAIN Waiting : Waiting[i] \in Handlers
    BY <1>2, <1>3, <1>4, <1>5 DEF Waiting
  <1>7. QED
    BY <1>1, <1>2, <1>3, <1>4, <1>5, <1>6

\* A mutation that runs moves from the queue to those that ran, in its place.
LEMMA CommitKeepsOrder ==
  ASSUME Types, Commit
  PROVE  /\ Waiting' = Waiting /\ handler' = handler
         /\ queue # <<>> /\ Len(queue') = Len(queue) - 1 /\ Len(done') = Len(done) + 1
         /\ queue' \in Seq(Mutation) /\ done' \in Seq([by : Handlers, ok : BOOLEAN])
         /\ \A i \in 1..Len(queue') : queue'[i] = queue[i + 1]
         /\ \A i \in 1..Len(done) : done'[i] = done[i]
         /\ done'[Len(done) + 1].by = Head(queue).by
         /\ done'[Len(done) + 1].ok <=> (Head(queue).to = "append" \/ Legal(task.status, Head(queue).to))
         /\ Head(queue) = queue[1] /\ Head(queue) \in Mutation
         /\ 1 \in DOMAIN queue
  <1> USE Lengths
  <1>1. queue # <<>> /\ queue' = Tail(queue) /\ handler' = handler
    BY DEF Commit
  <1> DEFINE entry == [by |-> Head(queue).by,
                       ok |-> Head(queue).to = "append" \/ Legal(task.status, Head(queue).to)]
  <1>2. done' = Append(done, entry)
    BY DEF Commit
  <1>3. Head(queue) \in Mutation /\ Head(queue) = queue[1] /\ 1 \in DOMAIN queue
    BY <1>1, HeadTailProperties
  <1>4. entry \in [by : Handlers, ok : BOOLEAN]
    BY <1>3 DEF Mutation, Legal
  <1>5. /\ entry.by = Head(queue).by
        /\ entry.ok <=> (Head(queue).to = "append" \/ Legal(task.status, Head(queue).to))
    OBVIOUS
  <1> HIDE DEF entry
  <1>6. /\ queue' \in Seq(Mutation) /\ Len(queue') = Len(queue) - 1
        /\ \A i \in 1..Len(queue') : queue'[i] = queue[i + 1]
    BY <1>1, HeadTailProperties
  <1>7. /\ done' \in Seq([by : Handlers, ok : BOOLEAN]) /\ Len(done') = Len(done) + 1
        /\ \A i \in 1..Len(done) : done'[i] = done[i]
        /\ done'[Len(done) + 1] = entry
    BY <1>2, <1>4
  <1>8. Waiting' = Waiting
    BY <1>3, <1>5, <1>6, <1>7 DEF Waiting
  <1>9. QED
    BY <1>1, <1>3, <1>5, <1>6, <1>7, <1>8

\* How many handlers have left the queue.
Gone == Len(done) - Len(done')

LEMMA MoveShifts ==
  ASSUME Types, OneMutationEach, NEW h \in Handlers, Moves(h)
  PROVE  /\ \A g \in Handlers \ {h} : handler'[g] = handler[g]
         /\ handler' \in [Handlers -> HandlerRow]
         /\ queue' \in Seq(Mutation) /\ done' \in Seq([by : Handlers, ok : BOOLEAN])
         /\ Gone \in {0, 1} /\ Len(done') <= Len(done)
         /\ handler[h].pc \in Awaiting <=> Gone = 1
         /\ Gone = 1 => Len(done) >= 1 /\ done[1].by = h /\ Waiting[1] = h
         /\ \A i \in 1..Len(done') : done'[i] = done[i + Gone]
         /\ Len(queue') \in {Len(queue), Len(queue) + 1}
         /\ handler'[h].pc \in Awaiting <=> Len(queue') = Len(queue) + 1
         /\ \A i \in 1..Len(queue) : queue'[i] = queue[i]
         /\ Len(queue') = Len(queue) + 1 =>
              queue'[Len(queue')].by = h /\ queue'[Len(queue')].to = Target(handler'[h].pc)
         /\ \A i \in 1..(Len(done') + Len(queue)) : Waiting'[i] = Waiting[i + Gone]
         /\ Len(queue') = Len(queue) + 1 => Waiting'[Len(done') + Len(queue')] = h
         /\ DOMAIN Waiting' = 1..(Len(done') + Len(queue')) /\ Len(done') \in Nat /\ Len(queue') \in Nat
  <1>l. /\ done \in Seq([by : Handlers, ok : BOOLEAN]) /\ queue \in Seq(Mutation)
        /\ Len(done) \in Nat /\ Len(queue) \in Nat
        /\ DOMAIN Waiting = 1..(Len(done) + Len(queue))
    BY Lengths
  <1>0. Awaiting \cap Resting = {}
    BY <1>l DEF Awaiting, Resting
  <1>1. /\ \A g \in Handlers \ {h} : handler'[g] = handler[g]
        /\ handler' \in [Handlers -> HandlerRow]
    BY <1>l DEF Moves, Enters, Types
  <1>2. /\ done' \in Seq([by : Handlers, ok : BOOLEAN]) /\ Gone \in {0, 1} /\ Len(done') <= Len(done)
        /\ handler[h].pc \in Awaiting <=> Gone = 1
        /\ Gone = 1 => Len(done) >= 1 /\ done[1].by = h
        /\ \A i \in 1..Len(done') : done'[i] = done[i + Gone]
        /\ Len(done') \in Nat
    <2>1. CASE handler[h].pc \in Resting /\ done' = done
      BY <1>l, <1>0, <2>1 DEF Gone
    <2>2. CASE handler[h].pc \in Awaiting /\ done # <<>> /\ Head(done).by = h /\ done' = Tail(done)
      <3>1. /\ done' \in Seq([by : Handlers, ok : BOOLEAN]) /\ Len(done') = Len(done) - 1
            /\ \A i \in 1..Len(done') : done'[i] = done[i + 1]
        BY <1>l, <2>2, HeadTailProperties
      <3>2. Len(done) >= 1 /\ Head(done) = done[1]
        BY <1>l, <2>2
      <3>3. Gone = 1 /\ Len(done') \in Nat
        BY <1>l, <3>1, <3>2 DEF Gone
      <3>4. QED
        BY <1>l, <2>2, <3>1, <3>2, <3>3
    <2>3. QED
      BY <1>l, <2>1, <2>2 DEF Moves, Leaves
  <1>3. /\ queue' \in Seq(Mutation) /\ Len(queue') \in {Len(queue), Len(queue) + 1}
        /\ handler'[h].pc \in Awaiting <=> Len(queue') = Len(queue) + 1
        /\ \A i \in 1..Len(queue) : queue'[i] = queue[i]
        /\ Len(queue') = Len(queue) + 1 =>
             queue'[Len(queue')].by = h /\ queue'[Len(queue')].to = Target(handler'[h].pc)
    <2>1. CASE handler'[h].pc \in Resting /\ queue' = queue
      <3>1. handler'[h].pc \notin Awaiting /\ Len(queue') = Len(queue)
        BY <1>l, <1>0, <2>1
      <3>2. queue' \in Seq(Mutation) /\ \A i \in 1..Len(queue) : queue'[i] = queue[i]
        BY <1>l, <2>1
      <3>3. Len(queue') # Len(queue) + 1
        BY <1>l, <3>1
      <3>4. QED
        BY <1>l, <3>1, <3>2, <3>3
    <2>2. ASSUME handler'[h].pc \in Awaiting, NEW p \in Requests \cup {0},
                 queue' = Append(queue, [by |-> h, to |-> Target(handler'[h].pc), pending |-> p])
          PROVE  /\ queue' \in Seq(Mutation) /\ Len(queue') = Len(queue) + 1
                 /\ \A i \in 1..Len(queue) : queue'[i] = queue[i]
                 /\ queue'[Len(queue')].by = h /\ queue'[Len(queue')].to = Target(handler'[h].pc)
      <3> DEFINE m == [by |-> h, to |-> Target(handler'[h].pc), pending |-> p]
      <3>1. Target(handler'[h].pc) \in TaskStates \cup {"append"}
        BY <1>l DEF Target, TaskStates
      <3>2. m \in Mutation /\ m.by = h /\ m.to = Target(handler'[h].pc)
        BY <1>l, <3>1 DEF Mutation
      <3>3. queue' = Append(queue, m)
        BY <1>l, <2>2
      <3> HIDE DEF m
      <3>4. queue' \in Seq(Mutation)
        BY <1>l, <3>2, <3>3
      <3>5. /\ Len(queue') = Len(queue) + 1 /\ queue'[Len(queue) + 1] = m
            /\ \A i \in 1..Len(queue) : queue'[i] = queue[i]
        BY <1>l, <3>2, <3>3
      <3>6. QED
        BY <1>l, <3>2, <3>4, <3>5
    <2>3. QED
      BY <1>l, <2>1, <2>2 DEF Moves, Enters
  <1>4. Gone = 1 => Waiting[1] = h
    BY <1>l, <1>2 DEF Waiting
  <1>5. DOMAIN Waiting' = 1..(Len(done') + Len(queue')) /\ Len(queue') \in Nat
    BY <1>l, <1>3 DEF Waiting
  <1>6. \A i \in 1..(Len(done') + Len(queue)) : Waiting'[i] = Waiting[i + Gone]
    <2> TAKE i \in 1..(Len(done') + Len(queue))
    <2>0. Len(done) = Len(done') + Gone
      <3>1. Len(done) \in Nat /\ Len(done') \in Nat
        BY <1>l, <1>2
      <3>2. QED
        BY <1>l, <3>1 DEF Gone
    <2>a. i + Gone \in DOMAIN Waiting
      BY <1>l, <1>2, <2>0
    <2>b. i \in DOMAIN Waiting'
      BY <1>l, <1>2, <1>3, <1>5
    <2>1. i \in DOMAIN Waiting' /\ i + Gone \in DOMAIN Waiting /\ Len(done) = Len(done') + Gone
      BY <1>l, <2>0, <2>a, <2>b
    <2>2. CASE i <= Len(done')
      BY <1>l, <1>2, <2>1, <2>2 DEF Waiting
    <2>3. CASE i > Len(done')
      BY <1>l, <1>2, <1>3, <2>1, <2>3 DEF Waiting
    <2>4. QED
      BY <1>l, <2>2, <2>3, <1>2
  <1>7. Len(queue') = Len(queue) + 1 => Waiting'[Len(done') + Len(queue')] = h
    BY <1>l, <1>2, <1>3, <1>5 DEF Waiting
  <1>8. QED
    BY <1>1, <1>2, <1>3, <1>4, <1>5, <1>6, <1>7

LEMMA MoveLengths ==
  ASSUME Types, OneMutationEach, NEW h \in Handlers, Moves(h)
  PROVE  /\ Len(done) \in Nat /\ Len(done') \in Nat /\ Len(queue) \in Nat /\ Len(queue') \in Nat
         /\ Gone \in {0, 1} /\ Len(done) = Len(done') + Gone
         /\ Len(queue') = Len(queue) \/ Len(queue') = Len(queue) + 1
         /\ DOMAIN Waiting = 1..(Len(done) + Len(queue))
         /\ DOMAIN Waiting' = 1..(Len(done') + Len(queue'))
         /\ DOMAIN queue = 1..Len(queue) /\ DOMAIN queue' = 1..Len(queue')
         /\ DOMAIN done = 1..Len(done) /\ DOMAIN done' = 1..Len(done')
  <1>1. /\ Len(done) \in Nat /\ Len(queue) \in Nat /\ DOMAIN Waiting = 1..(Len(done) + Len(queue))
        /\ DOMAIN queue = 1..Len(queue) /\ DOMAIN done = 1..Len(done)
    BY Lengths
  <1>2. /\ Len(done') \in Nat /\ Len(queue') \in Nat /\ DOMAIN Waiting' = 1..(Len(done') + Len(queue'))
        /\ Gone \in {0, 1} /\ Len(queue') \in {Len(queue), Len(queue) + 1}
        /\ queue' \in Seq(Mutation) /\ done' \in Seq([by : Handlers, ok : BOOLEAN])
    BY MoveShifts
  <1>3. Len(done) = Len(done') + Gone
    <2>1. Len(done) \in Nat /\ Len(done') \in Nat
      BY <1>1, <1>2
    <2>2. QED
      BY <2>1 DEF Gone
  <1>4. DOMAIN done' = 1..Len(done') /\ DOMAIN queue' = 1..Len(queue')
    BY <1>2, LenProperties
  <1>5. QED
    BY <1>1, <1>2, <1>3, <1>4

LEMMA CommitDiscipline ==
  ASSUME Types, OneMutationEach, Commit
  PROVE  OneMutationEach'
  <1>1. /\ \A i, j \in DOMAIN Waiting' : Waiting'[i] = Waiting'[j] => i = j
        /\ \A i \in DOMAIN Waiting' : handler'[Waiting'[i]].pc \in Awaiting
        /\ \A g \in Handlers : handler'[g].pc \in Awaiting => \E i \in DOMAIN Waiting' : Waiting'[i] = g
    BY CommitKeepsOrder DEF OneMutationEach
  <1>2. \A i \in DOMAIN queue' : queue'[i].to = Target(handler'[queue'[i].by].pc)
    <2> TAKE i \in DOMAIN queue'
    <2>1. i \in 1..Len(queue') /\ i + 1 \in DOMAIN queue /\ queue'[i] = queue[i + 1]
      BY CommitKeepsOrder, Lengths
    <2>2. QED
      BY <2>1, CommitKeepsOrder DEF OneMutationEach
  <1>3. \A i \in DOMAIN done' : Target(handler'[done'[i].by].pc) = "append" => done'[i].ok
    <2> TAKE i \in DOMAIN done'
    <2>1. i \in DOMAIN done \/ i = Len(done) + 1
      BY CommitKeepsOrder, Lengths
    <2>2. CASE i \in DOMAIN done
      <3>1. done'[i] = done[i]
        BY <2>2, CommitKeepsOrder, Lengths
      <3>2. QED
        BY <2>2, <3>1, CommitKeepsOrder DEF OneMutationEach
    <2>3. CASE i = Len(done) + 1
      <3>1. queue[1].to = Target(handler[queue[1].by].pc)
        BY CommitKeepsOrder DEF OneMutationEach
      <3>2. QED
        BY <2>3, <3>1, CommitKeepsOrder
    <2>4. QED
      BY <2>1, <2>2, <2>3
  <1>4. QED
    BY <1>1, <1>2, <1>3 DEF OneMutationEach

\* Whoever waits beside the handler that moves keeps waiting for what it waited for.
LEMMA OthersWait ==
  ASSUME Types, OneMutationEach, NEW h \in Handlers, Moves(h)
  PROVE  /\ \A i \in 1..(Len(done') + Len(queue)) :
              i + Gone \in DOMAIN Waiting /\ Waiting'[i] = Waiting[i + Gone] /\ Waiting'[i] # h
         /\ \A i \in 1..Len(queue) : queue'[i] = queue[i] /\ queue[i].by # h
         /\ \A i \in 1..Len(done') : i + Gone \in 1..Len(done) /\ done'[i] = done[i + Gone] /\ done'[i].by # h
  <1>l. /\ Len(done) \in Nat /\ Len(done') \in Nat /\ Len(queue) \in Nat /\ Len(queue') \in Nat
        /\ Gone \in {0, 1} /\ Len(done) = Len(done') + Gone
        /\ Len(queue') = Len(queue) \/ Len(queue') = Len(queue) + 1
    BY MoveLengths
  <1>w. /\ DOMAIN Waiting = 1..(Len(done) + Len(queue))
        /\ DOMAIN Waiting' = 1..(Len(done') + Len(queue'))
    BY MoveLengths
  <1>q. /\ DOMAIN queue = 1..Len(queue) /\ DOMAIN queue' = 1..Len(queue')
        /\ DOMAIN done = 1..Len(done) /\ DOMAIN done' = 1..Len(done')
    BY MoveLengths
  <1>1. ASSUME NEW i \in 1..(Len(done') + Len(queue))
        PROVE  i + Gone \in DOMAIN Waiting /\ Waiting'[i] = Waiting[i + Gone] /\ Waiting'[i] # h
    <2>0. i + Gone \in DOMAIN Waiting
      BY <1>l, <1>w
    <2>1. i + Gone \in DOMAIN Waiting /\ Waiting'[i] = Waiting[i + Gone]
      BY <2>0, MoveShifts
    <2>2. CASE Gone = 1
      <3>1. 1 \in DOMAIN Waiting /\ Waiting[1] = h /\ i + Gone # 1
        BY <1>l, <1>w, <2>2, MoveShifts
      <3>2. QED
        BY <2>1, <3>1 DEF OneMutationEach
    <2>3. CASE Gone = 0
      <3>1. handler[h].pc \notin Awaiting
        BY <2>3, MoveShifts
      <3>2. handler[Waiting[i + Gone]].pc \in Awaiting
        BY <2>1 DEF OneMutationEach
      <3>3. QED
        BY <2>1, <3>1, <3>2
    <2>4. QED
      BY <2>2, <2>3, MoveShifts
  <1>2. ASSUME NEW i \in 1..Len(queue)
        PROVE  queue'[i] = queue[i] /\ queue[i].by # h
    <2>1. queue'[i] = queue[i]
      BY MoveShifts
    <2>2. /\ Len(done') + i \in 1..(Len(done') + Len(queue))
          /\ (Len(done') + i) + Gone = Len(done) + i /\ Len(done) + i \in DOMAIN Waiting
      BY <1>l, <1>w
    <2>3. Waiting[Len(done) + i] = queue[i].by
      BY <1>l, <1>w, <2>2 DEF Waiting
    <2>4. QED
      BY <1>1, <2>1, <2>2, <2>3
  <1>3. ASSUME NEW i \in 1..Len(done')
        PROVE  i + Gone \in 1..Len(done) /\ done'[i] = done[i + Gone] /\ done'[i].by # h
    <2>0. i + Gone \in 1..Len(done) /\ i \in 1..(Len(done') + Len(queue))
      BY <1>l, <1>w
    <2>1. i + Gone \in 1..Len(done) /\ done'[i] = done[i + Gone] /\ i \in 1..(Len(done') + Len(queue))
      BY <2>0, MoveShifts
    <2>2. Waiting[i + Gone] = done[i + Gone].by
      BY <1>l, <1>w, <2>1 DEF Waiting
    <2>3. QED
      BY <1>1, <2>1, <2>2
  <1>4. QED
    BY <1>1, <1>2, <1>3

LEMMA MoveDiscipline ==
  ASSUME Types, OneMutationEach, NEW h \in Handlers, Moves(h)
  PROVE  OneMutationEach'
  <1>l. /\ Len(done) \in Nat /\ Len(done') \in Nat /\ Len(queue) \in Nat /\ Len(queue') \in Nat
        /\ Gone \in {0, 1} /\ Len(done) = Len(done') + Gone
        /\ Len(queue') = Len(queue) \/ Len(queue') = Len(queue) + 1
    BY MoveLengths
  <1>w. /\ DOMAIN Waiting = 1..(Len(done) + Len(queue))
        /\ DOMAIN Waiting' = 1..(Len(done') + Len(queue'))
    BY MoveLengths
  <1>q. /\ DOMAIN queue = 1..Len(queue) /\ DOMAIN queue' = 1..Len(queue')
        /\ DOMAIN done = 1..Len(done) /\ DOMAIN done' = 1..Len(done')
    BY MoveLengths
  <1>d. \A i \in DOMAIN Waiting' :
          \/ i \in 1..(Len(done') + Len(queue))
          \/ Waiting'[i] = h /\ i = Len(done') + Len(queue') /\ Len(queue') = Len(queue) + 1
    <2>1. \A i \in DOMAIN Waiting' :
            \/ i \in 1..(Len(done') + Len(queue))
            \/ i = Len(done') + Len(queue') /\ Len(queue') = Len(queue) + 1
      BY <1>l, <1>w
    <2>2. QED
      BY <2>1, MoveShifts
  <1>1. \A i, j \in DOMAIN Waiting' : Waiting'[i] = Waiting'[j] => i = j
    <2> TAKE i, j \in DOMAIN Waiting'
    <2> HAVE Waiting'[i] = Waiting'[j]
    <2>1. CASE i \in 1..(Len(done') + Len(queue)) /\ j \in 1..(Len(done') + Len(queue))
      <3>1. i + Gone = j + Gone
        BY <2>1, OthersWait DEF OneMutationEach
      <3>2. QED
        BY <2>1, <3>1, <1>l, <1>w
    <2>2. QED
      BY <1>d, <2>1, OthersWait
  <1>2. \A i \in DOMAIN Waiting' : handler'[Waiting'[i]].pc \in Awaiting
    <2> TAKE i \in DOMAIN Waiting'
    <2>1. CASE i \in 1..(Len(done') + Len(queue))
      <3>1. i + Gone \in DOMAIN Waiting /\ Waiting'[i] = Waiting[i + Gone] /\ Waiting'[i] # h
        BY <2>1, OthersWait
      <3>2. Waiting'[i] \in Handlers \ {h} /\ handler[Waiting[i + Gone]].pc \in Awaiting
        BY <3>1, Lengths DEF OneMutationEach
      <3>3. handler'[Waiting'[i]] = handler[Waiting'[i]]
        BY <3>2, MoveShifts
      <3>4. QED
        BY <3>1, <3>2, <3>3
    <2>2. CASE Waiting'[i] = h /\ Len(queue') = Len(queue) + 1
      BY <2>2, MoveShifts
    <2>3. QED
      BY <1>d, <2>1, <2>2
  <1>3. \A g \in Handlers : handler'[g].pc \in Awaiting => \E i \in DOMAIN Waiting' : Waiting'[i] = g
    <2> TAKE g \in Handlers
    <2> HAVE handler'[g].pc \in Awaiting
    <2>1. CASE g = h
      <3>1. Len(queue') = Len(queue) + 1
        BY <2>1, MoveShifts
      <3>2. Len(done') + Len(queue') \in DOMAIN Waiting'
        BY <1>l, <1>w, <3>1
      <3>3. QED
        BY <2>1, <3>1, <3>2, MoveShifts
    <2>2. CASE g # h
      <3>1. PICK i \in DOMAIN Waiting : Waiting[i] = g
        BY <2>2, MoveShifts DEF OneMutationEach
      <3>2. i > Gone
        <4>1. Gone = 1 => i # 1
          BY <2>2, <3>1, MoveShifts
        <4>2. QED
          BY <1>l, <1>w, <3>1, <4>1
      <3>3. i - Gone \in 1..(Len(done') + Len(queue)) /\ (i - Gone) + Gone = i
        BY <1>l, <1>w, <3>1, <3>2
      <3>4. i - Gone \in DOMAIN Waiting'
        BY <3>3, <1>l, <1>w
      <3>5. QED
        BY <3>1, <3>3, <3>4, OthersWait
    <2>3. QED
      BY <2>1, <2>2
  <1>4. \A i \in DOMAIN queue' : queue'[i].to = Target(handler'[queue'[i].by].pc)
    <2> TAKE i \in DOMAIN queue'
    <2>1. CASE i \in 1..Len(queue)
      <3>1. queue'[i] = queue[i] /\ queue[i].by \in Handlers \ {h}
        BY <2>1, OthersWait, Lengths
      <3>2. handler'[queue[i].by] = handler[queue[i].by]
        BY <3>1, MoveShifts
      <3>3. queue[i].to = Target(handler[queue[i].by].pc)
        BY <2>1, <1>l, <1>w DEF OneMutationEach
      <3>4. QED
        BY <3>1, <3>2, <3>3
    <2>2. CASE Len(queue') = Len(queue) + 1 /\ i = Len(queue')
      BY <2>2, MoveShifts
    <2>3. QED
      BY <1>l, <1>w, <2>1, <2>2
  <1>5. \A i \in DOMAIN done' : Target(handler'[done'[i].by].pc) = "append" => done'[i].ok
    <2> TAKE i \in DOMAIN done'
    <2>1. i + Gone \in DOMAIN done /\ done'[i] = done[i + Gone] /\ done'[i].by # h
      BY <1>l, <1>w, OthersWait
    <2>2. done'[i].by \in Handlers \ {h}
      BY <2>1, Lengths
    <2>3. QED
      BY <2>1, <2>2, MoveShifts DEF OneMutationEach
  <1>6. QED
    BY <1>1, <1>2, <1>3, <1>4, <1>5 DEF OneMutationEach

LEMMA RestartDiscipline ==
  ASSUME Restart
  PROVE  OneMutationEach'
  <1>1. Len(done') = 0 /\ Len(queue') = 0 /\ DOMAIN done' = {} /\ DOMAIN queue' = {}
    <2>1. done' = <<>> /\ queue' = <<>>
      BY DEF Restart
    <2>2. <<>> \in Seq(Mutation) /\ Len(<<>>) = 0
      BY EmptySeq
    <2>3. DOMAIN <<>> = 1..0
      BY <2>2, LenProperties
    <2>4. QED
      BY <2>1, <2>2, <2>3
  <1>2. DOMAIN Waiting' = {}
    BY <1>1 DEF Waiting
  <1>3. \A g \in Handlers : handler'[g].pc \notin Awaiting
    BY DEF Restart, Idle, Awaiting
  <1>4. QED
    BY <1>1, <1>2, <1>3 DEF OneMutationEach

LEMMA SameDiscipline ==
  ASSUME OneMutationEach, UNCHANGED <<handler, queue, done>>
  PROVE  OneMutationEach' /\ Waiting' = Waiting
  <1>1. Waiting' = Waiting
    BY DEF Waiting
  <1>2. QED
    BY <1>1 DEF OneMutationEach

-----------------------------------------------------------------------------
(* What the steps do to the sessions.                                        *)

LEMMA RowEdits ==
  ASSUME NEW row \in SessionRow
  PROVE  /\ \A v \in {"none", "alive", "signalled", "orphan", "dead"} : [row EXCEPT !.child = v] \in SessionRow
         /\ \A v \in BOOLEAN : /\ [row EXCEPT !.listening = v] \in SessionRow
                               /\ [row EXCEPT !.cancelled = v] \in SessionRow
                               /\ [row EXCEPT !.stopped = v] \in SessionRow
                               /\ [row EXCEPT !.turn = v] \in SessionRow
                               /\ [row EXCEPT !.closed = v] \in SessionRow
         /\ \A v \in SUBSET Requests : [row EXCEPT !.approvals = v] \in SessionRow
         /\ \A v \in {0} \cup Requests : [row EXCEPT !.asked = v] \in SessionRow
         /\ \A v \in Seq(Notice) : [row EXCEPT !.inbox = v] \in SessionRow
  BY DEF SessionRow

LEMMA KilledRow ==
  ASSUME NEW row \in SessionRow
  PROVE  /\ Killed(row) \in SessionRow
         /\ Killed(row).child # "alive"
         /\ \/ Killed(row).child = row.child
            \/ row.child = "alive" /\ Killed(row).child = "signalled"
         /\ Killed(row).approvals = {}
         /\ Killed(row).inbox = row.inbox /\ Killed(row).stopped = row.stopped
         /\ Killed(row).cancelled = row.cancelled
  <1>1. /\ (IF row.child = "alive" THEN "signalled" ELSE row.child)
             \in {"none", "signalled", "orphan", "dead"}
        /\ \/ (IF row.child = "alive" THEN "signalled" ELSE row.child) = row.child
           \/ row.child = "alive" /\ (IF row.child = "alive" THEN "signalled" ELSE row.child) = "signalled"
    BY DEF SessionRow
  <1>2. {} \in SUBSET Requests
    OBVIOUS
  <1>3. QED
    BY <1>1, <1>2 DEF Killed, SessionRow

LEMMA NotifiedRow ==
  ASSUME NEW row \in SessionRow, NEW event \in {"approval", "timeout", "turn", "close"},
         NEW request \in Requests \cup {0}, NEW ok \in BOOLEAN
  PROVE  /\ Notify(row, event, request, ok) \in SessionRow
         /\ Notify(row, event, request, ok).child = row.child
         /\ Notify(row, event, request, ok).stopped = row.stopped
         /\ Notify(row, event, request, ok).cancelled = row.cancelled
         /\ Notify(row, event, request, ok).approvals = row.approvals
         /\ Len(Notify(row, event, request, ok).inbox) = Len(row.inbox) + 1
         /\ \A i \in 1..Len(row.inbox) : Notify(row, event, request, ok).inbox[i] = row.inbox[i]
         /\ Notify(row, event, request, ok).inbox[Len(row.inbox) + 1].event = event
         /\ row.inbox \in Seq(Notice)
  <1> DEFINE notice == [event |-> event, request |-> request, ok |-> ok]
  <1>1. notice \in Notice /\ notice.event = event
    BY DEF Notice
  <1>2. Notify(row, event, request, ok) = [row EXCEPT !.inbox = Append(row.inbox, notice)]
    BY DEF Notify
  <1>3. row.inbox \in Seq(Notice)
    BY DEF SessionRow
  <1> HIDE DEF notice
  <1> DEFINE box == Append(row.inbox, notice)
  <1>4. /\ box \in Seq(Notice) /\ Len(box) = Len(row.inbox) + 1
        /\ \A i \in 1..Len(row.inbox) : box[i] = row.inbox[i]
        /\ box[Len(row.inbox) + 1] = notice
    BY <1>1, <1>3
  <1>5. Notify(row, event, request, ok) = [row EXCEPT !.inbox = box]
    BY <1>2
  <1> HIDE DEF box
  <1> DEFINE new == [row EXCEPT !.inbox = box]
  <1>6. /\ new \in SessionRow /\ new.child = row.child /\ new.stopped = row.stopped
        /\ new.cancelled = row.cancelled /\ new.approvals = row.approvals /\ new.inbox = box
    BY <1>4 DEF SessionRow
  <1> HIDE DEF new
  <1>7. Notify(row, event, request, ok) = new
    BY <1>5 DEF new
  <1>8. QED
    BY <1>1, <1>3, <1>4, <1>6, <1>7

\* One record of a session is replaced.
LEMMA RowReplaced ==
  ASSUME session \in [Sessions -> SessionRow], NEW i, NEW row, i \in Sessions => row \in SessionRow,
         session' = [session EXCEPT ![i] = row]
  PROVE  /\ session' \in [Sessions -> SessionRow]
         /\ \A s \in Sessions : session'[s] = IF s = i THEN row ELSE session[s]
  OBVIOUS

\* The records of the sessions after a step of a handler that goes on.
LEMMA GoesOnSessions ==
  ASSUME Types, Room, NEW h \in Handlers, GoesOn(h)
  PROVE  /\ session' \in [Sessions -> SessionRow]
         /\ \A i \in Sessions :
              \/ session'[i] = session[i]
              \/ i = handler[h].session
              \/ Launch(h) /\ i = used + 1
  <1>0. session \in [Sessions -> SessionRow] /\ \A i \in Sessions : session[i] \in SessionRow
    BY DEF Types
  <1>1. CASE Launch(h)
    <2> DEFINE row == [session[used + 1] EXCEPT !.child = IF mode = "exec" THEN "alive" ELSE "none"]
    <2>1. session' = [session EXCEPT ![used + 1] = row]
      BY <1>1 DEF Launch
    <2>2. used + 1 \in Sessions => row \in SessionRow
      BY <1>0, RowEdits
    <2> HIDE DEF row
    <2>3. QED
      BY <1>0, <1>1, <2>1, <2>2, RowReplaced
  <1>2. CASE Listen(h)
    <2> DEFINE i == handler[h].session
               row == [session[i] EXCEPT !.listening = TRUE]
    <2>1. session' = [session EXCEPT ![i] = row]
      BY <1>2 DEF Listen
    <2>2. i \in Sessions => row \in SessionRow
      BY <1>0, RowEdits
    <2> HIDE DEF row
    <2>3. QED
      BY <1>0, <1>2, <2>1, <2>2, RowReplaced
  <1>3. CASE SpawnServer(h)
    <2> DEFINE i == handler[h].session
               row == [session[i] EXCEPT !.child = "alive"]
    <2>1. session' = [session EXCEPT ![i] = row]
      BY <1>3 DEF SpawnServer
    <2>2. i \in Sessions => row \in SessionRow
      BY <1>0, RowEdits
    <2> HIDE DEF row
    <2>3. QED
      BY <1>0, <1>3, <2>1, <2>2, RowReplaced
  <1>4. CASE SendKill(h) \/ Stopped(h)
    <2> DEFINE i == handler[h].session
               row == [session[i] EXCEPT !.stopped = TRUE]
    <2>1. session' = [session EXCEPT ![i] = row]
      BY <1>4 DEF SendKill, Stopped
    <2>2. i \in Sessions => row \in SessionRow
      BY <1>0, RowEdits
    <2> HIDE DEF row
    <2>3. QED
      BY <1>0, <1>4, <2>1, <2>2, RowReplaced
  <1>5. CASE KillServer(h)
    <2> DEFINE i == handler[h].session
               row == [Killed(session[i]) EXCEPT !.stopped = ~Failable]
    <2>1. session' = [session EXCEPT ![i] = row]
      BY <1>5 DEF KillServer
    <2>2. i \in Sessions => row \in SessionRow
      BY <1>0, RowEdits, KilledRow
    <2> HIDE DEF row
    <2>3. QED
      BY <1>0, <1>5, <2>1, <2>2, RowReplaced
  <1>6. CASE Answer(h)
    <2>1. CASE UNCHANGED session
      BY <1>0, <2>1
    <2>2. CASE session' = [session EXCEPT ![handler[h].session].approvals = @ \ {handler[h].request}]
      <3> DEFINE i == handler[h].session
                 row == [session[i] EXCEPT !.approvals = session[i].approvals \ {handler[h].request}]
      <3>1. session' = [session EXCEPT ![i] = row]
        BY <2>2
      <3>2. i \in Sessions => row \in SessionRow
        <4>1. i \in Sessions => session[i].approvals \ {handler[h].request} \in SUBSET Requests
          BY <1>0 DEF SessionRow
        <4>2. QED
          BY <1>0, <4>1, RowEdits
      <3> HIDE DEF row
      <3>3. QED
        BY <1>0, <3>1, <3>2, RowReplaced
    <2>3. QED
      BY <1>6, <2>1, <2>2 DEF Answer
  <1>7. CASE EndTurn(h)
    <2> DEFINE i == handler[h].session
               row == Killed(session[i])
    <2>1. session' = [session EXCEPT ![i] = row]
      BY <1>7 DEF EndTurn
    <2>2. i \in Sessions => row \in SessionRow
      BY <1>0, KilledRow
    <2> HIDE DEF row
    <2>3. QED
      BY <1>0, <1>7, <2>1, <2>2, RowReplaced
  <1>8. CASE \/ Finish(h) \/ Rejected(h) \/ Readied(h) \/ RequestTurn(h) \/ Decided(h) \/ Asked(h)
             \/ StartChecks(h) \/ Checked(h)
    BY <1>0, <1>8
    DEF Finish, Rejected, Readied, RequestTurn, Decided, Asked, StartChecks, Checked
  <1>9. QED
    BY <1>1, <1>2, <1>3, <1>4, <1>5, <1>6, <1>7, <1>8 DEF GoesOn

\* ... of a handler that received something, and of a request.
LEMMA ReceivesSessions ==
  ASSUME Types, Room, NEW h \in Handlers, Receives(h) \/ Request(h)
  PROVE  /\ session' \in [Sessions -> SessionRow]
         /\ \A i \in Sessions : session'[i] = session[i] \/ i = handler[h].session \/ i = registered
  <1>0. session \in [Sessions -> SessionRow] /\ \A i \in Sessions : session[i] \in SessionRow
    BY DEF Types
  <1>1. CASE TurnStarted(h)
    <2> DEFINE i == handler[h].session
               row == [session[i] EXCEPT !.turn = TRUE]
    <2>1. session' = [session EXCEPT ![i] = row]
      BY <1>1 DEF TurnStarted
    <2>2. i \in Sessions => row \in SessionRow
      BY <1>0, RowEdits
    <2> HIDE DEF row
    <2>3. QED
      BY <1>0, <1>1, <2>1, <2>2, RowReplaced
  <1>2. CASE StartFails(h)
    <2>0. PICK turn \in BOOLEAN :
            session' = [session EXCEPT ![handler[h].session] = [Killed(@) EXCEPT !.turn = turn]]
      BY <1>2 DEF StartFails
    <2> DEFINE i == handler[h].session
               row == [Killed(session[i]) EXCEPT !.turn = turn]
    <2>1. session' = [session EXCEPT ![i] = row]
      BY <2>0
    <2>2. i \in Sessions => row \in SessionRow
      BY <1>0, <2>0, KilledRow, RowEdits
    <2> HIDE DEF row
    <2>3. QED
      BY <1>0, <1>2, <2>1, <2>2, RowReplaced
  <1>3. CASE Cancel(h)
    <2> DEFINE row == [session[registered] EXCEPT !.cancelled = TRUE]
    <2>1. session' = [session EXCEPT ![registered] = row]
      BY <1>3 DEF Cancel
    <2>2. registered \in Sessions => row \in SessionRow
      BY <1>0, RowEdits
    <2> HIDE DEF row
    <2>3. QED
      BY <1>0, <1>3, <2>1, <2>2, RowReplaced
  <1>4. CASE \/ Prepare(h) \/ ThreadStarted(h) \/ Decide(h) \/ HandleExit(h) \/ RunChecks(h)
             \/ CollectEvidence(h) \/ Start(h) \/ Click(h)
    BY <1>0, <1>4
    DEF Prepare, ThreadStarted, Decide, HandleExit, RunChecks, CollectEvidence, Start, Click
  <1>5. QED
    BY <1>1, <1>2, <1>3, <1>4 DEF Receives, Request

LEMMA ReceivedSession ==
  ASSUME Types, NEW s \in Sessions, session[s].inbox # <<>>
  PROVE  /\ Received(s) \in [Sessions -> SessionRow]
         /\ \A i \in Sessions : i # s => Received(s)[i] = session[i]
         /\ Received(s)[s] = [session[s] EXCEPT !.inbox = Tail(session[s].inbox)]
  <1>1. session \in [Sessions -> SessionRow] /\ session[s] \in SessionRow
    BY DEF Types
  <1> DEFINE row == [session[s] EXCEPT !.inbox = Tail(session[s].inbox)]
  <1>2. row \in SessionRow
    BY <1>1, NoticeTyped, RowEdits
  <1>3. Received(s) = [session EXCEPT ![s] = row]
    BY DEF Received
  <1> HIDE DEF row
  <1>4. /\ Received(s) \in [Sessions -> SessionRow]
        /\ \A i \in Sessions : i # s => Received(s)[i] = session[i]
        /\ Received(s)[s] = row
    BY <1>1, <1>2, <1>3
  <1>5. QED
    BY <1>4 DEF row

\* ... of a callback.
LEMMA CallbackSessions ==
  ASSUME Types, Room, NEW s \in Sessions, Callback(s)
  PROVE  /\ session' \in [Sessions -> SessionRow]
         /\ \A i \in Sessions : session'[i] = session[i] \/ i = s \/ i = registered
  <1>0. session[s].inbox # <<>>
    BY DEF Callback, IgnoreEvent, HandleApproval, HandleTimeout, HandleTurn, HandleClose, Receive
  <1>1. /\ Received(s) \in [Sessions -> SessionRow]
        /\ \A i \in Sessions : /\ Received(s)[i] \in SessionRow
                              /\ i # s => Received(s)[i] = session[i]
    BY <1>0, ReceivedSession
  <1>2. CASE HandleApproval(s)
    <2>1. CASE session' = Received(s)
      BY <1>1, <2>1
    <2>2. CASE session' = [Received(s) EXCEPT ![registered].approvals = @ \ {Head(session[s].inbox).request}]
      <3> DEFINE box == Received(s)
                 row == [box[registered] EXCEPT !.approvals
                           = box[registered].approvals \ {Head(session[s].inbox).request}]
      <3>1. session' = [box EXCEPT ![registered] = row]
        BY <2>2
      <3>2. registered \in Sessions => row \in SessionRow
        <4>1. registered \in Sessions =>
                box[registered].approvals \ {Head(session[s].inbox).request} \in SUBSET Requests
          BY <1>1 DEF SessionRow
        <4>2. QED
          BY <1>1, <4>1, RowEdits
      <3>3. box \in [Sessions -> SessionRow] /\ \A i \in Sessions : i # s => box[i] = session[i]
        BY <1>1
      <3> HIDE DEF row, box
      <3>4. QED
        BY <3>1, <3>2, <3>3
    <2>3. QED
      BY <1>2, <2>1, <2>2 DEF HandleApproval
  <1>3. CASE HandleTimeout(s)
    <2>1. CASE session' = Received(s)
      BY <1>1, <2>1
    <2>2. CASE session' = [Received(s) EXCEPT ![registered] = Killed(@)]
      <3> DEFINE box == Received(s)
                 row == Killed(box[registered])
      <3>1. session' = [box EXCEPT ![registered] = row]
        BY <2>2
      <3>2. registered \in Sessions => row \in SessionRow
        BY <1>1, KilledRow
      <3>3. box \in [Sessions -> SessionRow] /\ \A i \in Sessions : i # s => box[i] = session[i]
        BY <1>1
      <3> HIDE DEF row, box
      <3>4. QED
        BY <3>1, <3>2, <3>3
    <2>3. QED
      BY <1>3, <2>1, <2>2 DEF HandleTimeout
  <1>4. CASE IgnoreEvent(s) \/ HandleTurn(s) \/ HandleClose(s)
    BY <1>1, <1>4 DEF IgnoreEvent, HandleTurn, HandleClose
  <1>5. QED
    BY <1>2, <1>3, <1>4 DEF Callback

\* ... of what an agent does.
LEMMA AgentSessions ==
  ASSUME Types, Room, NEW s \in Sessions, Agent(s)
  PROVE  session' \in [Sessions -> SessionRow] /\ \A i \in Sessions : i # s => session'[i] = session[i]
  <1>0. session \in [Sessions -> SessionRow] /\ session[s] \in SessionRow
    BY DEF Types
  <1>1. CASE AgentWorks(s)
    BY <1>0, <1>1 DEF AgentWorks
  <1>2. CASE AgentAsks(s)
    <2> DEFINE q == session[s].asked + 1
               asked == [session[s] EXCEPT !.asked = q, !.approvals = @ \cup {q}]
               row == Notify(asked, "approval", q, FALSE)
    <2>1. session' = [session EXCEPT ![s] = row]
      BY <1>2 DEF AgentAsks
    <2>2. q \in Requests
      BY <1>0, <1>2, CoreBounds DEF AgentAsks, SessionRow, Requests
    <2> HIDE DEF q
    <2>3. asked \in SessionRow
      <3>1. session[s].approvals \cup {q} \in SUBSET Requests
        BY <1>0, <2>2 DEF SessionRow
      <3>2. QED
        BY <1>0, <2>2, <3>1 DEF SessionRow
    <2> HIDE DEF asked
    <2>4. row \in SessionRow
      BY <2>2, <2>3, NotifiedRow
    <2> HIDE DEF row
    <2>5. QED
      BY <1>0, <2>1, <2>4, RowReplaced
  <1>3. CASE Expire(s)
    <2>1. PICK q \in session[s].approvals :
            session' = [session EXCEPT ![s] =
              Notify([session[s] EXCEPT !.approvals = @ \ {q}], "timeout", q, FALSE)]
      BY <1>3 DEF Expire
    <2> DEFINE left == [session[s] EXCEPT !.approvals = @ \ {q}]
               row == Notify(left, "timeout", q, FALSE)
    <2>2. session' = [session EXCEPT ![s] = row]
      BY <2>1
    <2>3. q \in Requests /\ session[s].approvals \ {q} \in SUBSET Requests
      BY <1>0 DEF SessionRow
    <2>4. left \in SessionRow
      BY <1>0, <2>3, RowEdits
    <2> HIDE DEF left
    <2>5. row \in SessionRow
      BY <2>3, <2>4, NotifiedRow
    <2> HIDE DEF row
    <2>6. QED
      BY <1>0, <2>2, <2>5, RowReplaced
  <1>4. CASE TurnEnds(s)
    <2>1. PICK ok \in BOOLEAN :
            session' = [session EXCEPT ![s] = Notify([@ EXCEPT !.turn = FALSE], "turn", 0, ok)]
      BY <1>4 DEF TurnEnds
    <2> DEFINE left == [session[s] EXCEPT !.turn = FALSE]
               row == Notify(left, "turn", 0, ok)
    <2>2. session' = [session EXCEPT ![s] = row]
      BY <2>1
    <2>3. left \in SessionRow
      BY <1>0, RowEdits
    <2> HIDE DEF left
    <2>4. row \in SessionRow
      BY <2>3, NotifiedRow
    <2> HIDE DEF row
    <2>5. QED
      BY <1>0, <2>2, <2>4, RowReplaced
  <1>5. CASE ServerExits(s)
    <2> DEFINE row == [session[s] EXCEPT !.child = "dead", !.turn = FALSE]
               shut == [row EXCEPT !.closed = TRUE, !.approvals = {}]
               new == IF row.closed THEN row ELSE Notify(shut, "close", 0, FALSE)
    <2>1. session' = [session EXCEPT ![s] = new]
      BY <1>5 DEF ServerExits
    <2>2. row \in SessionRow
      BY <1>0 DEF SessionRow
    <2> HIDE DEF row
    <2>3. shut \in SessionRow
      BY <2>2 DEF SessionRow
    <2> HIDE DEF shut
    <2>4. new \in SessionRow
      BY <2>2, <2>3, NotifiedRow
    <2> HIDE DEF new
    <2>5. QED
      BY <1>0, <2>1, <2>4, RowReplaced
  <1>6. CASE AgentExits(s)
    <2> DEFINE row == [session[s] EXCEPT !.child = "dead"]
    <2>1. session' = [session EXCEPT ![s] = row]
      BY <1>6 DEF AgentExits
    <2>2. row \in SessionRow
      BY <1>0, RowEdits
    <2> HIDE DEF row
    <2>3. QED
      BY <1>0, <2>1, <2>2, RowReplaced
  <1>7. QED
    BY <1>1, <1>2, <1>3, <1>4, <1>5, <1>6 DEF Agent

LEMMA NewRow == NewSession \in SessionRow
  <1>1. <<>> \in Seq(Notice)
    BY EmptySeq
  <1>2. QED
    BY <1>1 DEF NewSession, SessionRow

\* A restart leaves of the launched sessions no more than their orphans.
LEMMA RestartRows ==
  ASSUME Types, Restart, NEW s \in Sessions
  PROVE  IF s > used THEN session'[s] = session[s]
         ELSE /\ session'[s] \in SessionRow
              /\ session'[s].inbox = <<>> /\ session'[s].approvals = {}
              /\ ~session'[s].stopped /\ ~session'[s].cancelled
              /\ \/ session'[s].child = "dead"
                 \/ session'[s].child = "orphan"
                    /\ session[s].child \in {"alive", "signalled", "orphan"}
  <1>1. PICK survivors \in SUBSET {i \in 1..used : Heard(i) \/ session[i].child = "orphan"} :
          session' = [i \in Sessions |->
            IF i > used THEN session[i]
            ELSE [NewSession EXCEPT !.child = IF i \in survivors THEN "orphan" ELSE "dead",
                                    !.closed = TRUE,
                                    !.turn = i \in survivors /\ session[i].turn]]
    BY DEF Restart
  <1> DEFINE child == IF s \in survivors THEN "orphan" ELSE "dead"
             turn == s \in survivors /\ session[s].turn
             row == [NewSession EXCEPT !.child = child, !.closed = TRUE, !.turn = turn]
  <1>2. session'[s] = IF s > used THEN session[s] ELSE row
    BY <1>1
  <1>3. child \in {"orphan", "dead"}
        /\ (child = "orphan" => session[s].child \in {"alive", "signalled", "orphan"})
    BY <1>1 DEF Heard
  <1>4. turn \in BOOLEAN
    OBVIOUS
  <1> HIDE DEF child, turn
  <1>5. /\ row \in SessionRow /\ row.child = child /\ row.inbox = <<>> /\ row.approvals = {}
        /\ ~row.stopped /\ ~row.cancelled
    <2>1. <<>> \in Seq(Notice)
      BY EmptySeq
    <2>2. QED
      BY <1>3, <1>4, <2>1 DEF SessionRow, NewSession
  <1> HIDE DEF row
  <1>6. QED
    BY <1>2, <1>3, <1>5

LEMMA RestartSessions ==
  ASSUME Types, Restart
  PROVE  session' \in [Sessions -> SessionRow]
  <1>1. \A s \in Sessions : session'[s] \in SessionRow
    BY RestartRows DEF Types
  <1>2. \E f : session' = [s \in Sessions |-> f[s]]
    BY DEF Restart
  <1>3. QED
    BY <1>1, <1>2

-----------------------------------------------------------------------------
(* Where the steps take the handlers.                                        *)

LEMMA FailPlaces ==
  ASSUME Types, used' = used, NEW h \in Handlers, NEW pc \in {"failing", "stopping", "catching"},
         Fail(h, pc)
  PROVE  \/ Failable /\ handler'[h].pc = pc /\ handler'[h].session = handler[h].session
         \/ ~Failable /\ handler'[h] = Idle /\ handler'[h].pc = "idle"
  <1>1. handler[h] \in HandlerRow
    BY DEF Types
  <1> DEFINE row == [handler[h] EXCEPT !.pc = pc]
  <1>2. row.pc = pc /\ row.session = handler[h].session
    BY <1>1 DEF HandlerRow
  <1>3. (Failable => handler'[h] = row) /\ (~Failable => handler'[h] = Idle)
    BY FailEnters
  <1> HIDE DEF row
  <1>4. QED
    BY <1>2, <1>3, IdleRow

LEMMA ReturnPlaces ==
  ASSUME Types, NEW h \in Handlers, Return(h)
  PROVE  handler'[h] = Idle /\ handler'[h].pc = "idle"
  BY IdleRow DEF Return, GoTo, Types

LEMMA AwaitAtPlaces ==
  ASSUME Types, NEW h \in Handlers, NEW pc, NEW to, NEW p, AwaitAt(h, pc, to, p)
  PROVE  /\ handler'[h].pc = pc /\ handler'[h].session = handler[h].session
         /\ handler'[h].ok = handler[h].ok
  <1>1. handler[h] \in HandlerRow
    BY DEF Types
  <1>2. handler'[h] = [handler[h] EXCEPT !.pc = pc]
    BY DEF AwaitAt, Await, Types
  <1>3. QED
    BY <1>1, <1>2 DEF HandlerRow

LEMMA GoToAtPlaces ==
  ASSUME Types, NEW h \in Handlers, NEW pc, GoTo(h, [handler[h] EXCEPT !.pc = pc])
  PROVE  /\ handler'[h].pc = pc /\ handler'[h].session = handler[h].session
         /\ handler'[h].ok = handler[h].ok
  <1>1. handler[h] \in HandlerRow
    BY DEF Types
  <1>2. handler'[h] = [handler[h] EXCEPT !.pc = pc]
    BY DEF GoTo, Types
  <1>3. QED
    BY <1>1, <1>2 DEF HandlerRow

LEMMA GoesOnPlaces ==
  ASSUME Types, NEW h \in Handlers
  PROVE  /\ Finish(h) => /\ handler[h].pc \in {"noted", "shipping", "failing", "catching"}
                         /\ handler'[h].pc = "idle" /\ handler'[h] = Idle
         /\ Rejected(h) => handler'[h].pc \in {"idle", "catching"}
         /\ Readied(h) => handler[h].pc = "readying" /\ handler'[h].pc = "preparing"
         /\ Launch(h) => /\ handler[h].pc = "launching" /\ handler'[h].pc = "spawned"
                         /\ handler'[h].session = used + 1
         /\ Listen(h) => handler[h].pc = "spawned" /\ handler'[h].pc = "idle"
         /\ SpawnServer(h) => /\ handler[h].pc = "spawned" /\ handler'[h].pc = "handshaking"
                              /\ handler'[h].session = handler[h].session
         /\ RequestTurn(h) => /\ handler[h].pc = "threaded" /\ handler'[h].pc = "turning"
                              /\ handler'[h].session = handler[h].session
         /\ SendKill(h) => handler[h].pc = "cancelling" /\ handler'[h].pc = "idle"
         /\ KillServer(h) =>
              /\ handler[h].pc = "cancelling"
              /\ \/ Failable /\ handler'[h].pc = "stopping" /\ handler'[h].session = handler[h].session
                 \/ ~Failable /\ handler'[h].pc = "idle"
         /\ Stopped(h) => handler[h].pc = "stopping" /\ handler'[h].pc = "idle"
         /\ Decided(h) => /\ handler[h].pc = "deciding" /\ handler'[h].pc = "answering"
                          /\ handler'[h].session = handler[h].session
         /\ Answer(h) =>
              /\ handler[h].pc = "answering"
              /\ \/ handler'[h].pc = "idle"
                 \/ Failable /\ handler'[h].pc = "failing"
         /\ Asked(h) => handler[h].pc = "asking" /\ handler'[h].pc = "noted"
         /\ EndTurn(h) =>
              /\ handler[h].pc = "ending"
              /\ \/ handler[h].ok /\ task.status = "RUNNING" /\ handler'[h].pc = "verifying"
                 \/ Failable /\ handler'[h].pc = "failing"
                 \/ ~Failable /\ handler'[h].pc = "idle"
         /\ StartChecks(h) => handler[h].pc = "verifying" /\ handler'[h].pc = "checking"
         /\ Checked(h) =>
              /\ handler[h].pc = "checked"
              /\ \/ handler[h].ok /\ handler'[h].pc = "collecting"
                 \/ Failable /\ handler'[h].pc = "failing"
                 \/ ~Failable /\ handler'[h].pc = "idle"
  <1>1. ASSUME Finish(h)
        PROVE  /\ handler[h].pc \in {"noted", "shipping", "failing", "catching"}
               /\ handler'[h].pc = "idle" /\ handler'[h] = Idle
    BY <1>1, ReturnPlaces DEF Finish, Resume
  <1>2. ASSUME Rejected(h)
        PROVE  handler'[h].pc \in {"idle", "catching"}
    BY <1>2, ReturnPlaces, FailPlaces DEF Rejected
  <1>3. ASSUME Readied(h)
        PROVE  handler[h].pc = "readying" /\ handler'[h].pc = "preparing"
    <2> DEFINE row == [Idle EXCEPT !.pc = "preparing"]
    <2>1. row.pc = "preparing"
      BY BeginsAt DEF Resting
    <2>2. handler[h].pc = "readying" /\ GoTo(h, row)
      BY <1>3 DEF Readied, Resume
    <2> HIDE DEF row
    <2>3. QED
      BY <2>1, <2>2 DEF GoTo, Types
  <1>4. ASSUME Launch(h)
        PROVE  /\ handler[h].pc = "launching" /\ handler'[h].pc = "spawned"
               /\ handler'[h].session = used + 1
    <2> DEFINE row == [Idle EXCEPT !.pc = "spawned", !.session = used + 1]
    <2>1. row.pc = "spawned" /\ row.session = used + 1
      BY IdleRow DEF HandlerRow
    <2>2. handler[h].pc = "launching" /\ Await(h, row, "append", 0)
      BY <1>4 DEF Launch, Resume
    <2> HIDE DEF row
    <2>3. QED
      BY <2>1, <2>2 DEF Await, Types
  <1>5. ASSUME Listen(h)
        PROVE  handler[h].pc = "spawned" /\ handler'[h].pc = "idle"
    BY <1>5, ReturnPlaces DEF Listen, Resume
  <1>6. ASSUME SpawnServer(h)
        PROVE  /\ handler[h].pc = "spawned" /\ handler'[h].pc = "handshaking"
               /\ handler'[h].session = handler[h].session
    BY <1>6, GoToAtPlaces DEF SpawnServer, Resume
  <1>7. ASSUME RequestTurn(h)
        PROVE  /\ handler[h].pc = "threaded" /\ handler'[h].pc = "turning"
               /\ handler'[h].session = handler[h].session
    BY <1>7, GoToAtPlaces DEF RequestTurn, Resume
  <1>8. ASSUME SendKill(h)
        PROVE  handler[h].pc = "cancelling" /\ handler'[h].pc = "idle"
    BY <1>8, ReturnPlaces DEF SendKill, Resume
  <1>9. ASSUME KillServer(h)
        PROVE  /\ handler[h].pc = "cancelling"
               /\ \/ Failable /\ handler'[h].pc = "stopping" /\ handler'[h].session = handler[h].session
                  \/ ~Failable /\ handler'[h].pc = "idle"
    BY <1>9, FailPlaces DEF KillServer, Resume
  <1>10. ASSUME Stopped(h)
        PROVE  handler[h].pc = "stopping" /\ handler'[h].pc = "idle"
    BY <1>10, ReturnPlaces DEF Stopped, Resume
  <1>11. ASSUME Decided(h)
        PROVE  /\ handler[h].pc = "deciding" /\ handler'[h].pc = "answering"
               /\ handler'[h].session = handler[h].session
    BY <1>11, AwaitAtPlaces DEF Decided, Resume
  <1>12. ASSUME Answer(h)
        PROVE  /\ handler[h].pc = "answering"
               /\ \/ handler'[h].pc = "idle"
                  \/ Failable /\ handler'[h].pc = "failing"
    BY <1>12, ReturnPlaces, FailPlaces DEF Answer, Resume
  <1>13. ASSUME Asked(h)
        PROVE  handler[h].pc = "asking" /\ handler'[h].pc = "noted"
    BY <1>13, AwaitAtPlaces DEF Asked, Resume
  <1>14. ASSUME EndTurn(h)
        PROVE  /\ handler[h].pc = "ending"
               /\ \/ handler[h].ok /\ task.status = "RUNNING" /\ handler'[h].pc = "verifying"
                  \/ Failable /\ handler'[h].pc = "failing"
                  \/ ~Failable /\ handler'[h].pc = "idle"
    BY <1>14, AwaitAtPlaces, FailPlaces DEF EndTurn, Resume
  <1>15. ASSUME StartChecks(h)
        PROVE  handler[h].pc = "verifying" /\ handler'[h].pc = "checking"
    BY <1>15, GoToAtPlaces DEF StartChecks, Resume
  <1>16. ASSUME Checked(h)
        PROVE  /\ handler[h].pc = "checked"
               /\ \/ handler[h].ok /\ handler'[h].pc = "collecting"
                  \/ Failable /\ handler'[h].pc = "failing"
                  \/ ~Failable /\ handler'[h].pc = "idle"
    BY <1>16, GoToAtPlaces, FailPlaces DEF Checked, Resume
  <1>17. QED
    BY <1>1, <1>2, <1>3, <1>4, <1>5, <1>6, <1>7, <1>8, <1>9, <1>10, <1>11, <1>12, <1>13, <1>14, <1>15, <1>16

LEMMA ReceivesPlaces ==
  ASSUME Types, NEW h \in Handlers
  PROVE  /\ Prepare(h) => handler[h].pc = "preparing" /\ handler'[h].pc \in {"idle", "launching"}
         /\ ThreadStarted(h) => /\ handler[h].pc = "handshaking" /\ handler'[h].pc = "threaded"
                                /\ handler'[h].session = handler[h].session
         /\ TurnStarted(h) => handler[h].pc = "turning" /\ handler'[h].pc = "idle"
         /\ StartFails(h) => /\ handler[h].pc \in {"handshaking", "turning"}
                             /\ handler'[h].pc \in {"idle", "failing"}
         /\ Decide(h) =>
              /\ handler[h].pc = "clicked"
              /\ \/ handler'[h].pc = "idle"
                 \/ /\ handler'[h].pc = "deciding" /\ handler'[h].session = registered
                    /\ registered # 0 /\ task.status = "NEEDS_INPUT"
         /\ HandleExit(h) =>
              /\ handler[h].pc = "exiting"
              /\ \/ task.status # "RUNNING" /\ handler'[h].pc = "idle"
                 \/ task.status = "RUNNING" /\ handler'[h].pc = "failing"
                 \/ task.status = "RUNNING" /\ ~ExitFails(h) /\ handler'[h].pc = "verifying"
         /\ RunChecks(h) => handler[h].pc = "checking" /\ handler'[h].pc = "checked"
         /\ CollectEvidence(h) =>
              /\ handler[h].pc = "collecting"
              /\ \/ work # "dirty" /\ handler'[h].pc = "shipping"
                 \/ Failable /\ handler'[h].pc = "failing"
                 \/ ~Failable /\ handler'[h].pc = "idle"
  <1>0. handler[h] \in HandlerRow
    BY DEF Types
  <1>1. ASSUME Prepare(h)
        PROVE  handler[h].pc = "preparing" /\ handler'[h].pc \in {"idle", "launching"}
    BY <1>1, ReturnPlaces, AwaitAtPlaces DEF Prepare
  <1>2. ASSUME ThreadStarted(h)
        PROVE  /\ handler[h].pc = "handshaking" /\ handler'[h].pc = "threaded"
               /\ handler'[h].session = handler[h].session
    BY <1>2, AwaitAtPlaces DEF ThreadStarted
  <1>3. ASSUME TurnStarted(h)
        PROVE  handler[h].pc = "turning" /\ handler'[h].pc = "idle"
    BY <1>3, ReturnPlaces DEF TurnStarted
  <1>4. ASSUME StartFails(h)
        PROVE  handler[h].pc \in {"handshaking", "turning"} /\ handler'[h].pc \in {"idle", "failing"}
    BY <1>4, FailPlaces DEF StartFails
  <1>5. ASSUME Decide(h)
        PROVE  /\ handler[h].pc = "clicked"
               /\ \/ handler'[h].pc = "idle"
                  \/ /\ handler'[h].pc = "deciding" /\ handler'[h].session = registered
                     /\ registered # 0 /\ task.status = "NEEDS_INPUT"
    <2> DEFINE row == [handler[h] EXCEPT !.pc = "deciding", !.session = registered,
                                         !.request = task.pending]
    <2>1. row.pc = "deciding" /\ row.session = registered
      BY <1>0 DEF HandlerRow
    <2>2. /\ handler[h].pc = "clicked"
          /\ \/ Return(h)
             \/ registered # 0 /\ task.status = "NEEDS_INPUT" /\ Await(h, row, "RUNNING", 0)
      BY <1>5 DEF Decide
    <2> HIDE DEF row
    <2>3. QED
      BY <2>1, <2>2, ReturnPlaces DEF Await, Types
  <1>6. ASSUME HandleExit(h)
        PROVE  /\ handler[h].pc = "exiting"
               /\ \/ task.status # "RUNNING" /\ handler'[h].pc = "idle"
                  \/ task.status = "RUNNING" /\ handler'[h].pc = "failing"
                  \/ task.status = "RUNNING" /\ ~ExitFails(h) /\ handler'[h].pc = "verifying"
    <2>1. handler[h].pc = "exiting" /\ used' = used
      BY <1>6 DEF HandleExit
    <2>2. CASE task.status # "RUNNING"
      BY <1>6, <2>1, <2>2, ReturnPlaces DEF HandleExit
    <2>3. CASE task.status = "RUNNING" /\ ExitFails(h)
      <3>1. Fail(h, "failing")
        BY <1>6, <2>3 DEF HandleExit
      <3>2. QED
        BY <2>1, <2>3, <3>1, FailPlaces DEF Failable
    <2>4. CASE task.status = "RUNNING" /\ ~ExitFails(h)
      <3>1. AwaitAt(h, "verifying", "VERIFYING", 0)
        BY <1>6, <2>4 DEF HandleExit
      <3>2. QED
        BY <2>1, <2>4, <3>1, AwaitAtPlaces
    <2>5. QED
      BY <2>2, <2>3, <2>4
  <1>7. ASSUME RunChecks(h)
        PROVE  handler[h].pc = "checking" /\ handler'[h].pc = "checked"
    <2>1. handler[h].pc = "checking"
      BY <1>7 DEF RunChecks
    <2>2. PICK passed \in BOOLEAN : Await(h, [handler[h] EXCEPT !.pc = "checked", !.ok = passed], "append", 0)
      BY <1>7 DEF RunChecks
    <2> DEFINE row == [handler[h] EXCEPT !.pc = "checked", !.ok = passed]
    <2>3. row.pc = "checked"
      BY <1>0 DEF HandlerRow
    <2>4. Await(h, row, "append", 0)
      BY <2>2
    <2> HIDE DEF row
    <2>5. QED
      BY <2>1, <2>3, <2>4 DEF Await, Types
  <1>8. ASSUME CollectEvidence(h)
        PROVE  /\ handler[h].pc = "collecting"
               /\ \/ work # "dirty" /\ handler'[h].pc = "shipping"
                  \/ Failable /\ handler'[h].pc = "failing"
                  \/ ~Failable /\ handler'[h].pc = "idle"
    BY <1>8, AwaitAtPlaces, FailPlaces DEF CollectEvidence
  <1>9. QED
    BY <1>1, <1>2, <1>3, <1>4, <1>5, <1>6, <1>7, <1>8

LEMMA RequestPlaces ==
  ASSUME Types, NEW c \in Handlers
  PROVE  /\ Start(c) => /\ c \in Starters /\ handler[c].pc = "idle" /\ registered = 0
                        /\ \/ /\ handler'[c].pc = "readying"
                              /\ task.status \in {"BACKLOG", "FAILED", "INTERRUPTED"}
                           \/ /\ handler'[c].pc = "preparing"
                              /\ task.status \in {"READY", "READY_TO_SHIP"}
         /\ Cancel(c) => /\ handler[c].pc = "idle" /\ registered # 0
                         /\ handler'[c].pc = "cancelling" /\ handler'[c].session = registered
         /\ Click(c) => /\ handler[c].pc = "idle" /\ task.status = "NEEDS_INPUT"
                        /\ handler'[c].pc = "clicked"
  <1>1. ASSUME Start(c)
        PROVE  /\ c \in Starters /\ handler[c].pc = "idle" /\ registered = 0
               /\ \/ /\ handler'[c].pc = "readying"
                     /\ task.status \in {"BACKLOG", "FAILED", "INTERRUPTED"}
                  \/ /\ handler'[c].pc = "preparing"
                     /\ task.status \in {"READY", "READY_TO_SHIP"}
    <2> DEFINE row == [Idle EXCEPT !.pc = "preparing"]
    <2>1. row.pc = "preparing"
      BY BeginsAt DEF Resting
    <2>2. /\ c \in Starters /\ handler[c].pc = "idle" /\ registered = 0
          /\ \/ AwaitAt(c, "readying", "READY", 0) /\ task.status \in {"BACKLOG", "FAILED", "INTERRUPTED"}
             \/ GoTo(c, row) /\ task.status \in {"READY", "READY_TO_SHIP"}
      BY <1>1 DEF Start
    <2> HIDE DEF row
    <2>3. QED
      BY <2>1, <2>2, AwaitAtPlaces DEF GoTo, Types
  <1>2. ASSUME Cancel(c)
        PROVE  /\ handler[c].pc = "idle" /\ registered # 0
               /\ handler'[c].pc = "cancelling" /\ handler'[c].session = registered
    <2> DEFINE row == [Idle EXCEPT !.pc = "cancelling", !.session = registered]
    <2>1. row.pc = "cancelling" /\ row.session = registered
      BY IdleRow DEF HandlerRow
    <2>2. handler[c].pc = "idle" /\ registered # 0 /\ Await(c, row, "append", 0)
      BY <1>2 DEF Cancel
    <2> HIDE DEF row
    <2>3. QED
      BY <2>1, <2>2 DEF Await, Types
  <1>3. ASSUME Click(c)
        PROVE  /\ handler[c].pc = "idle" /\ task.status = "NEEDS_INPUT"
               /\ handler'[c].pc = "clicked"
    <2> DEFINE row == [Idle EXCEPT !.pc = "clicked", !.seen = task.pending]
    <2>1. row.pc = "clicked"
      BY IdleRow DEF HandlerRow
    <2>2. handler[c].pc = "idle" /\ task.status = "NEEDS_INPUT" /\ GoTo(c, row)
      BY <1>3 DEF Click
    <2> HIDE DEF row
    <2>3. QED
      BY <2>1, <2>2 DEF GoTo, Types
  <1>4. QED
    BY <1>1, <1>2, <1>3

LEMMA CallbackPlaces ==
  ASSUME Types, NEW s \in Sessions, s \in Handlers
  PROVE  /\ Callback(s) => handler[s].pc = "idle" /\ session[s].inbox # <<>>
         /\ HandleApproval(s) => handler'[s].pc \in {"asking", "noted"}
         /\ HandleTimeout(s) => handler'[s].pc \in {"idle", "failing"}
         /\ HandleTurn(s) => handler'[s].pc = "ending" /\ handler'[s].session = registered
         /\ HandleClose(s) => handler'[s].pc \in {"idle", "failing"}
  <1>1. ASSUME Callback(s)
        PROVE  handler[s].pc = "idle" /\ session[s].inbox # <<>>
    BY <1>1 DEF Callback, IgnoreEvent, HandleApproval, HandleTimeout, HandleTurn, HandleClose, Receive
  <1>2. ASSUME HandleApproval(s)
        PROVE  handler'[s].pc \in {"asking", "noted"}
    <2> DEFINE q == Head(session[s].inbox).request
               row == [Idle EXCEPT !.pc = "asking"]
    <2>1. Await(s, row, "NEEDS_INPUT", q) \/ AwaitAt(s, "noted", "append", 0)
      BY <1>2 DEF HandleApproval
    <2>2. row.pc = "asking"
      BY BeginsAt DEF Awaiting
    <2> HIDE DEF row
    <2>3. QED
      BY <2>1, <2>2, AwaitAtPlaces DEF Await, Types
  <1>3. ASSUME HandleTimeout(s)
        PROVE  handler'[s].pc \in {"idle", "failing"}
    <2>1. handler[s].pc = "idle" /\ used' = used /\ (Fail(s, "failing") \/ handler' = handler)
      BY <1>3 DEF HandleTimeout, Receive
    <2>2. QED
      BY <2>1, FailPlaces
  <1>4. ASSUME HandleTurn(s)
        PROVE  handler'[s].pc = "ending" /\ handler'[s].session = registered
    <2> DEFINE row == [Idle EXCEPT !.pc = "ending", !.session = registered,
                                   !.ok = Head(session[s].inbox).ok]
    <2>1. row.pc = "ending" /\ row.session = registered
      BY IdleRow DEF HandlerRow
    <2>2. Await(s, row, "append", 0)
      BY <1>4 DEF HandleTurn
    <2> HIDE DEF row
    <2>3. QED
      BY <2>1, <2>2 DEF Await, Types
  <1>5. ASSUME HandleClose(s)
        PROVE  handler'[s].pc \in {"idle", "failing"}
    <2>1. used' = used /\ (Fail(s, "failing") \/ Return(s))
      BY <1>5 DEF HandleClose
    <2>2. QED
      BY <2>1, FailPlaces, ReturnPlaces
  <1>6. QED
    BY <1>1, <1>2, <1>3, <1>4, <1>5

LEMMA AgentPlaces ==
  ASSUME Types, NEW s \in Sessions, s \in Handlers, AgentExits(s)
  PROVE  handler' = handler \/ (handler'[s].pc = "exiting" /\ handler'[s].session = registered)
  <1>1. CASE session[s].listening
    <2>1. PICK ok \in BOOLEAN : GoTo(s, [Idle EXCEPT !.pc = "exiting", !.session = registered, !.ok = ok])
      BY <1>1 DEF AgentExits
    <2> DEFINE row == [Idle EXCEPT !.pc = "exiting", !.session = registered, !.ok = ok]
    <2>2. row.pc = "exiting" /\ row.session = registered
      BY IdleRow DEF HandlerRow
    <2>3. GoTo(s, row)
      BY <2>1
    <2> HIDE DEF row
    <2>4. QED
      BY <2>2, <2>3 DEF GoTo, Types
  <1>2. CASE ~session[s].listening
    BY <1>2 DEF AgentExits
  <1>3. QED
    BY <1>1, <1>2

-----------------------------------------------------------------------------
(* What the steps leave alone.                                               *)

Works == {"dirty", "committed", "checked"}

LEMMA GoesOnFrame ==
  ASSUME NEW h, GoesOn(h)
  PROVE  /\ mode' = mode /\ task' = task /\ work' = work /\ restarts' = restarts
         /\ \/ Launch(h) /\ used' = used + 1 /\ registered' = used + 1
            \/ ~Launch(h) /\ used' = used /\ registered' \in {registered, 0}
         /\ \/ Launch(h) /\ overlapped' = (overlapped \/ ~Quiet(h))
            \/ ~Launch(h) /\ overlapped' = overlapped
  <1>1. CASE Launch(h)
    BY <1>1 DEF Launch
  <1>2. CASE ~Launch(h)
    <2>1. CASE Finish(h) \/ Rejected(h) \/ Readied(h) \/ Listen(h) \/ SpawnServer(h) \/ RequestTurn(h)
      BY <1>2, <2>1 DEF Finish, Rejected, Readied, Listen, SpawnServer, RequestTurn
    <2>2. CASE SendKill(h) \/ KillServer(h) \/ Stopped(h) \/ Decided(h) \/ Answer(h)
      BY <1>2, <2>2 DEF SendKill, KillServer, Stopped, Decided, Answer
    <2>3. CASE Asked(h) \/ EndTurn(h) \/ StartChecks(h) \/ Checked(h)
      BY <1>2, <2>3 DEF Asked, EndTurn, StartChecks, Checked
    <2>4. QED
      BY <1>2, <2>1, <2>2, <2>3 DEF GoesOn
  <1>3. QED
    BY <1>1, <1>2

LEMMA ReceivesFrame ==
  ASSUME work \in Works, NEW h, Receives(h) \/ Request(h)
  PROVE  /\ mode' = mode /\ task' = task /\ restarts' = restarts /\ used' = used
         /\ overlapped' = overlapped
         /\ registered' \in {registered, 0}
         /\ work' \in Works /\ (work' = work \/ RunChecks(h))
  <1>1. CASE RunChecks(h)
    <2>1. PICK passed \in BOOLEAN, left \in {work, "dirty"} :
            work' = IF passed /\ left = "committed" THEN "checked" ELSE left
      BY <1>1 DEF RunChecks
    <2>2. work' \in Works
      BY <2>1 DEF Works
    <2>3. QED
      BY <1>1, <2>2 DEF RunChecks
  <1>2. CASE Prepare(h) \/ ThreadStarted(h) \/ TurnStarted(h) \/ StartFails(h) \/ Decide(h)
    BY <1>2 DEF Prepare, ThreadStarted, TurnStarted, StartFails, Decide
  <1>3. CASE HandleExit(h) \/ CollectEvidence(h)
    BY <1>3 DEF HandleExit, CollectEvidence
  <1>4. CASE Request(h)
    BY <1>4 DEF Request, Start, Cancel, Click
  <1>5. QED
    BY <1>1, <1>2, <1>3, <1>4 DEF Receives

LEMMA CallbackFrame ==
  ASSUME work \in Works, NEW s, Callback(s) \/ Agent(s)
  PROVE  /\ mode' = mode /\ task' = task /\ restarts' = restarts /\ used' = used
         /\ overlapped' = overlapped
         /\ registered' \in {registered, 0}
         /\ work' \in Works /\ (work' = work \/ AgentWorks(s))
  <1>1. CASE AgentWorks(s)
    BY <1>1 DEF AgentWorks, Works
  <1>2. CASE AgentAsks(s) \/ Expire(s) \/ TurnEnds(s) \/ ServerExits(s) \/ AgentExits(s)
    BY <1>2 DEF AgentAsks, Expire, TurnEnds, ServerExits, AgentExits
  <1>3. CASE Callback(s)
    BY <1>3 DEF Callback, IgnoreEvent, HandleApproval, HandleTimeout, HandleTurn, HandleClose
  <1>4. QED
    BY <1>1, <1>2, <1>3 DEF Agent

-----------------------------------------------------------------------------
(* The types hold.                                                           *)

\* What a step has to show of the variables that are not handlers.
Rest ==
  /\ session' \in [Sessions -> SessionRow]
  /\ mode' = mode /\ task' = task /\ restarts' = restarts /\ work' \in Works
  /\ used' \in {used, used + 1} /\ used' \in {0} \cup Sessions /\ registered' \in 0..used'
  /\ overlapped' \in BOOLEAN

LEMMA MoveTypes ==
  ASSUME Types, OneMutationEach, Rest, NEW h \in Handlers, Moves(h)
  PROVE  Types'
  <1>1. used \in Nat /\ used' \in Nat /\ used <= used'
    BY Numbers DEF Rest
  <1>2. done' \in Seq([by : Handlers, ok : BOOLEAN]) /\ queue' \in Seq(Mutation)
        /\ handler' \in [Handlers -> HandlerRow]
    BY MoveShifts
  <1>3. Len(done') <= 2
    <2>1. Len(done) <= 2 /\ Len(done) \in Nat /\ Len(done') \in Nat /\ Len(done') <= Len(done)
      BY Lengths, MoveShifts DEF Types, TypeOK
    <2>2. QED
      BY <2>1
  <1>4. \A g \in Handlers : handler'[g].session <= used'
    <2> TAKE g \in Handlers
    <2>1. CASE g = h
      BY <2>1 DEF Moves, Enters
    <2>2. CASE g # h
      <3>1. handler'[g] = handler[g] /\ handler[g].session <= used
        BY <2>2, MoveShifts DEF Types
      <3>2. handler[g].session \in Nat
        <4>1. handler[g] \in HandlerRow
          BY DEF Types
        <4>2. handler[g].session \in {0} \cup Sessions
          BY <4>1 DEF HandlerRow
        <4>3. QED
          BY <4>2, SessionsAreNumbers, 0 \in Nat
      <3>3. QED
        BY <1>1, <3>1, <3>2
    <2>3. QED
      BY <2>1, <2>2
  <1>5. TypeOK'
    BY <1>2, <1>3 DEF Rest, Types, TypeOK, Works
  <1>6. QED
    BY <1>2, <1>4, <1>5 DEF Types, Rest

LEMMA StillTypes ==
  ASSUME Types, Rest, UNCHANGED <<handler, queue, done>>, used' = used
  PROVE  Types'
  BY DEF Types, TypeOK, Rest, Works

LEMMA CommitTypes ==
  ASSUME Types, Discipline, Commit
  PROVE  Types'
  <1>1. done' \in Seq([by : Handlers, ok : BOOLEAN]) /\ queue' \in Seq(Mutation)
    BY CommitKeepsOrder
  <1>2. Len(done') <= 2
    <2>1. Len(done) \in Nat /\ Len(done) <= 1 /\ Len(done') = Len(done) + 1
      BY Lengths, CommitKeepsOrder DEF Commit, Settled
    <2>2. QED
      BY <2>1
  <1>3. Head(queue).to \in TaskStates \cup {"append"} /\ Head(queue).pending \in Requests \cup {0}
    BY CommitKeepsOrder DEF Mutation
  <1>4. task' \in [status : TaskStates, pending : Requests \cup {0}, recovery : BOOLEAN]
    <2>1. CASE task' = task
      BY <2>1 DEF Types, TypeOK
    <2>2. CASE /\ Head(queue).to # "append"
               /\ task' = [status |-> Head(queue).to, recovery |-> FALSE,
                           pending |-> IF Head(queue).to \in {"RUNNING", "NEEDS_INPUT", "FAILED"}
                                       THEN Head(queue).pending ELSE task.pending]
      <3>1. task.pending \in Requests \cup {0}
        BY Numbers
      <3>2. QED
        BY <1>3, <2>2, <3>1
    <2>3. QED
      BY <2>1, <2>2 DEF Commit
  <1>5. UNCHANGED <<mode, handler, registered, session, used, work, restarts, overlapped>>
    BY DEF Commit
  <1>6. TypeOK'
    BY <1>1, <1>2, <1>4, <1>5 DEF Types, TypeOK
  <1>7. QED
    BY <1>5, <1>6 DEF Types

LEMMA RestartTypes ==
  ASSUME Types, Restart
  PROVE  Types'
  <1>1. done' = <<>> /\ queue' = <<>>
    BY DEF Restart
  <1>2. /\ done' \in Seq([by : Handlers, ok : BOOLEAN]) /\ queue' \in Seq(Mutation)
        /\ Len(done') <= 2
    BY <1>1, EmptySeq
  <1>3. task' \in [status : TaskStates, pending : Requests \cup {0}, recovery : BOOLEAN]
    <2>1. task \in [status : TaskStates, pending : Requests \cup {0}, recovery : BOOLEAN]
      BY DEF Types, TypeOK
    <2>2. "INTERRUPTED" \in TaskStates
      BY DEF TaskStates
    <2>3. task' = task
          \/ \E recovery \in BOOLEAN :
               task' = [task EXCEPT !.status = "INTERRUPTED", !.recovery = recovery]
      BY DEF Restart
    <2>4. QED
      BY <2>1, <2>2, <2>3
  <1>4. handler' \in [Handlers -> HandlerRow] /\ \A h \in Handlers : handler'[h].session = 0
    BY IdleRow DEF Restart
  <1>5. /\ mode' = mode /\ used' = used /\ work' = work /\ registered' = 0
        /\ overlapped' = overlapped /\ restarts' \in 0..MaxRestarts
    <2>1. restarts \in 0..MaxRestarts /\ MaxRestarts \in Nat
      BY CoreBounds DEF Types, TypeOK
    <2>2. restarts < MaxRestarts /\ restarts' = restarts + 1
      BY DEF Restart
    <2>3. restarts' \in 0..MaxRestarts
      BY <2>1, <2>2
    <2>4. QED
      BY <2>3 DEF Restart
  <1>6. used \in Nat
    BY Numbers
  <1>7. TypeOK'
    BY <1>2, <1>3, <1>5, <1>6 DEF Types, TypeOK
  <1>8. QED
    BY <1>4, <1>5, <1>6, <1>7, RestartSessions DEF Types

\* A step of the core keeps the types, whatever the bounds and the mode.
LEMMA TypesStep ==
  ASSUME Types, Room, Discipline, [Next]_vars
  PROVE  Types'
  <1>0. work \in Works /\ used \in Nat /\ registered \in 0..used
        /\ used \in {0} \cup Sessions
    BY Numbers DEF Types, TypeOK, Works
  <1>v. overlapped \in BOOLEAN
    BY DEF Types, TypeOK
  <1>o. OneMutationEach
    BY DEF Discipline
  <1>1. CASE Commit
    BY <1>1, CommitTypes
  <1>2. CASE Restart
    BY <1>2, RestartTypes
  <1>3. ASSUME NEW h \in Handlers, GoesOn(h)
        PROVE  Types'
    <2>1. Rest
      <3>1. CASE Launch(h)
        <4>1. used + 1 \in Sessions
          BY <3>1, RoomToLaunch DEF Launch, Resume, Starting
        <4>2. overlapped' \in BOOLEAN
          BY <3>1 DEF Launch
        <4>3. QED
          BY <1>0, <1>3, <3>1, <4>1, <4>2, GoesOnFrame, GoesOnSessions DEF Rest
      <3>2. CASE ~Launch(h)
        BY <1>0, <1>v, <1>3, <3>2, GoesOnFrame, GoesOnSessions DEF Rest
      <3>3. QED
        BY <3>1, <3>2
    <2>2. QED
      BY <1>o, <1>3, <2>1, GoesOnMoves, MoveTypes
  <1>4. ASSUME NEW h \in Handlers, Receives(h)
        PROVE  Types'
    <2>1. Rest
      BY <1>0, <1>v, <1>4, ReceivesFrame, ReceivesSessions DEF Rest
    <2>2. QED
      BY <1>o, <1>4, <2>1, ReceivesMoves, MoveTypes
  <1>5. ASSUME NEW c \in Clients, Request(c)
        PROVE  Types'
    <2>1. c \in Handlers
      BY DEF Handlers
    <2>2. Rest
      BY <1>0, <1>v, <1>5, <2>1, ReceivesFrame, ReceivesSessions DEF Rest
    <2>3. QED
      BY <1>o, <1>5, <2>1, <2>2, RequestMoves, MoveTypes
  <1>6. ASSUME NEW s \in Sessions, Callback(s) \/ Agent(s)
        PROVE  Types'
    <2>1. s \in Handlers
      BY DEF Handlers
    <2>2. Rest /\ used' = used
      BY <1>0, <1>v, <1>6, CallbackFrame, CallbackSessions, AgentSessions DEF Rest
    <2>3. CASE Moves(s)
      BY <1>o, <2>1, <2>2, <2>3, MoveTypes
    <2>4. CASE UNCHANGED <<handler, queue, done>>
      BY <2>2, <2>4, StillTypes
    <2>5. QED
      BY <1>6, <2>3, <2>4, CallbackMoves, AgentMoves
  <1>7. CASE UNCHANGED vars
    BY <1>7 DEF vars, Types, TypeOK
  <1>8. QED
    BY <1>1, <1>2, <1>3, <1>4, <1>5, <1>6, <1>7 DEF Next

-----------------------------------------------------------------------------
(* Room: the sessions that starts will launch stay within their bound.       *)

StartingPcs == {"readying", "preparing", "launching"}

LEMMA StartsBegin ==
  ASSUME Types, NEW h \in Handlers
  PROVE  /\ GoesOn(h) => (handler'[h].pc \in StartingPcs => handler[h].pc \in StartingPcs)
         /\ Launch(h) => handler'[h].pc \notin StartingPcs /\ handler[h].pc \in StartingPcs
         /\ Receives(h) => (handler'[h].pc \in StartingPcs => handler[h].pc \in StartingPcs)
         /\ Start(h) => h \in Starters /\ handler[h].pc = "idle"
         /\ Cancel(h) \/ Click(h) => handler'[h].pc \notin StartingPcs
  <1>1. GoesOn(h) => (handler'[h].pc \in StartingPcs => handler[h].pc \in StartingPcs)
    BY GoesOnPlaces DEF GoesOn, StartingPcs
  <1>2. Launch(h) => handler'[h].pc \notin StartingPcs /\ handler[h].pc \in StartingPcs
    BY GoesOnPlaces DEF StartingPcs
  <1>3. Receives(h) => (handler'[h].pc \in StartingPcs => handler[h].pc \in StartingPcs)
    BY ReceivesPlaces DEF Receives, StartingPcs
  <1>4. Start(h) => h \in Starters /\ handler[h].pc = "idle"
    BY RequestPlaces
  <1>5. Cancel(h) \/ Click(h) => handler'[h].pc \notin StartingPcs
    BY RequestPlaces DEF StartingPcs
  <1>6. QED
    BY <1>1, <1>2, <1>3, <1>4, <1>5

LEMMA SessionsStartNothing ==
  ASSUME Types, NEW s \in Sessions, s \in Handlers, Callback(s) \/ Agent(s)
  PROVE  handler'[s].pc \in StartingPcs => handler[s].pc \in StartingPcs
  <1>1. CASE IgnoreEvent(s) \/ AgentWorks(s) \/ AgentAsks(s) \/ Expire(s) \/ TurnEnds(s) \/ ServerExits(s)
    BY <1>1 DEF IgnoreEvent, AgentWorks, AgentAsks, Expire, TurnEnds, ServerExits
  <1>2. CASE HandleApproval(s) \/ HandleTimeout(s) \/ HandleTurn(s) \/ HandleClose(s)
    BY <1>2, CallbackPlaces DEF StartingPcs
  <1>3. CASE AgentExits(s)
    BY <1>3, AgentPlaces DEF StartingPcs
  <1>4. QED
    BY <1>1, <1>2, <1>3 DEF Callback, Agent

LEMMA StartersAreFinite ==
  ASSUME NEW S, S \subseteq Starters
  PROVE  /\ IsFiniteSet(S) /\ Cardinality(S) \in Nat
         /\ \A T \in SUBSET S : Cardinality(T) \in Nat /\ Cardinality(T) <= Cardinality(S)
         /\ \A x \in S : Cardinality(S \ {x}) = Cardinality(S) - 1
  <1>1. IsFiniteSet(S)
    BY FS_Subset, CoreBounds
  <1>2. \A T \in SUBSET S : IsFiniteSet(T) /\ Cardinality(T) \in Nat /\ Cardinality(T) <= Cardinality(S)
    BY <1>1, FS_Subset, FS_CardinalityType
  <1>3. \A x \in S : Cardinality(S \ {x}) = Cardinality(S) - 1
    BY <1>1, FS_RemoveElement
  <1>4. QED
    BY <1>1, <1>2, <1>3, FS_CardinalityType

\* A handler moves, starts nothing, and launches or not.
LEMMA MoveRoom ==
  ASSUME Types, Room, mode' = mode, NEW h \in Handlers,
         \A g \in Handlers \ {h} : handler'[g] = handler[g],
         handler'[h].pc \in StartingPcs => handler[h].pc \in StartingPcs,
         \/ used' = used
         \/ used' = used + 1 /\ handler'[h].pc \notin StartingPcs /\ handler[h].pc \in StartingPcs
  PROVE  Room'
  <1>1. \A g \in Handlers : handler'[g].pc \in StartingPcs => handler[g].pc \in StartingPcs
    OBVIOUS
  <1>2. \A g \in Handlers : handler'[g].pc \in StartingPcs => g \in Starters
    BY <1>1 DEF Room, StartingPcs
  <1>3. Launching \subseteq Starters /\ Launching' \subseteq Launching
    <2>1. Starters \subseteq Handlers
      BY DEF Handlers, Clients
    <2>2. QED
      BY <1>1, <2>1 DEF Launching, StartingPcs
  <1>4. /\ used \in Nat /\ MaxSessions[mode] \in Nat /\ used + Cardinality(Launching) <= MaxSessions[mode]
        /\ Cardinality(Launching) \in Nat
        /\ Cardinality(Launching') \in Nat /\ Cardinality(Launching') <= Cardinality(Launching)
    BY <1>3, Numbers, SessionsAreNumbers, StartersAreFinite DEF Types, TypeOK, Room
  <1>5. used' + Cardinality(Launching') <= MaxSessions[mode]
    <2>1. CASE used' = used
      BY <1>4, <2>1
    <2>2. CASE used' = used + 1 /\ handler'[h].pc \notin StartingPcs /\ handler[h].pc \in StartingPcs
      <3>1. h \in Launching /\ Launching' \subseteq Launching \ {h}
        BY <1>3, <2>2 DEF Launching, Room, StartingPcs
      <3>2. Cardinality(Launching \ {h}) = Cardinality(Launching) - 1
        BY <1>3, <3>1, StartersAreFinite
      <3>3. Cardinality(Launching') <= Cardinality(Launching \ {h})
        <4>1. Launching \ {h} \subseteq Starters
          BY <1>3
        <4>2. QED
          BY <3>1, <4>1, StartersAreFinite
      <3>4. QED
        BY <1>4, <2>2, <3>2, <3>3
    <2>3. QED
      BY <2>1, <2>2
  <1>6. QED
    BY <1>2, <1>5 DEF Room, StartingPcs

LEMMA StartRoom ==
  ASSUME Types, Room, NEW c \in Clients, Start(c)
  PROVE  Room'
  <1>0. c \in Handlers /\ c \in Starters /\ handler[c].pc = "idle" /\ mode' = mode /\ used' = used
    BY RequestPlaces DEF Handlers, Start
  <1>1. \A g \in Handlers \ {c} : handler'[g] = handler[g]
    BY DEF Start, AwaitAt, Await, GoTo, Types
  <1>2. \A g \in Handlers : handler'[g].pc \in StartingPcs => g \in Starters
    BY <1>0, <1>1 DEF Room, StartingPcs
  <1> DEFINE Busy == {d \in Starters : handler[d].pc # "idle"}
  <1>3. /\ Busy \subseteq Starters /\ c \notin Busy /\ Launching' \subseteq Busy \cup {c}
        /\ Launching' \subseteq Starters
    <2>1. Starters \subseteq Handlers
      BY DEF Handlers, Clients
    <2>2. QED
      BY <1>0, <1>1, <2>1 DEF Launching
  <1>4. used + Cardinality(Busy) < MaxSessions[mode]
    BY DEF Start
  <1>5. Cardinality(Busy \cup {c}) = Cardinality(Busy) + 1 /\ Cardinality(Busy) \in Nat
    <2>1. IsFiniteSet(Busy)
      BY <1>3, StartersAreFinite
    <2> HIDE DEF Busy
    <2>2. QED
      BY <1>3, <2>1, FS_AddElement, FS_CardinalityType
  <1>6. Cardinality(Launching') \in Nat /\ Cardinality(Launching') <= Cardinality(Busy \cup {c})
    <2>1. Busy \cup {c} \subseteq Starters
      BY <1>0, <1>3
    <2> HIDE DEF Busy
    <2>2. QED
      BY <1>3, <2>1, StartersAreFinite
  <1> HIDE DEF Busy
  <1>7. used \in Nat /\ MaxSessions[mode] \in Nat
    BY Numbers, SessionsAreNumbers DEF Types, TypeOK
  <1>8. used' + Cardinality(Launching') <= MaxSessions[mode]
    BY <1>0, <1>4, <1>5, <1>6, <1>7
  <1>9. QED
    BY <1>0, <1>2, <1>8 DEF Room, StartingPcs

LEMMA RoomStep ==
  ASSUME Types, Room, Discipline, [Next]_vars
  PROVE  Room'
  <1>o. OneMutationEach
    BY DEF Discipline
  <1>1. CASE Commit \/ UNCHANGED vars
    <2>1. mode' = mode /\ used' = used /\ handler' = handler
      BY <1>1 DEF Commit, vars
    <2>2. QED
      BY <2>1 DEF Room, Launching
  <1>2. CASE Restart
    <2>1. mode' = mode /\ used' = used /\ \A h \in Handlers : handler'[h].pc = "idle"
      BY <1>2, IdleRow DEF Restart
    <2>2. Launching' = {}
      <3>1. Starters \subseteq Handlers
        BY DEF Handlers, Clients
      <3>2. QED
        BY <2>1, <3>1 DEF Launching
    <2>3. Cardinality(Launching') = 0
      BY <2>2, FS_EmptySet
    <2>4. used \in Nat /\ MaxSessions[mode] \in Nat /\ Cardinality(Launching) \in Nat
      <3>1. Launching \subseteq Starters
        BY DEF Launching
      <3>2. QED
        BY <3>1, StartersAreFinite, Numbers, SessionsAreNumbers DEF Types, TypeOK
    <2>5. QED
      BY <2>1, <2>3, <2>4 DEF Room
  <1>3. ASSUME NEW h \in Handlers, GoesOn(h)
        PROVE  Room'
    <2>1. \A g \in Handlers \ {h} : handler'[g] = handler[g]
      BY <1>o, <1>3, GoesOnMoves, MoveShifts
    <2>2. QED
      BY <1>3, <2>1, StartsBegin, GoesOnFrame, MoveRoom
  <1>4. ASSUME NEW h \in Handlers, Receives(h)
        PROVE  Room'
    <2>1. \A g \in Handlers \ {h} : handler'[g] = handler[g]
      BY <1>o, <1>4, ReceivesMoves, MoveShifts
    <2>2. mode' = mode /\ used' = used
      BY <1>4, ReceivesFrame DEF Types, TypeOK, Works
    <2>3. QED
      BY <1>4, <2>1, <2>2, StartsBegin, MoveRoom
  <1>5. ASSUME NEW c \in Clients, Request(c)
        PROVE  Room'
    <2>1. c \in Handlers
      BY DEF Handlers
    <2>2. CASE Start(c)
      BY <2>2, StartRoom
    <2>3. CASE Cancel(c) \/ Click(c)
      <3>1. \A g \in Handlers \ {c} : handler'[g] = handler[g]
        BY <1>o, <1>5, <2>1, RequestMoves, MoveShifts
      <3>2. mode' = mode /\ used' = used
        BY <1>5, ReceivesFrame DEF Types, TypeOK, Works
      <3>3. QED
        BY <2>1, <2>3, <3>1, <3>2, StartsBegin, MoveRoom
    <2>4. QED
      BY <1>5, <2>2, <2>3 DEF Request
  <1>6. ASSUME NEW s \in Sessions, Callback(s) \/ Agent(s)
        PROVE  Room'
    <2>1. s \in Handlers
      BY DEF Handlers
    <2>2. \A g \in Handlers \ {s} : handler'[g] = handler[g]
      BY <1>o, <1>6, <2>1, CallbackMoves, AgentMoves, MoveShifts
    <2>3. mode' = mode /\ used' = used
      BY <1>6, CallbackFrame DEF Types, TypeOK, Works
    <2>4. QED
      BY <1>6, <2>1, <2>2, <2>3, SessionsStartNothing, MoveRoom
  <1>7. QED
    BY <1>1, <1>2, <1>3, <1>4, <1>5, <1>6 DEF Next

-----------------------------------------------------------------------------
(* What the steps do to a record of a session.                               *)

\* Of the handlers, only a launch and the start of a server bring a child to
\* life, no handler adds an approval or an event, and only Cancel a cancellation.
LEMMA GoesOnRows ==
  ASSUME Types, Room, NEW h \in Handlers, GoesOn(h), NEW i \in Sessions
  PROVE  /\ session'[i].inbox = session[i].inbox
         /\ session'[i].approvals \subseteq session[i].approvals
         /\ session'[i].cancelled = session[i].cancelled
         /\ \/ session'[i].child = session[i].child
            \/ session[i].child = "alive" /\ session'[i].child = "signalled"
            \/ SpawnServer(h) /\ i = handler[h].session
            \/ Launch(h) /\ i = used + 1
         /\ \/ session'[i].stopped = session[i].stopped
            \/ SendKill(h) /\ i = handler[h].session
            \/ KillServer(h) /\ i = handler[h].session
            \/ Stopped(h) /\ i = handler[h].session
  <1>0. session \in [Sessions -> SessionRow] /\ session[i] \in SessionRow
    BY DEF Types
  <1> DEFINE r == session[i]
  <1>k. /\ Killed(r).inbox = r.inbox /\ Killed(r).approvals = {} /\ Killed(r).stopped = r.stopped
        /\ Killed(r).cancelled = r.cancelled
        /\ Killed(r).child = r.child \/ (r.child = "alive" /\ Killed(r).child = "signalled")
        /\ Killed(r) \in SessionRow
    BY <1>0, KilledRow
  <1>1. CASE session'[i] = r
    BY <1>1
  <1>2. CASE Launch(h) /\ i = used + 1
    <2>1. session'[i] = [r EXCEPT !.child = IF mode = "exec" THEN "alive" ELSE "none"]
      BY <1>0, <1>2 DEF Launch
    <2>2. QED
      BY <1>0, <1>2, <2>1 DEF SessionRow
  <1>3. CASE Listen(h) /\ i = handler[h].session
    <2>1. session'[i] = [r EXCEPT !.listening = TRUE]
      BY <1>0, <1>3 DEF Listen
    <2>2. QED
      BY <1>0, <1>3, <2>1 DEF SessionRow
  <1>4. CASE SpawnServer(h) /\ i = handler[h].session
    <2>1. session'[i] = [r EXCEPT !.child = "alive"]
      BY <1>0, <1>4 DEF SpawnServer
    <2>2. QED
      BY <1>0, <1>4, <2>1 DEF SessionRow
  <1>5. CASE (SendKill(h) \/ Stopped(h)) /\ i = handler[h].session
    <2>1. session'[i] = [r EXCEPT !.stopped = TRUE]
      BY <1>0, <1>5 DEF SendKill, Stopped
    <2>2. QED
      BY <1>0, <1>5, <2>1 DEF SessionRow
  <1>6. CASE KillServer(h) /\ i = handler[h].session
    <2>1. session'[i] = [Killed(r) EXCEPT !.stopped = ~Failable]
      BY <1>0, <1>6 DEF KillServer
    <2>2. QED
      BY <1>k, <1>6, <2>1 DEF SessionRow
  <1>7. CASE Answer(h) /\ i = handler[h].session
    <2>1. \/ session'[i] = r
          \/ session'[i] = [r EXCEPT !.approvals = r.approvals \ {handler[h].request}]
      BY <1>0, <1>7 DEF Answer
    <2>2. QED
      BY <1>0, <1>7, <2>1 DEF SessionRow
  <1>8. CASE EndTurn(h) /\ i = handler[h].session
    <2>1. session'[i] = Killed(r)
      BY <1>0, <1>8 DEF EndTurn
    <2>2. QED
      BY <1>k, <1>8, <2>1
  <1>9. CASE \/ Finish(h) \/ Rejected(h) \/ Readied(h) \/ RequestTurn(h) \/ Decided(h) \/ Asked(h)
             \/ StartChecks(h) \/ Checked(h)
    <2>1. session' = session
      BY <1>9 DEF Finish, Rejected, Readied, RequestTurn, Decided, Asked, StartChecks, Checked
    <2>2. QED
      BY <2>1
  <1>10. QED
    <2>1. session'[i] = session[i] \/ i = handler[h].session \/ (Launch(h) /\ i = used + 1)
      BY GoesOnSessions
    <2>l. Launch(h) => session'[i] = r \/ i = used + 1
      BY <1>0 DEF Launch
    <2>2. \/ session'[i] = r
          \/ Launch(h) /\ i = used + 1
          \/ Listen(h) /\ i = handler[h].session
          \/ SpawnServer(h) /\ i = handler[h].session
          \/ (SendKill(h) \/ Stopped(h)) /\ i = handler[h].session
          \/ KillServer(h) /\ i = handler[h].session
          \/ Answer(h) /\ i = handler[h].session
          \/ EndTurn(h) /\ i = handler[h].session
          \/ Finish(h) \/ Rejected(h) \/ Readied(h) \/ RequestTurn(h) \/ Decided(h) \/ Asked(h)
             \/ StartChecks(h) \/ Checked(h)
      BY <2>1, <2>l DEF GoesOn
    <2>3. QED
      BY <2>2, <1>1, <1>2, <1>3, <1>4, <1>5, <1>6, <1>7, <1>8, <1>9

LEMMA ReceivesRows ==
  ASSUME Types, Room, NEW h \in Handlers, Receives(h) \/ Request(h), NEW i \in Sessions
  PROVE  /\ session'[i].inbox = session[i].inbox
         /\ session'[i].approvals \subseteq session[i].approvals
         /\ \/ session'[i].child = session[i].child
            \/ session[i].child = "alive" /\ session'[i].child = "signalled"
         /\ session'[i].stopped = session[i].stopped
         /\ \/ session'[i].cancelled = session[i].cancelled
            \/ Cancel(h) /\ i = registered /\ session'[i].cancelled
  <1>0. session \in [Sessions -> SessionRow] /\ session[i] \in SessionRow
    BY DEF Types
  <1> DEFINE r == session[i]
  <1>1. CASE session'[i] = r
    BY <1>1
  <1>2. CASE TurnStarted(h) /\ i = handler[h].session
    <2>1. session'[i] = [r EXCEPT !.turn = TRUE]
      BY <1>0, <1>2 DEF TurnStarted
    <2>2. QED
      BY <1>0, <2>1 DEF SessionRow
  <1>3. CASE StartFails(h) /\ i = handler[h].session
    <2>1. PICK turn \in BOOLEAN : session'[i] = [Killed(r) EXCEPT !.turn = turn]
      BY <1>0, <1>3 DEF StartFails
    <2>2. /\ Killed(r).inbox = r.inbox /\ Killed(r).approvals = {} /\ Killed(r).stopped = r.stopped
          /\ Killed(r).cancelled = r.cancelled
          /\ Killed(r).child = r.child \/ (r.child = "alive" /\ Killed(r).child = "signalled")
          /\ Killed(r) \in SessionRow
      BY <1>0, KilledRow
    <2>3. QED
      BY <2>1, <2>2 DEF SessionRow
  <1>4. CASE Cancel(h) /\ i = registered
    <2>1. session'[i] = [r EXCEPT !.cancelled = TRUE]
      BY <1>0, <1>4 DEF Cancel
    <2>2. QED
      BY <1>0, <1>4, <2>1 DEF SessionRow
  <1>5. QED
    <2>1. \/ TurnStarted(h) \/ StartFails(h) \/ Cancel(h)
          \/ session' = session
      BY DEF Receives, Request, Prepare, ThreadStarted, Decide, HandleExit, RunChecks,
             CollectEvidence, Start, Click
    <2>2. TurnStarted(h) \/ StartFails(h) => session'[i] = r \/ i = handler[h].session
      BY <1>0 DEF TurnStarted, StartFails
    <2>3. Cancel(h) => session'[i] = r \/ i = registered
      BY <1>0 DEF Cancel
    <2>4. QED
      BY <2>1, <2>2, <2>3, <1>1, <1>2, <1>3, <1>4

-----------------------------------------------------------------------------
(* A session that is not launched is left alone, and codex exec asks nothing.*)

\* Who acts for a session that has not been launched: nobody.
LEMMA OnlyLaunched ==
  ASSUME Types, Discipline
  PROVE  /\ \A h \in Handlers : GoesOn(h) => handler[h].pc \in Awaiting /\ handler[h].pc # "idle"
         /\ \A h \in Handlers : Receives(h) => handler[h].pc # "idle"
         /\ \A s \in Sessions : Callback(s) \/ Agent(s) => s <= used
  <1>1. ASSUME NEW h \in Handlers, GoesOn(h)
        PROVE  handler[h].pc \in Awaiting /\ handler[h].pc # "idle"
    <2>1. CASE Rejected(h)
      BY <2>1, AnsweredAwaits DEF Rejected, Discipline, Awaiting
    <2>2. CASE ~Rejected(h)
      BY <1>1, <2>2, GoesOnPlaces DEF GoesOn, Awaiting
    <2>3. QED
      BY <2>1, <2>2
  <1>2. ASSUME NEW h \in Handlers, Receives(h)
        PROVE  handler[h].pc # "idle"
    BY <1>2, ReceivesPlaces DEF Receives
  <1>3. ASSUME NEW s \in Sessions, Callback(s) \/ Agent(s), s > used
        PROVE  FALSE
    <2>1. session[s] = NewSession
      BY <1>3 DEF Discipline, Unlaunched
    <2>2. session[s].inbox = <<>> /\ session[s].child = "none" /\ session[s].approvals = {}
      BY <2>1 DEF NewSession
    <2>3. ~Callback(s)
      BY <2>2, CallbackPlaces DEF Handlers
    <2>4. ~Agent(s)
      BY <2>2 DEF Agent, AgentWorks, AgentAsks, Expire, TurnEnds, ServerExits, AgentExits, Working, Heard
    <2>5. QED
      BY <1>3, <2>3, <2>4
  <1>4. used \in Nat /\ \A s \in Sessions : s \in Nat
    BY Numbers, SessionsAreNumbers
  <1>5. \A s \in Sessions : Callback(s) \/ Agent(s) => s <= used
    BY <1>3, <1>4
  <1>6. QED
    BY <1>1, <1>2, <1>5

LEMMA UnlaunchedStep ==
  ASSUME Types, Room, Discipline, [Next]_vars
  PROVE  Unlaunched'
  <1>o. OneMutationEach
    BY DEF Discipline
  <1>n. used \in Nat /\ registered <= used /\ (\A s \in Sessions : s \in Nat)
    BY Numbers, SessionsAreNumbers
  <1>h. \A h \in Handlers : handler[h].session \in Nat /\ handler[h].session <= used
    <2>1. \A h \in Handlers : handler[h] \in HandlerRow
      BY DEF Types
    <2>2. \A h \in Handlers : handler[h].session \in {0} \cup Sessions
      BY <2>1 DEF HandlerRow
    <2>3. QED
      BY <2>2, SessionsAreNumbers, 0 \in Nat DEF Types
  <1>r. registered \in Nat
    BY Numbers
  <1>1. CASE Commit \/ UNCHANGED vars
    BY <1>1 DEF Commit, vars, Discipline, Unlaunched
  <1>2. CASE Restart
    BY <1>2 DEF Restart, Discipline, Unlaunched, Handlers
  <1>3. ASSUME NEW h \in Handlers, GoesOn(h)
        PROVE  Unlaunched'
    <2> SUFFICES ASSUME NEW s \in Sessions, s > used'
                 PROVE  handler'[s] = Idle /\ session'[s] = NewSession
      BY DEF Unlaunched
    <2>1. s > used /\ (Launch(h) => s # used + 1)
      BY <1>3, <1>n, GoesOnFrame
    <2>2. handler[s] = Idle /\ session[s] = NewSession
      BY <2>1 DEF Discipline, Unlaunched
    <2>3. s # h
      BY <1>3, <2>2, IdleRow, OnlyLaunched
    <2>4. handler'[s] = handler[s]
      BY <1>o, <1>3, <2>3, GoesOnMoves, MoveShifts DEF Handlers
    <2>5. s # handler[h].session
      BY <1>n, <1>h, <2>1
    <2>6. session'[s] = session[s]
      BY <1>3, <2>1, <2>5, GoesOnSessions
    <2>7. QED
      BY <2>2, <2>4, <2>6
  <1>4. ASSUME NEW h \in Handlers, Receives(h) \/ (h \in Clients /\ Request(h))
        PROVE  Unlaunched'
    <2> SUFFICES ASSUME NEW s \in Sessions, s > used'
                 PROVE  handler'[s] = Idle /\ session'[s] = NewSession
      BY DEF Unlaunched
    <2>1. s > used
      BY <1>4, ReceivesFrame DEF Types, TypeOK, Works
    <2>2. handler[s] = Idle /\ session[s] = NewSession
      BY <2>1 DEF Discipline, Unlaunched
    <2>3. s # h
      BY <1>4, <2>2, IdleRow, OnlyLaunched, SessionsAreNumbers
    <2>4. handler'[s] = handler[s]
      BY <1>o, <1>4, <2>3, ReceivesMoves, RequestMoves, MoveShifts DEF Handlers
    <2>5. s # handler[h].session /\ s # registered
      BY <1>n, <1>h, <1>r, <2>1
    <2>6. session'[s] = session[s]
      BY <1>4, <2>5, ReceivesSessions
    <2>7. QED
      BY <2>2, <2>4, <2>6
  <1>5. ASSUME NEW a \in Sessions, Callback(a) \/ Agent(a)
        PROVE  Unlaunched'
    <2> SUFFICES ASSUME NEW s \in Sessions, s > used'
                 PROVE  handler'[s] = Idle /\ session'[s] = NewSession
      BY DEF Unlaunched
    <2>1. s > used
      BY <1>5, CallbackFrame DEF Types, TypeOK, Works
    <2>2. handler[s] = Idle /\ session[s] = NewSession
      BY <2>1 DEF Discipline, Unlaunched
    <2>3. s # a /\ s # registered
      BY <1>5, <1>n, <1>r, <2>1, OnlyLaunched
    <2>4. handler'[s] = handler[s]
      BY <1>o, <1>5, <2>3, CallbackMoves, AgentMoves, MoveShifts DEF Handlers
    <2>5. session'[s] = session[s]
      BY <1>5, <2>3, CallbackSessions, AgentSessions
    <2>6. QED
      BY <2>2, <2>4, <2>5
  <1>6. QED
    BY <1>1, <1>2, <1>3, <1>4, <1>5 DEF Next, Handlers

\* In exec mode an agent works or exits, and no callback waits.
LEMMA ExecAgents ==
  ASSUME Types, Discipline, mode = "exec", NEW s \in Sessions
  PROVE  /\ ~Callback(s)
         /\ Agent(s) => AgentWorks(s) \/ AgentExits(s)
         /\ Agent(s) => session[s].child \in Live /\ handler[s].pc = "idle"
  <1>1. session[s].inbox = <<>> /\ session[s].approvals = {}
        /\ (session[s].child \in Live => handler[s].pc = "idle")
    BY DEF Discipline, ExecRows
  <1>2. ~Callback(s)
    BY <1>1, CallbackPlaces DEF Handlers
  <1>3. Agent(s) => AgentWorks(s) \/ AgentExits(s)
    BY <1>1 DEF Agent, AgentAsks, Expire, TurnEnds, ServerExits
  <1>4. Agent(s) => session[s].child \in Live
    BY <1>3 DEF AgentWorks, AgentExits, Working, Heard, Live
  <1>5. QED
    BY <1>1, <1>2, <1>3, <1>4

LEMMA AgentExitsRow ==
  ASSUME Types, NEW s \in Sessions, AgentExits(s)
  PROVE  /\ \A i \in Sessions \ {s} : session'[i] = session[i]
         /\ session'[s] = [session[s] EXCEPT !.child = "dead"]
         /\ session'[s].child = "dead" /\ session'[s].inbox = session[s].inbox
         /\ session'[s].approvals = session[s].approvals
         /\ session'[s].cancelled = session[s].cancelled /\ session'[s].stopped = session[s].stopped
  <1>1. session \in [Sessions -> SessionRow] /\ session[s] \in SessionRow
    BY DEF Types
  <1>2. session' = [session EXCEPT ![s].child = "dead"]
    BY DEF AgentExits
  <1>3. session'[s] = [session[s] EXCEPT !.child = "dead"] /\ \A i \in Sessions \ {s} : session'[i] = session[i]
    BY <1>1, <1>2
  <1>4. QED
    BY <1>1, <1>3 DEF SessionRow

LEMMA ExecRowsStep ==
  ASSUME Types, Room, Discipline, [Next]_vars
  PROVE  ExecRows'
  <1>m. mode' = mode
    BY GoesOnFrame, ReceivesFrame, CallbackFrame DEF Next, Types, TypeOK, Works, vars, Commit, Restart
  <1> SUFFICES ASSUME mode = "exec"
               PROVE  ExecRows'
    BY <1>m DEF ExecRows
  <1>o. OneMutationEach
    BY DEF Discipline
  <1>0. \A i \in Sessions : /\ session[i].inbox = <<>> /\ session[i].approvals = {}
                            /\ session[i].child \in Live => handler[i].pc = "idle"
    BY DEF Discipline, ExecRows
  <1>1. CASE Commit \/ UNCHANGED vars
    BY <1>0, <1>1 DEF Commit, vars, ExecRows
  <1>2. CASE Restart
    <2> SUFFICES ASSUME NEW i \in Sessions
                 PROVE  /\ session'[i].inbox = <<>> /\ session'[i].approvals = {}
                        /\ handler'[i].pc = "idle"
      BY DEF ExecRows
    <2>0. handler'[i].pc = "idle"
      BY <1>2, IdleRow DEF Restart, Handlers
    <2>1. CASE i > used
      <3>1. session'[i] = NewSession
        BY <1>2, <2>1 DEF Restart, Discipline, Unlaunched
      <3>2. QED
        BY <2>0, <3>1 DEF NewSession
    <2>2. CASE ~(i > used)
      BY <1>2, <2>0, <2>2, RestartRows
    <2>3. QED
      BY <2>1, <2>2
  <1>3. ASSUME NEW h \in Handlers, GoesOn(h)
        PROVE  ExecRows'
    <2> SUFFICES ASSUME NEW i \in Sessions
                 PROVE  /\ session'[i].inbox = <<>> /\ session'[i].approvals = {}
                        /\ session'[i].child \in Live => handler'[i].pc = "idle"
      BY DEF ExecRows
    <2>1. session'[i].inbox = <<>> /\ session'[i].approvals = {}
      BY <1>0, <1>3, GoesOnRows
    <2>2. ASSUME session'[i].child \in Live
          PROVE  handler'[i].pc = "idle"
      <3>1. handler[h].pc # "idle" /\ i \in Handlers
        BY <1>3, OnlyLaunched DEF Handlers
      <3>2. handler[i].pc = "idle"
        <4>1. CASE session[i].child \in Live
          BY <1>0, <4>1
        <4>2. CASE Launch(h) /\ i = used + 1
          <5>1. handler[i] = Idle
            BY <4>2, Numbers, SessionsAreNumbers DEF Discipline, Unlaunched
          <5>2. QED
            BY <5>1, IdleRow
        <4>3. CASE SpawnServer(h)
          BY <4>3 DEF SpawnServer
        <4>4. QED
          BY <1>3, <2>2, <4>1, <4>2, <4>3, GoesOnRows DEF Live
      <3>3. handler'[i] = handler[i]
        BY <1>o, <1>3, <3>1, <3>2, GoesOnMoves, MoveShifts
      <3>4. QED
        BY <3>2, <3>3
    <2>3. QED
      BY <2>1, <2>2
  <1>4. ASSUME NEW h \in Handlers, Receives(h) \/ (h \in Clients /\ Request(h))
        PROVE  ExecRows'
    <2> SUFFICES ASSUME NEW i \in Sessions
                 PROVE  /\ session'[i].inbox = <<>> /\ session'[i].approvals = {}
                        /\ session'[i].child \in Live => handler'[i].pc = "idle"
      BY DEF ExecRows
    <2>1. session'[i].inbox = <<>> /\ session'[i].approvals = {}
      BY <1>0, <1>4, ReceivesRows
    <2>2. ASSUME session'[i].child \in Live
          PROVE  handler'[i].pc = "idle"
      <3>1. session[i].child \in Live
        BY <1>4, <2>2, ReceivesRows DEF Live
      <3>2. handler[i].pc = "idle" /\ i \in Handlers
        BY <1>0, <3>1 DEF Handlers
      <3>3. i # h
        BY <1>4, <3>2, OnlyLaunched, SessionsAreNumbers
      <3>4. handler'[i] = handler[i]
        BY <1>o, <1>4, <3>2, <3>3, ReceivesMoves, RequestMoves, MoveShifts
      <3>5. QED
        BY <3>2, <3>4
    <2>3. QED
      BY <2>1, <2>2
  <1>5. ASSUME NEW a \in Sessions, Callback(a) \/ Agent(a)
        PROVE  ExecRows'
    <2>1. AgentWorks(a) \/ AgentExits(a)
      BY <1>5, ExecAgents
    <2>2. CASE AgentWorks(a)
      BY <1>0, <2>2 DEF AgentWorks, ExecRows
    <2>3. CASE AgentExits(a)
      <3> SUFFICES ASSUME NEW i \in Sessions
                   PROVE  /\ session'[i].inbox = <<>> /\ session'[i].approvals = {}
                          /\ session'[i].child \in Live => handler'[i].pc = "idle"
        BY DEF ExecRows
      <3>1. CASE i = a
        BY <1>0, <2>3, <3>1, AgentExitsRow DEF Live
      <3>2. CASE i # a
        <4>1. session'[i] = session[i]
          BY <2>3, <3>2, AgentExitsRow
        <4>2. handler'[i] = handler[i]
          BY <1>o, <1>5, <3>2, AgentMoves, CallbackMoves, MoveShifts DEF Handlers
        <4>3. QED
          BY <1>0, <4>1, <4>2
      <3>3. QED
        BY <3>1, <3>2
    <2>4. QED
      BY <2>1, <2>2, <2>3
  <1>6. QED
    BY <1>1, <1>2, <1>3, <1>4, <1>5 DEF Next, Handlers

-----------------------------------------------------------------------------
(* The inductive invariant of every core.                                    *)

Base == Types /\ Room /\ Discipline

LEMMA DisciplineStep ==
  ASSUME Base, [Next]_vars
  PROVE  Discipline'
  <1>b. Types /\ Room /\ Discipline /\ OneMutationEach
    BY DEF Base, Discipline
  <1>1. OneMutationEach'
    <2>1. CASE Commit
      BY <1>b, <2>1, CommitDiscipline
    <2>2. CASE Restart
      BY <2>2, RestartDiscipline
    <2>3. ASSUME NEW h \in Handlers, Moves(h)
          PROVE  OneMutationEach'
      BY <1>b, <2>3, MoveDiscipline
    <2>4. CASE UNCHANGED <<handler, queue, done>>
      BY <1>b, <2>4, SameDiscipline
    <2>5. ASSUME NEW h \in Handlers, GoesOn(h) \/ Receives(h)
          PROVE  OneMutationEach'
      BY <1>b, <2>3, <2>5, GoesOnMoves, ReceivesMoves
    <2>6. ASSUME NEW c \in Clients, Request(c)
          PROVE  OneMutationEach'
      BY <1>b, <2>3, <2>6, RequestMoves DEF Handlers
    <2>7. ASSUME NEW s \in Sessions, Agent(s) \/ Callback(s)
          PROVE  OneMutationEach'
      BY <1>b, <2>3, <2>4, <2>7, CallbackMoves, AgentMoves DEF Handlers
    <2>8. CASE UNCHANGED vars
      BY <2>4, <2>8 DEF vars
    <2>9. QED
      BY <2>1, <2>2, <2>5, <2>6, <2>7, <2>8 DEF Next
  <1>2. QED
    BY <1>b, <1>1, UnlaunchedStep, ExecRowsStep DEF Discipline

LEMMA InitBase ==
  ASSUME Init
  PROVE  Base
  <1>1. /\ mode \in Modes /\ task = [status |-> "BACKLOG", pending |-> 0, recovery |-> FALSE]
        /\ queue = <<>> /\ done = <<>> /\ registered = 0 /\ used = 0 /\ work = "committed"
        /\ restarts = 0 /\ overlapped = FALSE
        /\ handler = [h \in Handlers |-> Idle] /\ session = [s \in Sessions |-> NewSession]
    BY DEF Init
  <1>2. Types
    <2>1. queue \in Seq(Mutation) /\ done \in Seq([by : Handlers, ok : BOOLEAN]) /\ Len(done) = 0
      BY <1>1, EmptySeq
    <2>2. task \in [status : TaskStates, pending : Requests \cup {0}, recovery : BOOLEAN]
      BY <1>1 DEF TaskStates
    <2>3. TypeOK
      <3>1. overlapped \in BOOLEAN
        BY <1>1
      <3>2. Len(done) <= 2
        BY <2>1
      <3>3. 0 \in 0..0 /\ 0 \in 0..MaxRestarts
        BY CoreBounds
      <3>4. QED
        BY <1>1, <2>1, <2>2, <3>1, <3>2, <3>3 DEF TypeOK
    <2>4. handler \in [Handlers -> HandlerRow] /\ \A h \in Handlers : handler[h].session = 0
      BY <1>1, IdleRow
    <2>5. session \in [Sessions -> SessionRow]
      BY <1>1, NewRow
    <2>6. QED
      BY <1>1, <2>3, <2>4, <2>5 DEF Types
  <1>3. \A h \in Handlers : handler[h] = Idle /\ handler[h].pc = "idle"
    BY <1>1, IdleRow
  <1>4. Room
    <2>1. Launching = {}
      BY <1>3 DEF Launching, Handlers, Clients
    <2>2. Cardinality(Launching) = 0 /\ MaxSessions[mode] \in Nat
      BY <1>1, <2>1, FS_EmptySet, SessionsAreNumbers
    <2>3. QED
      BY <1>1, <1>3, <2>2 DEF Room
  <1>5. OneMutationEach
    <2>1. Len(done) = 0 /\ Len(queue) = 0
      BY <1>1, EmptySeq
    <2>2. DOMAIN done = {} /\ DOMAIN queue = {} /\ DOMAIN Waiting = {}
      BY <1>2, <2>1, Lengths
    <2>3. QED
      BY <1>3, <2>2 DEF OneMutationEach, Awaiting
  <1>6. Unlaunched /\ ExecRows
    BY <1>1, <1>3 DEF Unlaunched, ExecRows, NewSession, Handlers, Live
  <1>7. QED
    BY <1>2, <1>4, <1>5, <1>6 DEF Base, Discipline

\* The write queue is disciplined, whatever the clients, the modes and the
\* bounds: a handler that awaits the store has one mutation there, the one of its
\* place in the code, and a session that is not launched has done nothing.
THEOREM CoreDisciplined == Spec => []Base
  <1>1. Init => Base
    BY InitBase
  <1>2. Base /\ [Next]_vars => Base'
    BY TypesStep, RoomStep, DisciplineStep DEF Base
  <1>3. QED
    BY <1>1, <1>2, PTL DEF Spec

\* The types of a core hold of every reachable state, whatever the clients,
\* the modes and the bounds: ids of sessions and requests stay in range, a
\* registered session is a launched one, and at most two mutations have run
\* whose handlers have not gone on.
THEOREM CoreTypes == Spec => []TypeOK
  <1>1. Base => TypeOK
    BY DEF Base, Types
  <1>2. QED
    BY <1>1, CoreDisciplined, PTL

-----------------------------------------------------------------------------
(* codex exec.                                                               *)

Queued(h) == \E i \in DOMAIN queue : queue[i].by = h

VerifyingPcs == {"verifying", "checking", "checked", "collecting", "shipping"}

\* Where handlers of codex exec can be, whether or not sessions overlap.
ExecPlaces ==
  /\ task.status \in {"BACKLOG", "READY", "RUNNING", "VERIFYING", "INTERRUPTED",
                      "READY_TO_SHIP", "FAILED"}
  /\ \A c \in Clients :
       handler[c].pc \in {"idle", "readying", "preparing", "launching", "spawned", "cancelling"}
  /\ \A s \in Sessions :
       handler[s].pc \in {"idle", "exiting", "failing"} \cup VerifyingPcs

\* The last session is the only one that has a child, a handler or a client.
ExecLast ==
  /\ registered \in {0, used}
  /\ \A s \in Sessions : s # used => session[s].child \notin Live /\ handler[s].pc = "idle"
  /\ \A c \in Clients : handler[c].session \in {0, used}

\* While its child lives or its exit is awaited, its task stays RUNNING.
ExecRunning ==
  \A s \in Sessions :
    /\ session[s].child = "alive" \/ handler[s].pc = "exiting" =>
         registered = s /\ task.status = "RUNNING"
    /\ handler[s].pc = "exiting" => handler[s].session = s

\* A task that was made RUNNING is still so at the launch, unless a session has
\* something to do first.
ExecLaunches ==
  \A i \in DOMAIN done :
    done[i].by \in Clients /\ handler[done[i].by].pc = "launching" /\ done[i].ok =>
      task.status = "RUNNING" \/ \E j \in DOMAIN done : i < j /\ done[j].by \in Sessions

\* A verification has the task for itself, and its mutations are legal.
ExecVerifies ==
  /\ \A s \in Sessions :
       /\ handler[s].pc \in VerifyingPcs \cup {"failing"} => registered = 0
       /\ handler[s].pc = "verifying" =>
            task.status = IF Queued(s) THEN "RUNNING" ELSE "VERIFYING"
       /\ handler[s].pc \in {"checking", "checked", "collecting"} => task.status = "VERIFYING"
       /\ handler[s].pc = "shipping" /\ Queued(s) => task.status = "VERIFYING"
       /\ handler[s].pc = "failing" /\ Queued(s) => task.status \in {"RUNNING", "VERIFYING"}
       /\ (handler[s].pc = "checked" /\ handler[s].ok) \/ handler[s].pc = "collecting" =>
            work # "committed"
       /\ handler[s].pc = "shipping" /\ Queued(s) => work = "checked"
  /\ \A i \in DOMAIN done : done[i].by \in Sessions => done[i].ok

\* A session that verifies was not cancelled, and will not be.
ExecCancelled ==
  /\ \A s \in Sessions :
       /\ session[s].stopped => session[s].cancelled
       /\ handler[s].pc \in VerifyingPcs => ~session[s].cancelled
  /\ \A c \in Clients : handler[c].pc = "cancelling" =>
       handler[c].session # 0 /\ session[handler[c].session].cancelled

\* An orphan is heard by nobody, is not registered, and no client acts on it.
ExecOrphans ==
  \A s \in Sessions : session[s].child = "orphan" =>
    /\ ~session[s].listening /\ registered # s
    /\ \A c \in Clients : handler[c].session # s

ExecReady ==
  task.status = "READY_TO_SHIP" =>
    work = "checked" /\ \A s \in Sessions : session[s].child \notin Live

\* Sessions do not overlap: what keeps the last one and its task together.
ExecAlone ==
  ExecLast /\ ExecRunning /\ ExecLaunches /\ ExecVerifies /\ ExecCancelled
  /\ ExecOrphans /\ ExecReady

\* The invariant of codex exec; a second session beside the first is left to
\* its places in the code.
ExecInv == mode = "exec" => ExecPlaces /\ (overlapped \/ ExecAlone)

-----------------------------------------------------------------------------
(* Who is queued.                                                            *)

LEMMA MoveQueued ==
  ASSUME Types, OneMutationEach, NEW h \in Handlers, Moves(h)
  PROVE  /\ \A g \in Handlers \ {h} : Queued(g)' <=> Queued(g)
         /\ ~Queued(h)
         /\ Queued(h)' <=> handler'[h].pc \in Awaiting
  <1>l. /\ Len(queue) \in Nat /\ Len(queue') \in Nat
        /\ Len(queue') = Len(queue) \/ Len(queue') = Len(queue) + 1
    BY MoveLengths
  <1>d. DOMAIN queue = 1..Len(queue) /\ DOMAIN queue' = 1..Len(queue')
    BY MoveLengths
  <1>1. \A i \in 1..Len(queue) : queue'[i] = queue[i] /\ queue[i].by # h
    BY OthersWait
  <1>2. /\ handler'[h].pc \in Awaiting <=> Len(queue') = Len(queue) + 1
        /\ Len(queue') = Len(queue) + 1 => queue'[Len(queue')].by = h
    BY MoveShifts
  <1>3. ~Queued(h)
    BY <1>d, <1>1 DEF Queued
  <1>4. /\ \A i \in 1..Len(queue') :
             i \in 1..Len(queue) \/ (i = Len(queue') /\ Len(queue') = Len(queue) + 1)
        /\ \A i \in 1..Len(queue) : i \in 1..Len(queue')
        /\ Len(queue') = Len(queue) + 1 => Len(queue') \in 1..Len(queue')
    BY <1>l
  <1>5. Queued(h)' <=> handler'[h].pc \in Awaiting
    <2>1. ASSUME handler'[h].pc \in Awaiting
          PROVE  Queued(h)'
      <3>1. Len(queue') \in DOMAIN queue' /\ queue'[Len(queue')].by = h
        BY <1>d, <1>2, <1>4, <2>1
      <3>2. QED
        BY <3>1 DEF Queued
    <2>2. ASSUME Queued(h)'
          PROVE  handler'[h].pc \in Awaiting
      BY <1>d, <1>1, <1>2, <1>4, <2>2 DEF Queued
    <2>3. QED
      BY <2>1, <2>2
  <1>6. ASSUME NEW g \in Handlers \ {h}
        PROVE  Queued(g)' <=> Queued(g)
    <2>1. ASSUME NEW i \in 1..Len(queue'), queue'[i].by = g
          PROVE  Queued(g)
      <3>1. i \in 1..Len(queue)
        BY <1>2, <1>4, <2>1
      <3>2. queue[i].by = g
        BY <1>1, <2>1, <3>1
      <3>3. QED
        BY <1>d, <3>1, <3>2 DEF Queued
    <2>2. \A i \in DOMAIN queue : i \in DOMAIN queue' /\ queue'[i] = queue[i]
      BY <1>d, <1>1, <1>4
    <2>3. Queued(g) => Queued(g)'
      BY <2>2 DEF Queued
    <2>4. Queued(g)' => Queued(g)
      BY <1>d, <2>1 DEF Queued
    <2>5. QED
      BY <2>3, <2>4
  <1>7. QED
    BY <1>3, <1>5, <1>6

LEMMA CommitQueued ==
  ASSUME Types, OneMutationEach, Commit
  PROVE  \E h \in Handlers :
           /\ Head(queue).by = h /\ Queued(h) /\ ~Queued(h)'
           /\ \A g \in Handlers \ {h} : Queued(g)' <=> Queued(g)
           /\ Head(queue).to = Target(handler[h].pc) /\ handler[h].pc \in Awaiting
  <1>1. /\ Head(queue) = queue[1] /\ 1 \in DOMAIN queue
        /\ queue' \in Seq(Mutation)
        /\ \A i \in 1..Len(queue') : queue'[i] = queue[i + 1]
    BY CommitKeepsOrder
  <1>l. Len(queue) \in Nat /\ Len(queue') \in Nat /\ Len(queue') = Len(queue) - 1
    BY CommitKeepsOrder, Lengths, LenProperties
  <1>d. DOMAIN queue = 1..Len(queue) /\ DOMAIN queue' = 1..Len(queue')
    BY <1>1, Lengths, LenProperties
  <1>2. \A i \in 1..Len(queue) : Len(done) + i \in DOMAIN Waiting /\ Waiting[Len(done) + i] = queue[i].by
    <2>1. Len(queue) \in Nat /\ Len(done) \in Nat
      BY Lengths
    <2>2. DOMAIN Waiting = 1..(Len(done) + Len(queue))
      BY Lengths
    <2>3. QED
      BY <2>1, <2>2 DEF Waiting
  <1>3. \A i, j \in 1..Len(queue) : queue[i].by = queue[j].by => i = j
    <2> TAKE i, j \in 1..Len(queue)
    <2> HAVE queue[i].by = queue[j].by
    <2>1. Len(done) + i = Len(done) + j
      BY <1>2 DEF OneMutationEach
    <2>2. Len(done) \in Nat
      BY Lengths
    <2>3. QED
      BY <2>1, <2>2
  <1>4. /\ \A i \in 1..Len(queue') : i + 1 \in 1..Len(queue) /\ i + 1 # 1
        /\ \A i \in 1..Len(queue) : i # 1 => i - 1 \in 1..Len(queue') /\ (i - 1) + 1 = i
    BY <1>l
  <1>h. PICK h \in Handlers : h = queue[1].by
    BY <1>1, Lengths
  <1>5. Head(queue).by = h /\ 1 \in 1..Len(queue) /\ Queued(h)
    BY <1>h, <1>1, <1>d DEF Queued
  <1>6. Head(queue).to = Target(handler[h].pc) /\ handler[h].pc \in Awaiting
    BY <1>h, <1>1, <1>2, <1>5 DEF OneMutationEach
  <1>7. \A i \in 1..Len(queue') : queue'[i].by # h
    BY <1>h, <1>1, <1>3, <1>4, <1>5
  <1>8. \A g \in Handlers \ {h} : \A i \in 1..Len(queue) : queue[i].by = g => i # 1
    BY <1>h
  <1>9. ~Queued(h)'
    BY <1>7, <1>d DEF Queued
  <1>10. ASSUME NEW g \in Handlers \ {h}
         PROVE  Queued(g)' <=> Queued(g)
    <2>1. ASSUME NEW i \in 1..Len(queue), queue[i].by = g
          PROVE  Queued(g)'
      <3>1. i - 1 \in 1..Len(queue') /\ (i - 1) + 1 = i
        BY <1>4, <1>8, <2>1
      <3>2. queue'[i - 1] = queue[i]
        BY <1>1, <3>1
      <3>3. QED
        BY <1>d, <2>1, <3>1, <3>2 DEF Queued
    <2>2. Queued(g)' => Queued(g)
      BY <1>1, <1>d, <1>4 DEF Queued
    <2>3. QED
      BY <1>d, <2>1, <2>2 DEF Queued
  <1>11. QED
    BY <1>5, <1>6, <1>9, <1>10

LEMMA CommitTask ==
  ASSUME Types, Commit
  PROVE  /\ Head(queue).to = "append" => task' = task
         /\ Head(queue).to # "append" /\ Legal(task.status, Head(queue).to) => task'.status = Head(queue).to
         /\ ~Legal(task.status, Head(queue).to) => task' = task
         /\ \A i \in DOMAIN done' :
              \/ i \in DOMAIN done /\ done'[i] = done[i]
              \/ /\ done'[i].by = Head(queue).by
                 /\ done'[i].ok <=> (Head(queue).to = "append" \/ Legal(task.status, Head(queue).to))
         /\ UNCHANGED <<mode, handler, registered, session, used, work, restarts, overlapped>>
  <1>1. /\ Head(queue).to = "append" => task' = task
        /\ Head(queue).to # "append" /\ Legal(task.status, Head(queue).to) => task'.status = Head(queue).to
        /\ ~Legal(task.status, Head(queue).to) => task' = task
        /\ UNCHANGED <<mode, handler, registered, session, used, work, restarts, overlapped>>
    BY DEF Commit
  <1>2. /\ done' \in Seq([by : Handlers, ok : BOOLEAN]) /\ Len(done') = Len(done) + 1
        /\ \A i \in 1..Len(done) : done'[i] = done[i]
        /\ done'[Len(done) + 1].by = Head(queue).by
        /\ done'[Len(done) + 1].ok <=> (Head(queue).to = "append" \/ Legal(task.status, Head(queue).to))
    BY CommitKeepsOrder
  <1>3. Len(done) \in Nat /\ DOMAIN done = 1..Len(done)
    BY Lengths
  <1>4. DOMAIN done' = 1..(Len(done) + 1)
    BY <1>2, LenProperties
  <1>5. \A i \in 1..(Len(done) + 1) : i \in 1..Len(done) \/ i = Len(done) + 1
    BY <1>3
  <1>6. \A i \in DOMAIN done' :
          \/ i \in DOMAIN done /\ done'[i] = done[i]
          \/ /\ done'[i].by = Head(queue).by
             /\ done'[i].ok <=> (Head(queue).to = "append" \/ Legal(task.status, Head(queue).to))
    <2> TAKE i \in DOMAIN done'
    <2>1. i \in 1..Len(done) \/ i = Len(done) + 1
      BY <1>4, <1>5
    <2>2. QED
      BY <1>2, <1>3, <2>1
  <1>7. QED
    BY <1>1, <1>6

-----------------------------------------------------------------------------
(* codex exec: where its handlers are.                                       *)

LEMMA ExecGoesOnOnly ==
  ASSUME Base, mode = "exec", ExecPlaces, NEW h \in Handlers, GoesOn(h)
  PROVE  /\ h \in Clients =>
              Rejected(h) \/ Readied(h) \/ Launch(h) \/ Listen(h) \/ SendKill(h)
         /\ h \in Sessions => Finish(h) \/ StartChecks(h) \/ Checked(h)
  <1>1. ~SpawnServer(h) /\ ~KillServer(h)
    BY DEF SpawnServer, KillServer
  <1>2. handler[h].pc \notin {"threaded", "stopping", "deciding", "answering", "asking", "ending",
                              "noted", "catching"}
    BY DEF ExecPlaces, Handlers, VerifyingPcs
  <1>3. /\ ~RequestTurn(h) /\ ~Stopped(h) /\ ~Decided(h) /\ ~Answer(h) /\ ~Asked(h) /\ ~EndTurn(h)
    BY <1>2 DEF RequestTurn, Stopped, Decided, Answer, Asked, EndTurn, Resume
  <1>4. h \in Clients => ~Finish(h) /\ ~StartChecks(h) /\ ~Checked(h)
    BY <1>2 DEF ExecPlaces, Finish, StartChecks, Checked, Resume
  <1>5. h \in Sessions => ~Readied(h) /\ ~Launch(h) /\ ~Listen(h) /\ ~SendKill(h)
    BY DEF ExecPlaces, VerifyingPcs, Readied, Launch, Listen, SendKill, Resume
  <1>6. h \in Sessions => ~Rejected(h)
    BY DEF Rejected, Ended
  <1>7. QED
    BY <1>1, <1>3, <1>4, <1>5, <1>6 DEF GoesOn

LEMMA ExecReceivesOnly ==
  ASSUME mode = "exec", ExecPlaces, NEW h \in Handlers, Receives(h)
  PROVE  /\ h \in Clients => Prepare(h)
         /\ h \in Sessions => HandleExit(h) \/ RunChecks(h) \/ CollectEvidence(h)
  <1>1. handler[h].pc \notin {"handshaking", "turning", "clicked"}
    BY DEF ExecPlaces, Handlers, VerifyingPcs
  <1>2. ~ThreadStarted(h) /\ ~TurnStarted(h) /\ ~StartFails(h) /\ ~Decide(h)
    BY <1>1 DEF ThreadStarted, TurnStarted, StartFails, Decide
  <1>3. h \in Clients => ~HandleExit(h) /\ ~RunChecks(h) /\ ~CollectEvidence(h)
    BY DEF ExecPlaces, HandleExit, RunChecks, CollectEvidence
  <1>4. h \in Sessions => ~Prepare(h)
    BY DEF ExecPlaces, VerifyingPcs, Prepare
  <1>5. QED
    BY <1>2, <1>3, <1>4 DEF Receives

\* Handlers of codex exec stay where they can be, and so does the task.
LEMMA ExecPlacesStep ==
  ASSUME Base, mode = "exec", ExecPlaces, [Next]_vars
  PROVE  ExecPlaces'
  <1>b. Types /\ Room /\ Discipline /\ OneMutationEach
    BY DEF Base, Discipline
  <1>c. Clients \cap Sessions = {} /\ Handlers = Clients \cup Sessions
    BY SessionsAreNumbers DEF Handlers
  <1>1. ASSUME task' = task, NEW h \in Handlers, \A g \in Handlers \ {h} : handler'[g] = handler[g],
               h \in Clients =>
                 handler'[h].pc \in {"idle", "readying", "preparing", "launching", "spawned", "cancelling"},
               h \in Sessions =>
                 handler'[h].pc \in {"idle", "exiting", "failing"} \cup VerifyingPcs
        PROVE  ExecPlaces'
    BY <1>1, <1>c DEF ExecPlaces
  <1>2. ASSUME NEW h \in Handlers, GoesOn(h)
        PROVE  ExecPlaces'
    <2>1. task' = task /\ \A g \in Handlers \ {h} : handler'[g] = handler[g]
      BY <1>b, <1>2, GoesOnMoves, MoveShifts, GoesOnFrame
    <2>2. h \in Clients =>
            handler'[h].pc \in {"idle", "readying", "preparing", "launching", "spawned", "cancelling"}
      <3>1. CASE Rejected(h) /\ h \in Clients
        <4>1. Return(h)
          BY <1>c, <3>1 DEF Rejected
        <4>2. QED
          BY <1>b, <4>1, ReturnPlaces
      <3>2. QED
        BY <1>b, <1>2, <3>1, ExecGoesOnOnly, GoesOnPlaces
    <2>3. h \in Sessions => handler'[h].pc \in {"idle", "exiting", "failing"} \cup VerifyingPcs
      BY <1>b, <1>2, ExecGoesOnOnly, GoesOnPlaces DEF VerifyingPcs
    <2>4. QED
      BY <1>1, <2>1, <2>2, <2>3
  <1>3. ASSUME NEW h \in Handlers, Receives(h)
        PROVE  ExecPlaces'
    <2>1. task' = task /\ \A g \in Handlers \ {h} : handler'[g] = handler[g]
      <3>1. work \in Works
        BY <1>b DEF Types, TypeOK, Works
      <3>2. QED
        BY <1>b, <1>3, <3>1, ReceivesMoves, MoveShifts, ReceivesFrame
    <2>2. h \in Clients =>
            handler'[h].pc \in {"idle", "readying", "preparing", "launching", "spawned", "cancelling"}
      BY <1>b, <1>3, ExecReceivesOnly, ReceivesPlaces
    <2>3. h \in Sessions => handler'[h].pc \in {"idle", "exiting", "failing"} \cup VerifyingPcs
      BY <1>b, <1>3, ExecReceivesOnly, ReceivesPlaces DEF VerifyingPcs
    <2>4. QED
      BY <1>1, <2>1, <2>2, <2>3
  <1>4. ASSUME NEW c \in Clients, Request(c)
        PROVE  ExecPlaces'
    <2>1. task' = task /\ \A g \in Handlers \ {c} : handler'[g] = handler[g]
      <3>1. work \in Works
        BY <1>b DEF Types, TypeOK, Works
      <3>2. QED
        BY <1>b, <1>c, <1>4, <3>1, RequestMoves, MoveShifts, ReceivesFrame
    <2>2. ~Click(c)
      BY DEF ExecPlaces, Click
    <2>3. handler'[c].pc \in {"idle", "readying", "preparing", "launching", "spawned", "cancelling"}
      BY <1>b, <1>c, <1>4, <2>2, RequestPlaces DEF Request
    <2>4. QED
      BY <1>1, <1>c, <2>1, <2>3
  <1>5. ASSUME NEW s \in Sessions, Agent(s) \/ Callback(s)
        PROVE  ExecPlaces'
    <2>1. AgentWorks(s) \/ AgentExits(s)
      BY <1>b, <1>5, ExecAgents
    <2>2. task' = task
      BY <2>1 DEF AgentWorks, AgentExits
    <2>3. \/ handler' = handler
          \/ /\ \A g \in Handlers \ {s} : handler'[g] = handler[g]
             /\ handler'[s].pc = "exiting"
      <3>1. CASE AgentWorks(s)
        BY <3>1 DEF AgentWorks
      <3>2. CASE AgentExits(s)
        <4>1. Moves(s) \/ handler' = handler
          BY <1>b, <1>5, <1>c, <3>2, AgentMoves DEF Agent
        <4>2. QED
          BY <1>b, <1>c, <3>2, <4>1, AgentPlaces, MoveShifts
      <3>3. QED
        BY <2>1, <3>1, <3>2
    <2>4. QED
      BY <1>1, <1>c, <2>2, <2>3 DEF ExecPlaces
  <1>6. CASE Commit
    <2>1. handler' = handler
      BY <1>b, <1>6, CommitTask
    <2>2. task' = task \/ task'.status = Head(queue).to
      BY <1>b, <1>6, CommitTask
    <2>3. PICK h \in Handlers : Head(queue).to = Target(handler[h].pc) /\ handler[h].pc \in Awaiting
      BY <1>b, <1>6, CommitQueued
    <2>4. Head(queue).to \in {"READY", "RUNNING", "VERIFYING", "READY_TO_SHIP", "FAILED", "append"}
      BY <2>3 DEF ExecPlaces, VerifyingPcs, Handlers, Target
    <2>5. Head(queue).to = "append" => task' = task
      BY <1>b, <1>6, CommitTask
    <2>6. QED
      BY <2>1, <2>2, <2>4, <2>5 DEF ExecPlaces
  <1>7. CASE Restart
    <2>1. \A h \in Handlers : handler'[h].pc = "idle"
      BY <1>7, IdleRow DEF Restart
    <2>2. task' = task \/ task'.status = "INTERRUPTED"
      <3>1. task \in [status : TaskStates, pending : Requests \cup {0}, recovery : BOOLEAN]
        BY <1>b DEF Types, TypeOK
      <3>2. QED
        BY <1>7, <3>1 DEF Restart
    <2>3. QED
      BY <1>c, <2>1, <2>2 DEF ExecPlaces
  <1>8. CASE UNCHANGED vars
    BY <1>8 DEF vars, ExecPlaces
  <1>9. QED
    BY <1>2, <1>3, <1>4, <1>5, <1>6, <1>7, <1>8 DEF Next

-----------------------------------------------------------------------------
(* codex exec without overlapping sessions: moves of clients and sessions.   *)

LEMMA MoveLaunches ==
  ASSUME Types, OneMutationEach, ExecLaunches, NEW h \in Handlers, Moves(h), task' = task
  PROVE  ExecLaunches'
  <1>l. /\ Len(done) \in Nat /\ Len(done') \in Nat /\ Gone \in {0, 1} /\ Len(done) = Len(done') + Gone
        /\ DOMAIN done = 1..Len(done) /\ DOMAIN done' = 1..Len(done')
    BY MoveLengths
  <1>1. \A i \in 1..Len(done') : i + Gone \in 1..Len(done) /\ done'[i] = done[i + Gone] /\ done'[i].by # h
    BY OthersWait
  <1>2. \A g \in Handlers \ {h} : handler'[g] = handler[g]
    BY MoveShifts
  <1>c. Clients \subseteq Handlers
    BY DEF Handlers
  <1> SUFFICES ASSUME NEW i \in DOMAIN done', done'[i].by \in Clients,
                      handler'[done'[i].by].pc = "launching", done'[i].ok
               PROVE  task.status = "RUNNING" \/ \E j \in DOMAIN done' : i < j /\ done'[j].by \in Sessions
    BY DEF ExecLaunches
  <1> DEFINE k == i + Gone
  <1>3. k \in DOMAIN done /\ done'[i] = done[k] /\ handler'[done'[i].by] = handler[done'[i].by]
    BY <1>l, <1>1, <1>2, <1>c
  <1>4. task.status = "RUNNING" \/ \E j \in DOMAIN done : k < j /\ done[j].by \in Sessions
    <2> HIDE DEF k
    <2>1. QED
      BY <1>3 DEF ExecLaunches
  <1>5. ASSUME NEW j \in DOMAIN done, k < j, done[j].by \in Sessions
        PROVE  \E m \in DOMAIN done' : i < m /\ done'[m].by \in Sessions
    <2>1. j \in 1..Len(done) /\ i \in 1..Len(done')
      BY <1>l
    <2>2. j - Gone \in 1..Len(done') /\ i < j - Gone /\ (j - Gone) + Gone = j
      BY <1>l, <1>5, <2>1
    <2>3. done'[j - Gone] = done[j]
      BY <1>1, <2>2
    <2>4. QED
      BY <1>l, <1>5, <2>2, <2>3
  <1>6. QED
    BY <1>4, <1>5

LEMMA MoveOks ==
  ASSUME Types, OneMutationEach, NEW h \in Handlers, Moves(h),
         \A i \in DOMAIN done : done[i].by \in Sessions => done[i].ok
  PROVE  \A i \in DOMAIN done' : done'[i].by \in Sessions => done'[i].ok
  <1>1. DOMAIN done = 1..Len(done) /\ DOMAIN done' = 1..Len(done')
    BY MoveLengths
  <1>2. \A i \in 1..Len(done') : i + Gone \in 1..Len(done) /\ done'[i] = done[i + Gone]
    BY OthersWait
  <1>3. QED
    BY <1>1, <1>2

\* A client moves and launches nothing.
LEMMA ExecClientMoves ==
  ASSUME Base, ExecAlone, NEW c \in Clients, Moves(c),
         UNCHANGED <<task, work, used, registered>>,
         \A s \in Sessions : session'[s].child = session[s].child,
         \A s \in Sessions : session[s].child = "orphan" => ~session'[s].listening,
         \A s \in Sessions : session[s].cancelled => session'[s].cancelled,
         \A s \in Sessions : session'[s].stopped => session'[s].cancelled,
         \A s \in Sessions : session'[s].cancelled => session[s].cancelled \/ s = registered,
         handler'[c].session \in {0, registered, handler[c].session},
         handler'[c].pc = "cancelling" =>
           handler'[c].session # 0 /\ session'[handler'[c].session].cancelled
  PROVE  ExecAlone'
  <1>b. Types /\ OneMutationEach
    BY DEF Base, Discipline
  <1>e. /\ ExecLast /\ ExecRunning /\ ExecLaunches /\ ExecVerifies /\ ExecCancelled
        /\ ExecOrphans /\ ExecReady
    BY DEF ExecAlone
  <1>c. c \in Handlers /\ (\A s \in Sessions : s \in Handlers \ {c}) /\ 0 \notin Sessions
    BY SessionsAreNumbers DEF Handlers
  <1>d. \A d \in Clients : d \in Handlers
    BY DEF Handlers
  <1>1. /\ \A g \in Handlers \ {c} : handler'[g] = handler[g]
        /\ \A g \in Handlers \ {c} : Queued(g)' <=> Queued(g)
    BY <1>b, <1>c, MoveShifts, MoveQueued
  <1>2. \A s \in Sessions : handler'[s] = handler[s] /\ (Queued(s)' <=> Queued(s))
    BY <1>1, <1>c
  <1>3. ExecLast'
    <2>1. \A d \in Clients : handler'[d].session \in {0, used}
      BY <1>1, <1>d, <1>e DEF ExecLast
    <2>2. QED
      BY <1>2, <1>e, <2>1 DEF ExecLast
  <1>4. ExecRunning'
    BY <1>2, <1>e DEF ExecRunning
  <1>5. ExecLaunches'
    BY <1>b, <1>c, <1>e, MoveLaunches
  <1>6. ExecVerifies'
    <2>1. \A i \in DOMAIN done' : done'[i].by \in Sessions => done'[i].ok
      BY <1>b, <1>c, <1>e, MoveOks DEF ExecVerifies
    <2>2. QED
      BY <1>2, <1>e, <2>1 DEF ExecVerifies
  <1>7. ExecCancelled'
    <2>1. ASSUME NEW s \in Sessions, handler[s].pc \in VerifyingPcs
          PROVE  ~session'[s].cancelled
      <3>1. registered = 0 /\ ~session[s].cancelled
        BY <1>e, <2>1 DEF ExecVerifies, ExecCancelled
      <3>2. QED
        BY <1>c, <3>1
    <2>2. ASSUME NEW d \in Clients, handler'[d].pc = "cancelling"
          PROVE  handler'[d].session # 0 /\ session'[handler'[d].session].cancelled
      <3>1. CASE d = c
        BY <2>2, <3>1
      <3>2. CASE d # c
        <4>1. handler'[d] = handler[d] /\ handler[d] \in HandlerRow
          BY <1>1, <1>b, <1>d, <3>2 DEF Types
        <4>2. handler[d].session # 0 /\ session[handler[d].session].cancelled
          BY <1>e, <2>2, <4>1 DEF ExecCancelled
        <4>3. handler[d].session \in Sessions
          BY <4>1, <4>2 DEF HandlerRow
        <4>4. QED
          BY <4>1, <4>2, <4>3
      <3>3. QED
        BY <3>1, <3>2
    <2>3. QED
      BY <1>2, <2>1, <2>2 DEF ExecCancelled
  <1>8. ExecOrphans'
    <2> SUFFICES ASSUME NEW s \in Sessions, session[s].child = "orphan"
                 PROVE  /\ ~session'[s].listening /\ registered' # s
                        /\ \A d \in Clients : handler'[d].session # s
      BY DEF ExecOrphans
    <2>1. registered # s /\ \A d \in Clients : handler[d].session # s
      BY <1>e DEF ExecOrphans
    <2>2. \A d \in Clients : handler'[d].session # s
      BY <1>1, <1>c, <1>d, <2>1
    <2>3. QED
      BY <2>1, <2>2
  <1>9. ExecReady'
    BY <1>e DEF ExecReady
  <1>10. QED
    BY <1>3, <1>4, <1>5, <1>6, <1>7, <1>8, <1>9 DEF ExecAlone

\* The last session goes on.
LEMMA ExecSessionMoves ==
  ASSUME Base, ExecAlone, NEW s \in Sessions, Moves(s), s = used,
         UNCHANGED <<task, used>>, registered' \in {registered, 0},
         \A t \in Sessions : /\ session'[t].cancelled = session[t].cancelled
                             /\ session'[t].stopped = session[t].stopped
                             /\ session'[t].listening = session[t].listening
                             /\ t # s => session'[t].child = session[t].child,
         session'[s].child \notin Live,
         handler'[s].pc \in {"idle", "exiting", "failing"} \cup VerifyingPcs,
         handler'[s].pc = "exiting" =>
           registered' = s /\ task.status = "RUNNING" /\ handler'[s].session = s,
         handler'[s].pc = "verifying" => task.status = "RUNNING",
         handler'[s].pc = "failing" => task.status \in {"RUNNING", "VERIFYING"},
         handler'[s].pc \in {"checking", "checked", "collecting", "shipping"} => task.status = "VERIFYING",
         handler'[s].pc \in VerifyingPcs => ~session[s].cancelled,
         (handler'[s].pc = "checked" /\ handler'[s].ok) \/ handler'[s].pc = "collecting" =>
           work' # "committed",
         handler'[s].pc = "shipping" => work' = "checked",
         task.status = "READY_TO_SHIP" => work' = work,
         handler'[s].pc \in VerifyingPcs \cup {"failing"} => registered' = 0
  PROVE  ExecAlone'
  <1>b. Types /\ OneMutationEach
    BY DEF Base, Discipline
  <1>e. /\ ExecLast /\ ExecRunning /\ ExecLaunches /\ ExecVerifies /\ ExecCancelled
        /\ ExecOrphans /\ ExecReady
    BY DEF ExecAlone
  <1>c. s \in Handlers /\ (\A c \in Clients : c \in Handlers /\ c # s) /\ 0 \notin Sessions
    BY SessionsAreNumbers DEF Handlers
  <1>s. \A t \in Sessions : t \in Handlers
    BY DEF Handlers
  <1>1. /\ \A g \in Handlers \ {s} : handler'[g] = handler[g]
        /\ Queued(s)' <=> handler'[s].pc \in Awaiting
    BY <1>b, <1>c, MoveShifts, MoveQueued
  <1>2. \A c \in Clients : handler'[c] = handler[c]
    BY <1>1, <1>c
  <1>3. \A t \in Sessions : t # s => handler'[t].pc = "idle" /\ session'[t].child \notin Live
    BY <1>1, <1>e, <1>s DEF ExecLast
  <1>4. ExecLast'
    BY <1>2, <1>3, <1>e DEF ExecLast
  <1>5. ExecRunning'
    <2>1. \A t \in Sessions : session'[t].child # "alive"
      BY <1>3 DEF Live
    <2>2. QED
      BY <1>3, <2>1 DEF ExecRunning
  <1>6. ExecLaunches'
    BY <1>b, <1>c, <1>e, MoveLaunches
  <1>7. ExecVerifies'
    <2>1. \A i \in DOMAIN done' : done'[i].by \in Sessions => done'[i].ok
      BY <1>b, <1>c, <1>e, MoveOks DEF ExecVerifies
    <2>2. handler'[s].pc = "verifying" => Queued(s)'
      BY <1>1 DEF Awaiting
    <2> DEFINE
          Holds(t) ==
            /\ handler'[t].pc \in VerifyingPcs \cup {"failing"} => registered' = 0
            /\ handler'[t].pc = "verifying" =>
                 task'.status = IF Queued(t)' THEN "RUNNING" ELSE "VERIFYING"
            /\ handler'[t].pc \in {"checking", "checked", "collecting"} => task'.status = "VERIFYING"
            /\ handler'[t].pc = "shipping" /\ Queued(t)' => task'.status = "VERIFYING"
            /\ handler'[t].pc = "failing" /\ Queued(t)' => task'.status \in {"RUNNING", "VERIFYING"}
            /\ (handler'[t].pc = "checked" /\ handler'[t].ok) \/ handler'[t].pc = "collecting" =>
                 work' # "committed"
            /\ handler'[t].pc = "shipping" /\ Queued(t)' => work' = "checked"
    <2>3. Holds(s)
      BY <2>2
    <2>4. \A t \in Sessions : t # s => Holds(t)
      BY <1>3 DEF VerifyingPcs
    <2>5. \A t \in Sessions : Holds(t)
      BY <2>3, <2>4
    <2>6. QED
      BY <2>1, <2>5 DEF ExecVerifies
  <1>8. ExecCancelled'
    <2>1. ASSUME NEW d \in Clients, handler'[d].pc = "cancelling"
          PROVE  handler'[d].session # 0 /\ session'[handler'[d].session].cancelled
      <3>1. handler'[d] = handler[d] /\ handler[d] \in HandlerRow
        BY <1>2, <1>b, <1>c DEF Types
      <3>2. handler[d].session # 0 /\ session[handler[d].session].cancelled
        BY <1>e, <2>1, <3>1 DEF ExecCancelled
      <3>3. handler[d].session \in Sessions
        BY <3>1, <3>2 DEF HandlerRow
      <3>4. QED
        BY <3>1, <3>2, <3>3
    <2>2. \A t \in Sessions : handler'[t].pc \in VerifyingPcs => ~session'[t].cancelled
      BY <1>3 DEF VerifyingPcs
    <2>3. \A t \in Sessions : session'[t].stopped => session'[t].cancelled
      BY <1>e DEF ExecCancelled
    <2>4. QED
      BY <2>1, <2>2, <2>3 DEF ExecCancelled
  <1>9. ExecOrphans'
    <2>1. \A t \in Sessions : session'[t].child # "orphan"
      BY <1>3 DEF Live
    <2>2. QED
      BY <2>1 DEF ExecOrphans
  <1>10. ExecReady'
    BY <1>3, <1>e DEF ExecReady
  <1>11. QED
    BY <1>4, <1>5, <1>6, <1>7, <1>8, <1>9, <1>10 DEF ExecAlone

-----------------------------------------------------------------------------
(* codex exec without overlapping sessions: the write queue and the restart. *)

LEMMA ExecCommitLaunches ==
  ASSUME Types, OneMutationEach, ExecPlaces, ExecLaunches, Commit
  PROVE  ExecLaunches'
  <1>1. PICK h \in Handlers :
          /\ Head(queue).by = h
          /\ Head(queue).to = Target(handler[h].pc) /\ handler[h].pc \in Awaiting
    BY CommitQueued
  <1>2. /\ Len(done') = Len(done) + 1
        /\ done' \in Seq([by : Handlers, ok : BOOLEAN])
        /\ \A i \in 1..Len(done) : done'[i] = done[i]
        /\ done'[Len(done) + 1].by = h
        /\ done'[Len(done) + 1].ok <=> (Head(queue).to = "append" \/ Legal(task.status, Head(queue).to))
    BY <1>1, CommitKeepsOrder
  <1>3. Len(done) \in Nat /\ DOMAIN done = 1..Len(done)
    BY Lengths
  <1>4. DOMAIN done' = 1..(Len(done) + 1)
    BY <1>2, LenProperties
  <1>5. /\ \A i \in 1..(Len(done) + 1) : i \in 1..Len(done) \/ i = Len(done) + 1
        /\ \A i \in 1..Len(done) : i < Len(done) + 1 /\ i \in 1..(Len(done) + 1)
        /\ Len(done) + 1 \in 1..(Len(done) + 1)
    BY <1>3
  <1>c. Clients \cap Sessions = {} /\ h \in Clients \cup Sessions
    BY SessionsAreNumbers DEF Handlers
  <1>f. handler' = handler
    BY CommitTask
  <1>t. /\ Head(queue).to = "append" => task' = task
        /\ Head(queue).to # "append" /\ Legal(task.status, Head(queue).to) => task'.status = Head(queue).to
        /\ ~Legal(task.status, Head(queue).to) => task' = task
    BY CommitTask
  <1> SUFFICES ASSUME NEW i \in DOMAIN done', done'[i].by \in Clients,
                      handler[done'[i].by].pc = "launching", done'[i].ok
               PROVE  task'.status = "RUNNING" \/ \E j \in DOMAIN done' : i < j /\ done'[j].by \in Sessions
    BY <1>f DEF ExecLaunches
  <1>6. CASE i = Len(done) + 1
    <2>1. done'[i].by = h /\ handler[h].pc = "launching"
      BY <1>2, <1>6
    <2>2. Head(queue).to = "RUNNING"
      BY <1>1, <2>1 DEF Target
    <2>3. Legal(task.status, "RUNNING")
      BY <1>2, <1>6, <2>2
    <2>4. QED
      BY <1>t, <2>2, <2>3
  <1>7. CASE i \in 1..Len(done)
    <2>1. CASE h \in Sessions
      BY <1>2, <1>4, <1>5, <1>7, <2>1
    <2>2. CASE h \in Clients
      <3>1. handler[h].pc \in {"readying", "launching", "spawned", "cancelling"}
        BY <1>1, <2>2 DEF ExecPlaces, Awaiting
      <3>2. Head(queue).to \in {"READY", "RUNNING", "append"}
        BY <1>1, <3>1 DEF Target
      <3>3. task.status = "RUNNING" => task'.status = "RUNNING"
        BY <1>t, <3>2 DEF Legal, Transitions
      <3>4. done[i] = done'[i] /\ i \in DOMAIN done
        BY <1>2, <1>3, <1>7
      <3>5. task.status = "RUNNING" \/ \E j \in DOMAIN done : i < j /\ done[j].by \in Sessions
        BY <3>4 DEF ExecLaunches
      <3>6. \A j \in DOMAIN done : j \in DOMAIN done' /\ done'[j] = done[j]
        BY <1>2, <1>3, <1>4, <1>5
      <3>7. QED
        BY <3>3, <3>5, <3>6
    <2>3. QED
      BY <1>c, <2>1, <2>2
  <1>8. QED
    BY <1>4, <1>5, <1>6, <1>7

\* While a session acts, the mutations of clients leave the task alone, and those
\* of the session are legal.
LEMMA ExecCommit ==
  ASSUME Base, ExecPlaces, ExecAlone, mode = "exec", Commit
  PROVE  ExecAlone'
  <1>b. Types /\ OneMutationEach /\ ExecRows
    BY DEF Base, Discipline
  <1>e. /\ ExecLast /\ ExecRunning /\ ExecLaunches /\ ExecVerifies /\ ExecCancelled
        /\ ExecOrphans /\ ExecReady
    BY DEF ExecAlone
  <1>1. PICK h \in Handlers :
          /\ Head(queue).by = h /\ Queued(h) /\ ~Queued(h)'
          /\ \A g \in Handlers \ {h} : Queued(g)' <=> Queued(g)
          /\ Head(queue).to = Target(handler[h].pc) /\ handler[h].pc \in Awaiting
    BY <1>b, CommitQueued
  <1>f. UNCHANGED <<handler, registered, session, used, work>>
    BY <1>b, CommitTask
  <1>c. Clients \cap Sessions = {} /\ Handlers = Clients \cup Sessions
    BY SessionsAreNumbers DEF Handlers
  <1>t. /\ Head(queue).to = "append" => task' = task
        /\ Head(queue).to # "append" /\ Legal(task.status, Head(queue).to) => task'.status = Head(queue).to
        /\ ~Legal(task.status, Head(queue).to) => task' = task
    BY <1>b, CommitTask
  <1>2. ExecLast' /\ ExecCancelled' /\ ExecOrphans'
    BY <1>e, <1>f DEF ExecLast, ExecCancelled, ExecOrphans
  <1>3. ExecLaunches'
    BY <1>b, <1>e, ExecCommitLaunches
  <1>n. ASSUME h \in Sessions => Head(queue).to = "append" \/ Legal(task.status, Head(queue).to)
        PROVE  \A i \in DOMAIN done' : done'[i].by \in Sessions => done'[i].ok
    <2> SUFFICES ASSUME NEW i \in DOMAIN done', done'[i].by \in Sessions
                 PROVE  done'[i].ok
      OBVIOUS
    <2>1. \/ i \in DOMAIN done /\ done'[i] = done[i]
          \/ /\ done'[i].by = h
             /\ done'[i].ok <=> (Head(queue).to = "append" \/ Legal(task.status, Head(queue).to))
      BY <1>1, <1>b, CommitTask
    <2>2. QED
      BY <1>e, <1>n, <2>1 DEF ExecVerifies
  <1>4. CASE h \in Clients
    <2>1. handler[h].pc \in {"readying", "launching", "spawned", "cancelling"}
      BY <1>1, <1>4 DEF ExecPlaces, Awaiting
    <2>2. Head(queue).to \in {"READY", "RUNNING", "append"}
      BY <1>1, <2>1 DEF Target
    <2>3. /\ task.status = "RUNNING" => task'.status = "RUNNING"
          /\ task.status = "VERIFYING" => task'.status = "VERIFYING"
          /\ task'.status = "READY_TO_SHIP" => task.status = "READY_TO_SHIP"
      BY <1>t, <2>2 DEF Legal, Transitions
    <2>4. \A s \in Sessions : Queued(s)' <=> Queued(s)
      BY <1>1, <1>4, <1>c
    <2>5. ExecRunning' /\ ExecReady'
      BY <1>e, <1>f, <2>3 DEF ExecRunning, ExecReady
    <2>6. ExecVerifies'
      <3>1. \A i \in DOMAIN done' : done'[i].by \in Sessions => done'[i].ok
        BY <1>4, <1>c, <1>n
      <3>2. \A s \in Sessions :
              /\ handler[s].pc = "verifying" =>
                   task'.status = IF Queued(s)' THEN "RUNNING" ELSE "VERIFYING"
              /\ handler[s].pc \in {"checking", "checked", "collecting"} => task'.status = "VERIFYING"
              /\ handler[s].pc = "shipping" /\ Queued(s)' => task'.status = "VERIFYING"
              /\ handler[s].pc = "failing" /\ Queued(s)' => task'.status \in {"RUNNING", "VERIFYING"}
        BY <1>e, <2>3, <2>4 DEF ExecVerifies
      <3>3. QED
        BY <1>e, <1>f, <2>4, <3>1, <3>2 DEF ExecVerifies
    <2>7. QED
      BY <1>2, <1>3, <2>5, <2>6 DEF ExecAlone
  <1>5. CASE h \in Sessions
    <2>1. handler[h].pc \in {"verifying", "checked", "shipping", "failing"}
      BY <1>1, <1>5 DEF ExecPlaces, Awaiting, VerifyingPcs
    <2>2. /\ h = used /\ registered = 0
          /\ \A s \in Sessions : s # h => handler[s].pc = "idle" /\ session[s].child \notin Live
      BY <1>5, <1>e, <2>1 DEF ExecLast, ExecVerifies, VerifyingPcs
    <2>3. session[h].child \notin Live
      BY <1>5, <1>b, <2>1 DEF ExecRows
    <2>4. Head(queue).to = "append" \/ Legal(task.status, Head(queue).to)
      BY <1>1, <1>5, <1>e, <2>1 DEF ExecVerifies, Target, Legal, Transitions
    <2>5. IF handler[h].pc = "checked" THEN task' = task ELSE task'.status = Target(handler[h].pc)
      BY <1>1, <1>t, <2>1, <2>4 DEF Target
    <2>6. ExecRunning'
      <3>1. \A s \in Sessions : session[s].child # "alive" /\ handler[s].pc # "exiting"
        BY <2>1, <2>2, <2>3 DEF Live
      <3>2. QED
        BY <1>f, <3>1 DEF ExecRunning
    <2>7. ExecReady'
      <3> SUFFICES ASSUME task'.status = "READY_TO_SHIP"
                   PROVE  work = "checked"
        BY <1>f, <2>2, <2>3 DEF ExecReady
      <3>1. CASE handler[h].pc = "shipping"
        BY <1>1, <1>5, <1>e, <3>1 DEF ExecVerifies
      <3>2. CASE handler[h].pc = "checked"
        BY <1>e, <2>5, <3>2 DEF ExecReady
      <3>3. QED
        BY <2>1, <2>5, <3>1, <3>2 DEF Target
    <2>8. ExecVerifies'
      <3>1. \A i \in DOMAIN done' : done'[i].by \in Sessions => done'[i].ok
        BY <1>n, <2>4
      <3>2. handler[h].pc = "verifying" => task'.status = "VERIFYING"
        BY <2>5 DEF Target
      <3>3. handler[h].pc = "checked" => task'.status = "VERIFYING"
        BY <1>5, <1>e, <2>5 DEF ExecVerifies
      <3> DEFINE
            Holds(t) ==
              /\ handler[t].pc \in VerifyingPcs \cup {"failing"} => registered = 0
              /\ handler[t].pc = "verifying" =>
                   task'.status = IF Queued(t)' THEN "RUNNING" ELSE "VERIFYING"
              /\ handler[t].pc \in {"checking", "checked", "collecting"} => task'.status = "VERIFYING"
              /\ handler[t].pc = "shipping" /\ Queued(t)' => task'.status = "VERIFYING"
              /\ handler[t].pc = "failing" /\ Queued(t)' => task'.status \in {"RUNNING", "VERIFYING"}
              /\ (handler[t].pc = "checked" /\ handler[t].ok) \/ handler[t].pc = "collecting" =>
                   work # "committed"
              /\ handler[t].pc = "shipping" /\ Queued(t)' => work = "checked"
      <3>4. Holds(h)
        <4>1. (handler[h].pc = "checked" /\ handler[h].ok) \/ handler[h].pc = "collecting" =>
                work # "committed"
          BY <1>5, <1>e DEF ExecVerifies
        <4>2. QED
          BY <1>1, <2>1, <2>2, <3>2, <3>3, <4>1
      <3>5. \A t \in Sessions : t # h => Holds(t)
        BY <2>2 DEF VerifyingPcs
      <3>6. \A t \in Sessions : Holds(t)
        BY <3>4, <3>5
      <3>7. QED
        BY <1>f, <3>1, <3>6 DEF ExecVerifies
    <2>9. QED
      BY <1>2, <1>3, <2>6, <2>7, <2>8 DEF ExecAlone
  <1>6. QED
    BY <1>4, <1>5, <1>c

LEMMA NoneDone ==
  ASSUME done = <<>>
  PROVE  DOMAIN done = {}
  <1>1. <<>> \in Seq(Mutation) /\ Len(<<>>) = 0
    BY EmptySeq
  <1>2. DOMAIN <<>> = 1..0
    BY <1>1, LenProperties
  <1>3. QED
    BY <1>2

LEMMA ExecRestart ==
  ASSUME Base, ExecAlone, Restart
  PROVE  ExecAlone'
  <1>b. Types /\ Unlaunched
    BY DEF Base, Discipline
  <1>e. ExecLast /\ ExecReady
    BY DEF ExecAlone
  <1>1. /\ \A h \in Handlers : handler'[h] = Idle /\ handler'[h].pc = "idle" /\ handler'[h].session = 0
        /\ registered' = 0 /\ used' = used /\ work' = work /\ done' = <<>>
    BY IdleRow DEF Restart
  <1>c. /\ \A s \in Sessions : s \in Handlers /\ s # 0
        /\ \A c \in Clients : c \in Handlers
    BY SessionsAreNumbers DEF Handlers
  <1>2. ASSUME NEW s \in Sessions
        PROVE  /\ session'[s].child # "alive" /\ ~session'[s].stopped /\ ~session'[s].cancelled
               /\ session'[s].child \in Live => session[s].child \in Live
               /\ session'[s].child = "orphan" => ~session'[s].listening
    <2>1. CASE s > used
      <3>1. session'[s] = session[s] /\ session[s] = NewSession
        BY <1>b, <2>1, RestartRows DEF Unlaunched
      <3>2. QED
        BY <3>1 DEF NewSession
    <2>2. CASE ~(s > used)
      <3>1. /\ ~session'[s].stopped /\ ~session'[s].cancelled
            /\ \/ session'[s].child = "dead"
               \/ session'[s].child = "orphan" /\ session[s].child \in {"alive", "signalled", "orphan"}
        BY <1>b, <2>2, RestartRows
      <3>2. ~session'[s].listening
        <4>1. PICK survivors \in SUBSET {t \in 1..used : Heard(t) \/ session[t].child = "orphan"} :
                session' = [t \in Sessions |->
                  IF t > used THEN session[t]
                  ELSE [NewSession EXCEPT !.child = IF t \in survivors THEN "orphan" ELSE "dead",
                                          !.closed = TRUE, !.turn = t \in survivors /\ session[t].turn]]
          BY DEF Restart
        <4>2. session'[s] = [NewSession EXCEPT !.child = IF s \in survivors THEN "orphan" ELSE "dead",
                                               !.closed = TRUE, !.turn = s \in survivors /\ session[s].turn]
          BY <2>2, <4>1
        <4>3. QED
          BY <4>2 DEF NewSession
      <3>3. QED
        BY <3>1, <3>2 DEF Live
    <2>3. QED
      BY <2>1, <2>2
  <1>3. task'.status = "INTERRUPTED" \/ task' = task
    <2>1. task \in [status : TaskStates, pending : Requests \cup {0}, recovery : BOOLEAN]
      BY <1>b DEF Types, TypeOK
    <2>2. QED
      BY <2>1 DEF Restart
  <1>4. DOMAIN done' = {}
    BY <1>1, NoneDone
  <1>5. ExecLast' /\ ExecOrphans'
    BY <1>1, <1>2, <1>c, <1>e DEF ExecLast, ExecOrphans
  <1>6. ExecRunning' /\ ExecLaunches' /\ ExecCancelled'
    BY <1>1, <1>2, <1>4, <1>c DEF ExecRunning, ExecLaunches, ExecCancelled, VerifyingPcs
  <1>7. ExecVerifies'
    BY <1>1, <1>4, <1>c DEF ExecVerifies, VerifyingPcs
  <1>8. ExecReady'
    BY <1>1, <1>2, <1>3, <1>e DEF ExecReady
  <1>9. QED
    BY <1>5, <1>6, <1>7, <1>8 DEF ExecAlone

LEMMA ExecLaunch ==
  ASSUME Base, ExecPlaces, ExecAlone, mode = "exec", NEW c \in Handlers, Launch(c), ~overlapped'
  PROVE  ExecAlone'
  <1>b. Types /\ Room /\ OneMutationEach /\ Unlaunched
    BY DEF Base, Discipline
  <1>e. /\ ExecLast /\ ExecRunning /\ ExecLaunches /\ ExecVerifies /\ ExecCancelled
        /\ ExecOrphans /\ ExecReady
    BY DEF ExecAlone
  <1>m. GoesOn(c) /\ Moves(c)
    BY <1>b, GoesOnMoves DEF GoesOn, Base
  <1>c. c \in Clients /\ Starting(c) /\ handler[c].pc = "launching"
    BY <1>b, GoesOnPlaces DEF Room, Starting, Clients
  <1>h. /\ Clients \cap Sessions = {} /\ 0 \notin Sessions
        /\ \A s \in Sessions : s \in Handlers \ {c} /\ s \in Nat
        /\ \A d \in Clients : d \in Handlers
    BY <1>c, SessionsAreNumbers DEF Handlers
  <1>q. Quiet(c)
    BY DEF Launch
  <1>1. /\ \A g \in Handlers \ {c} : handler'[g] = handler[g]
        /\ handler'[c].pc = "spawned" /\ handler'[c].session = used + 1
    BY <1>b, <1>m, MoveShifts, GoesOnPlaces
  <1>f. task' = task /\ work' = work /\ used' = used + 1 /\ registered' = used + 1
    BY DEF Launch
  <1>2. used + 1 \in Sessions /\ used \in Nat
    BY <1>b, <1>c, RoomToLaunch, Numbers
  <1>3. \A s \in Sessions : handler[s] = Idle /\ session[s].child \in {"none", "dead"}
    <2> TAKE s \in Sessions
    <2>1. CASE s > used
      BY <1>b, <2>1 DEF Unlaunched, NewSession
    <2>2. CASE ~(s > used)
      <3>1. s \in 1..used
        BY <1>2, <1>h, <2>2
      <3>2. QED
        BY <1>q, <3>1 DEF Quiet
    <2>3. QED
      BY <2>1, <2>2
  <1>4. \A s \in Sessions : handler'[s] = Idle /\ handler'[s].pc = "idle"
    BY <1>1, <1>3, <1>h, IdleRow
  <1>5. \A d \in Clients : handler'[d].session \in {0, used + 1}
    BY <1>1, <1>q, <1>h DEF Quiet
  <1>6. ASSUME NEW s \in Sessions
        PROVE  /\ s # used + 1 => session'[s].child \in {"none", "dead"}
               /\ s = used + 1 => session'[s].child \in {"none", "dead", "alive"}
               /\ session'[s].cancelled = session[s].cancelled /\ session'[s].stopped = session[s].stopped
    <2>1. \/ s # used + 1 /\ session'[s] = session[s]
          \/ s = used + 1 /\ session'[s] = [session[s] EXCEPT !.child = "alive"]
      BY <1>b DEF Launch, Types
    <2>2. session[s] \in SessionRow
      BY <1>b DEF Types
    <2>3. QED
      BY <1>3, <2>1, <2>2 DEF SessionRow
  <1>7. task.status = "RUNNING"
    <2>1. 1 \in DOMAIN done /\ done[1].by = c /\ done[1].ok /\ c \in Clients
      <3>1. done # <<>> /\ Head(done).by = c /\ Head(done).ok
        BY DEF Launch, Resume
      <3>2. Head(done) = done[1] /\ 1 \in DOMAIN done
        BY <1>b, <3>1, Lengths
      <3>3. QED
        BY <1>c, <3>1, <3>2
    <2>2. task.status = "RUNNING" \/ \E j \in DOMAIN done : 1 < j /\ done[j].by \in Sessions
      BY <1>c, <1>e, <2>1 DEF ExecLaunches
    <2>3. ASSUME NEW j \in DOMAIN done, done[j].by \in Sessions
          PROVE  FALSE
      <3>1. /\ Len(done) \in Nat /\ Len(queue) \in Nat /\ DOMAIN done = 1..Len(done)
            /\ DOMAIN Waiting = 1..(Len(done) + Len(queue))
        BY <1>b, Lengths
      <3>2. j \in DOMAIN Waiting /\ Waiting[j] = done[j].by
        BY <3>1 DEF Waiting
      <3>3. handler[done[j].by].pc \in Awaiting
        BY <1>b, <3>2 DEF OneMutationEach
      <3>4. QED
        BY <1>3, <2>3, <3>3, IdleRow DEF Awaiting
    <2>4. QED
      BY <2>2, <2>3
  <1>8. ExecLast'
    BY <1>4, <1>5, <1>6, <1>f DEF ExecLast, Live
  <1>9. ExecRunning'
    BY <1>4, <1>6, <1>7, <1>f DEF ExecRunning
  <1>10. ExecLaunches'
    BY <1>b, <1>e, <1>f, <1>m, MoveLaunches
  <1>11. ExecVerifies'
    <2>1. \A i \in DOMAIN done' : done'[i].by \in Sessions => done'[i].ok
      BY <1>b, <1>m, <1>e, MoveOks DEF ExecVerifies
    <2>2. QED
      BY <1>4, <2>1 DEF ExecVerifies, VerifyingPcs
  <1>12. ExecCancelled'
    <2>1. ASSUME NEW d \in Clients, handler'[d].pc = "cancelling"
          PROVE  FALSE
      <3>1. d # c /\ handler[d].pc = "cancelling"
        BY <1>1, <1>h, <2>1
      <3>2. handler[d].session # 0
        BY <1>e, <3>1 DEF ExecCancelled
      <3>3. QED
        BY <1>q, <3>1, <3>2 DEF Quiet
    <2>2. QED
      BY <1>4, <1>6, <1>e, <2>1 DEF ExecCancelled, VerifyingPcs
  <1>13. ExecOrphans' /\ ExecReady'
    BY <1>6, <1>7, <1>f DEF ExecOrphans, ExecReady
  <1>14. QED
    BY <1>8, <1>9, <1>10, <1>11, <1>12, <1>13 DEF ExecAlone

-----------------------------------------------------------------------------
(* codex exec without overlapping sessions: its handlers and its agents.     *)

LEMMA ExecGoesOn ==
  ASSUME Base, ExecPlaces, ExecAlone, mode = "exec", NEW h \in Handlers, GoesOn(h), ~overlapped'
  PROVE  ExecAlone'
  <1>b. Types /\ Room /\ Discipline /\ OneMutationEach /\ ExecRows
    BY DEF Base, Discipline
  <1>e. /\ ExecLast /\ ExecRunning /\ ExecLaunches /\ ExecVerifies /\ ExecCancelled
        /\ ExecOrphans /\ ExecReady
    BY DEF ExecAlone
  <1>c. Clients \cap Sessions = {} /\ Handlers = Clients \cup Sessions
    BY SessionsAreNumbers DEF Handlers
  <1>m. Moves(h)
    BY <1>b, GoesOnMoves
  <1>q. ~Queued(h)
    BY <1>b, <1>m, MoveQueued
  <1>f. ~Launch(h) => UNCHANGED <<task, work, used>>
    BY GoesOnFrame
  <1>1. CASE h \in Clients
    <2>1. CASE Launch(h)
      BY <2>1, ExecLaunch
    <2>2. ASSUME UNCHANGED <<registered, session>>, ~Launch(h), handler'[h].session = 0,
                 handler'[h].pc # "cancelling"
          PROVE  ExecAlone'
      <3>1. \A s \in Sessions : /\ session[s].child = "orphan" => ~session[s].listening
                                /\ session[s].stopped => session[s].cancelled
        BY <1>e DEF ExecOrphans, ExecCancelled
      <3>2. QED
        BY <1>1, <1>f, <1>m, <2>2, <3>1, ExecClientMoves
    <2>3. CASE Rejected(h)
      <3>1. Return(h) /\ UNCHANGED <<registered, session>>
        BY <1>1, <1>c, <2>3 DEF Rejected
      <3>2. handler'[h].session = 0 /\ handler'[h].pc = "idle"
        BY <1>b, <3>1, ReturnPlaces, IdleRow
      <3>3. ~Launch(h)
        BY <2>3 DEF Rejected, Launch, Resume
      <3>4. QED
        BY <2>2, <3>1, <3>2, <3>3
    <2>4. CASE Readied(h)
      <3>1. handler[h].pc = "readying" /\ UNCHANGED <<registered, session>>
        BY <2>4 DEF Readied, Resume
      <3>2. handler'[h].session = 0 /\ handler'[h].pc = "preparing"
        <4>1. GoTo(h, [Idle EXCEPT !.pc = "preparing"])
          BY <2>4 DEF Readied
        <4> DEFINE row == [Idle EXCEPT !.pc = "preparing"]
        <4>2. row.session = 0 /\ row.pc = "preparing"
          BY BeginsAt DEF Resting
        <4>3. GoTo(h, row)
          BY <4>1
        <4> HIDE DEF row
        <4>4. handler'[h] = row
          BY <1>b, <4>3 DEF GoTo, Types
        <4>5. QED
          BY <4>2, <4>4
      <3>3. ~Launch(h)
        BY <3>1 DEF Launch, Resume
      <3>4. QED
        BY <2>2, <3>1, <3>2, <3>3
    <2>5. CASE Listen(h)
      <3>1. /\ handler[h].pc = "spawned" /\ registered' = registered
            /\ session' = [session EXCEPT ![handler[h].session].listening = TRUE]
            /\ Return(h)
        BY <2>5 DEF Listen, Resume
      <3>2. handler'[h].session = 0 /\ handler'[h].pc = "idle"
        BY <1>b, <3>1, ReturnPlaces, IdleRow
      <3>3. \A s \in Sessions :
              /\ session'[s].child = session[s].child /\ session'[s].cancelled = session[s].cancelled
              /\ session'[s].stopped = session[s].stopped
              /\ s # handler[h].session => session'[s].listening = session[s].listening
        <4> TAKE s \in Sessions
        <4>1. session[s] \in SessionRow /\ session \in [Sessions -> SessionRow]
          BY <1>b DEF Types
        <4>2. \/ session'[s] = session[s]
              \/ s = handler[h].session /\ session'[s] = [session[s] EXCEPT !.listening = TRUE]
          BY <3>1, <4>1
        <4>3. QED
          BY <4>1, <4>2 DEF SessionRow
      <3>4. \A s \in Sessions : session[s].child = "orphan" => ~session'[s].listening
        BY <1>1, <1>e, <3>3 DEF ExecOrphans
      <3>5. \A s \in Sessions : session'[s].stopped => session'[s].cancelled
        BY <1>e, <3>3 DEF ExecCancelled
      <3>6. ~Launch(h)
        BY <3>1 DEF Launch, Resume
      <3>7. QED
        BY <1>1, <1>f, <1>m, <3>1, <3>2, <3>3, <3>4, <3>5, <3>6, ExecClientMoves
    <2>6. CASE SendKill(h)
      <3>1. /\ handler[h].pc = "cancelling" /\ registered' = registered
            /\ session' = [session EXCEPT ![handler[h].session].stopped = TRUE]
            /\ Return(h)
        BY <2>6 DEF SendKill, Resume
      <3>2. handler'[h].session = 0 /\ handler'[h].pc = "idle"
        BY <1>b, <3>1, ReturnPlaces, IdleRow
      <3>3. \A s \in Sessions :
              /\ session'[s].child = session[s].child /\ session'[s].cancelled = session[s].cancelled
              /\ session'[s].listening = session[s].listening
              /\ session'[s].stopped => session[s].stopped \/ s = handler[h].session
        <4> TAKE s \in Sessions
        <4>1. session[s] \in SessionRow /\ session \in [Sessions -> SessionRow]
          BY <1>b DEF Types
        <4>2. \/ session'[s] = session[s]
              \/ s = handler[h].session /\ session'[s] = [session[s] EXCEPT !.stopped = TRUE]
          BY <3>1, <4>1
        <4>3. QED
          BY <4>1, <4>2 DEF SessionRow
      <3>4. \A s \in Sessions : session[s].child = "orphan" => ~session'[s].listening
        BY <1>e, <3>3 DEF ExecOrphans
      <3>5. \A s \in Sessions : session'[s].stopped => session'[s].cancelled
        BY <1>1, <1>e, <3>1, <3>3 DEF ExecCancelled
      <3>6. ~Launch(h)
        BY <3>1 DEF Launch, Resume
      <3>7. QED
        BY <1>1, <1>f, <1>m, <3>1, <3>2, <3>3, <3>4, <3>5, <3>6, ExecClientMoves
    <2>7. QED
      BY <1>1, <2>1, <2>3, <2>4, <2>5, <2>6, ExecGoesOnOnly
  <1>2. CASE h \in Sessions
    <2>0. Finish(h) \/ StartChecks(h) \/ Checked(h)
      BY <1>2, ExecGoesOnOnly
    <2>1. handler[h].pc \in {"shipping", "failing", "verifying", "checked"}
      <3>1. handler[h].pc \in {"noted", "shipping", "failing", "catching", "verifying", "checked"}
        BY <1>b, <2>0, GoesOnPlaces
      <3>2. QED
        BY <1>2, <3>1 DEF ExecPlaces, VerifyingPcs
    <2>2. h = used /\ registered = 0
      BY <1>2, <1>e, <2>1 DEF ExecLast, ExecVerifies, VerifyingPcs
    <2>3. UNCHANGED <<registered, session, task, used, work>>
      BY <2>0 DEF Finish, StartChecks, Checked
    <2>4. session[h].child \notin Live
      BY <1>2, <1>b, <2>1 DEF ExecRows
    <2>5. ASSUME handler'[h].pc \in {"idle", "failing", "checking", "collecting"},
                 handler'[h].pc = "failing" => task.status \in {"RUNNING", "VERIFYING"},
                 handler'[h].pc \in {"checking", "collecting"} =>
                   task.status = "VERIFYING" /\ ~session[h].cancelled,
                 handler'[h].pc = "collecting" => work # "committed"
          PROVE  ExecAlone'
      BY <1>2, <1>m, <2>2, <2>3, <2>4, <2>5, ExecSessionMoves DEF VerifyingPcs
    <2>6. CASE Finish(h)
      <3>1. handler'[h].pc = "idle"
        BY <1>b, <2>6, GoesOnPlaces
      <3>2. QED
        BY <2>5, <3>1
    <2>7. CASE StartChecks(h)
      <3>1. handler[h].pc = "verifying" /\ handler'[h].pc = "checking"
        BY <1>b, <2>7, GoesOnPlaces
      <3>2. task.status = "VERIFYING" /\ ~session[h].cancelled
        BY <1>2, <1>e, <1>q, <3>1 DEF ExecVerifies, ExecCancelled, VerifyingPcs
      <3>3. QED
        BY <2>5, <3>1, <3>2
    <2>8. CASE Checked(h)
      <3>1. handler[h].pc = "checked"
        BY <1>b, <2>8, GoesOnPlaces
      <3>2. /\ task.status = "VERIFYING" /\ ~session[h].cancelled
            /\ handler[h].ok => work # "committed"
        BY <1>2, <1>e, <3>1 DEF ExecVerifies, ExecCancelled, VerifyingPcs
      <3>3. Failable
        BY <3>2 DEF Failable
      <3>4. \/ handler[h].ok /\ handler'[h].pc = "collecting"
            \/ handler'[h].pc = "failing"
        BY <1>b, <2>8, <3>3, GoesOnPlaces
      <3>5. QED
        BY <2>5, <3>2, <3>4
    <2>9. QED
      BY <2>0, <2>6, <2>7, <2>8
  <1>3. QED
    BY <1>1, <1>2, <1>c

LEMMA ExecReceives ==
  ASSUME Base, ExecPlaces, ExecAlone, mode = "exec", NEW h \in Handlers, Receives(h)
  PROVE  ExecAlone'
  <1>b. Types /\ Room /\ Discipline /\ OneMutationEach /\ ExecRows
    BY DEF Base, Discipline
  <1>e. /\ ExecLast /\ ExecRunning /\ ExecLaunches /\ ExecVerifies /\ ExecCancelled
        /\ ExecOrphans /\ ExecReady
    BY DEF ExecAlone
  <1>c. Clients \cap Sessions = {} /\ Handlers = Clients \cup Sessions
    BY SessionsAreNumbers DEF Handlers
  <1>m. Moves(h)
    BY <1>b, ReceivesMoves
  <1>1. CASE h \in Clients
    <2>1. Prepare(h)
      BY <1>1, ExecReceivesOnly
    <2>2. /\ UNCHANGED <<task, work, used, registered, session>>
          /\ Return(h) \/ AwaitAt(h, "launching", "RUNNING", 0)
      BY <2>1 DEF Prepare
    <2>3. handler'[h].session \in {0, handler[h].session} /\ handler'[h].pc \in {"idle", "launching"}
      BY <1>b, <2>2, ReturnPlaces, AwaitAtPlaces, IdleRow
    <2>4. \A s \in Sessions : /\ session[s].child = "orphan" => ~session[s].listening
                              /\ session[s].stopped => session[s].cancelled
      BY <1>e DEF ExecOrphans, ExecCancelled
    <2>5. QED
      BY <1>1, <1>m, <2>2, <2>3, <2>4, ExecClientMoves
  <1>2. CASE h \in Sessions
    <2>0. HandleExit(h) \/ RunChecks(h) \/ CollectEvidence(h)
      BY <1>2, ExecReceivesOnly
    <2>1. handler[h].pc \in {"exiting", "checking", "collecting"}
      BY <1>b, <2>0, ReceivesPlaces
    <2>2. h = used /\ h # 0
      BY <1>2, <1>e, <2>1, SessionsAreNumbers DEF ExecLast
    <2>3. UNCHANGED <<session, task, used>>
      BY <2>0 DEF HandleExit, RunChecks, CollectEvidence
    <2>4. session[h].child \notin Live
      BY <1>2, <1>b, <2>1 DEF ExecRows
    <2>5. CASE HandleExit(h)
      <3>1. handler[h].pc = "exiting" /\ registered' = 0 /\ work' = work
        BY <2>5 DEF HandleExit
      <3>2. task.status = "RUNNING" /\ handler[h].session = h
        BY <1>2, <1>e, <3>1 DEF ExecRunning
      <3>3. \/ handler'[h].pc = "failing"
            \/ ~ExitFails(h) /\ handler'[h].pc = "verifying"
        BY <1>b, <2>5, <3>2, ReceivesPlaces
      <3>4. ~ExitFails(h) => ~session[h].cancelled
        BY <2>2, <3>2 DEF ExitFails
      <3>5. QED
        BY <1>2, <1>m, <2>2, <2>3, <2>4, <3>1, <3>2, <3>3, <3>4, ExecSessionMoves DEF VerifyingPcs
    <2>6. CASE RunChecks(h)
      <3>1. handler[h].pc = "checking" /\ handler'[h].pc = "checked" /\ registered' = registered
        BY <1>b, <2>6, ReceivesPlaces DEF RunChecks
      <3>2. task.status = "VERIFYING" /\ ~session[h].cancelled /\ registered = 0
        BY <1>2, <1>e, <3>1 DEF ExecVerifies, ExecCancelled, VerifyingPcs
      <3>3. handler'[h].ok => work' # "committed"
        <4>1. PICK passed \in BOOLEAN, left \in {work, "dirty"} :
                /\ work' = IF passed /\ left = "committed" THEN "checked" ELSE left
                /\ Await(h, [handler[h] EXCEPT !.pc = "checked", !.ok = passed], "append", 0)
          BY <2>6 DEF RunChecks
        <4> DEFINE row == [handler[h] EXCEPT !.pc = "checked", !.ok = passed]
        <4>2. row.ok = passed
          <5>1. handler[h] \in HandlerRow
            BY <1>b DEF Types
          <5>2. QED
            BY <5>1 DEF HandlerRow
        <4>3. Await(h, row, "append", 0)
          BY <4>1
        <4> HIDE DEF row
        <4>4. handler'[h] = row
          BY <1>b, <4>3 DEF Await, Types
        <4>5. QED
          BY <4>1, <4>2, <4>4
      <3>4. QED
        BY <1>2, <1>m, <2>2, <2>3, <2>4, <3>1, <3>2, <3>3, ExecSessionMoves DEF VerifyingPcs
    <2>7. CASE CollectEvidence(h)
      <3>1. handler[h].pc = "collecting" /\ registered' = registered /\ work' = work
        BY <2>7 DEF CollectEvidence
      <3>2. /\ task.status = "VERIFYING" /\ ~session[h].cancelled /\ registered = 0
            /\ work # "committed"
        BY <1>2, <1>e, <3>1 DEF ExecVerifies, ExecCancelled, VerifyingPcs
      <3>3. Failable /\ work \in Works
        BY <1>b, <3>2 DEF Failable, Types, TypeOK, Works
      <3>4. \/ work = "checked" /\ handler'[h].pc = "shipping"
            \/ handler'[h].pc = "failing"
        BY <1>b, <2>7, <3>2, <3>3, ReceivesPlaces DEF Works
      <3>5. QED
        BY <1>2, <1>m, <2>2, <2>3, <2>4, <3>1, <3>2, <3>4, ExecSessionMoves DEF VerifyingPcs
    <2>8. QED
      BY <2>0, <2>5, <2>6, <2>7
  <1>3. QED
    BY <1>1, <1>2, <1>c

LEMMA ExecRequest ==
  ASSUME Base, ExecPlaces, ExecAlone, NEW c \in Clients, Request(c)
  PROVE  ExecAlone'
  <1>b. Types /\ Room /\ Discipline /\ OneMutationEach /\ c \in Handlers
    BY DEF Base, Discipline, Handlers
  <1>e. /\ ExecLast /\ ExecRunning /\ ExecLaunches /\ ExecVerifies /\ ExecCancelled
        /\ ExecOrphans /\ ExecReady
    BY DEF ExecAlone
  <1>m. Moves(c)
    BY <1>b, RequestMoves
  <1>1. CASE Start(c)
    <2>1. /\ UNCHANGED <<task, work, used, registered, session>>
          /\ AwaitAt(c, "readying", "READY", 0) \/ GoTo(c, [Idle EXCEPT !.pc = "preparing"])
      BY <1>1 DEF Start
    <2>2. handler'[c].session \in {0, handler[c].session}
      <3>1. ASSUME GoTo(c, [Idle EXCEPT !.pc = "preparing"])
            PROVE  handler'[c].session = 0
        <4> DEFINE row == [Idle EXCEPT !.pc = "preparing"]
        <4>1. row.session = 0
          BY BeginsAt DEF Resting
        <4>2. GoTo(c, row)
          BY <3>1
        <4> HIDE DEF row
        <4>3. handler'[c] = row
          BY <1>b, <4>2 DEF GoTo, Types
        <4>4. QED
          BY <4>1, <4>3
      <3>2. QED
        BY <1>b, <2>1, <3>1, AwaitAtPlaces
    <2>3. handler'[c].pc # "cancelling"
      BY <1>1, <1>b, RequestPlaces
    <2>4. \A s \in Sessions : /\ session[s].child = "orphan" => ~session[s].listening
                              /\ session[s].stopped => session[s].cancelled
      BY <1>e DEF ExecOrphans, ExecCancelled
    <2>5. QED
      BY <1>m, <2>1, <2>2, <2>3, <2>4, ExecClientMoves
  <1>2. CASE Cancel(c)
    <2>1. /\ registered # 0 /\ handler'[c].pc = "cancelling" /\ handler'[c].session = registered
      BY <1>2, <1>b, RequestPlaces
    <2>2. /\ UNCHANGED <<task, work, used, registered>>
          /\ session' = [session EXCEPT ![registered].cancelled = TRUE]
      BY <1>2 DEF Cancel
    <2>3. registered \in Sessions
      BY <1>b, <2>1, Numbers
    <2>4. \A s \in Sessions :
            /\ session'[s].child = session[s].child /\ session'[s].stopped = session[s].stopped
            /\ session'[s].listening = session[s].listening
            /\ s # registered => session'[s].cancelled = session[s].cancelled
            /\ s = registered => session'[s].cancelled
      <3> TAKE s \in Sessions
      <3>1. session \in [Sessions -> SessionRow] /\ session[s] \in SessionRow
        BY <1>b DEF Types
      <3>2. \/ s # registered /\ session'[s] = session[s]
            \/ s = registered /\ session'[s] = [session[s] EXCEPT !.cancelled = TRUE]
        BY <2>2, <3>1
      <3>3. QED
        BY <3>1, <3>2 DEF SessionRow
    <2>5. \A s \in Sessions : /\ session'[s].stopped => session'[s].cancelled
                              /\ session[s].child = "orphan" => ~session'[s].listening
      BY <1>e, <2>4 DEF ExecCancelled, ExecOrphans
    <2>6. QED
      BY <1>m, <2>1, <2>2, <2>3, <2>4, <2>5, ExecClientMoves
  <1>3. ~Click(c)
    BY DEF ExecPlaces, Click
  <1>4. QED
    BY <1>1, <1>2, <1>3 DEF Request

LEMMA ExecAgentSteps ==
  ASSUME Base, ExecAlone, mode = "exec", NEW s \in Sessions, Agent(s)
  PROVE  ExecAlone'
  <1>b. Types /\ Room /\ Discipline /\ OneMutationEach /\ s \in Handlers
    BY DEF Base, Discipline, Handlers
  <1>e. /\ ExecLast /\ ExecRunning /\ ExecLaunches /\ ExecVerifies /\ ExecCancelled
        /\ ExecOrphans /\ ExecReady
    BY DEF ExecAlone
  <1>0. session[s].child \in Live /\ handler[s].pc = "idle" /\ s = used
    BY <1>b, <1>e, ExecAgents DEF ExecLast
  <1>r. task.status # "READY_TO_SHIP"
    BY <1>0, <1>e DEF ExecReady
  <1>1. CASE AgentWorks(s)
    <2>1. UNCHANGED <<mode, task, queue, done, handler, registered, session, used>>
      BY <1>1 DEF AgentWorks
    <2>2. ExecLast' /\ ExecRunning' /\ ExecLaunches' /\ ExecCancelled' /\ ExecOrphans' /\ ExecReady'
      BY <1>e, <1>r, <2>1 DEF ExecLast, ExecRunning, ExecLaunches, ExecCancelled, ExecOrphans, ExecReady
    <2>3. ExecVerifies'
      <3>1. \A t \in Sessions : handler[t].pc \notin VerifyingPcs \cup {"failing"}
        BY <1>0, <1>e DEF ExecLast, VerifyingPcs
      <3>2. QED
        BY <1>e, <2>1, <3>1 DEF ExecVerifies, VerifyingPcs
    <2>4. QED
      BY <2>2, <2>3 DEF ExecAlone
  <1>2. CASE AgentExits(s)
    <2>1. UNCHANGED <<mode, task, done, registered, used, work>>
      BY <1>2 DEF AgentExits
    <2>2. /\ \A t \in Sessions : /\ session'[t].cancelled = session[t].cancelled
                                 /\ session'[t].stopped = session[t].stopped
                                 /\ session'[t].listening = session[t].listening
                                 /\ t # s => session'[t].child = session[t].child
          /\ session'[s].child = "dead"
      <3>1. session'[s].listening = session[s].listening
        <4>1. session'[s] = [session[s] EXCEPT !.child = "dead"] /\ session[s] \in SessionRow
          BY <1>b, <1>2, AgentExitsRow DEF Types
        <4>2. QED
          BY <4>1 DEF SessionRow
      <3>2. QED
        BY <1>b, <1>2, <3>1, AgentExitsRow
    <2>3. CASE session[s].listening
      <3>1. session[s].child = "alive"
        BY <1>2, <1>e, <2>3 DEF AgentExits, ExecOrphans
      <3>2. registered = s /\ task.status = "RUNNING"
        BY <1>e, <3>1 DEF ExecRunning
      <3>3. PICK ok \in BOOLEAN : GoTo(s, [Idle EXCEPT !.pc = "exiting", !.session = registered, !.ok = ok])
        BY <1>2, <2>3 DEF AgentExits
      <3> DEFINE row == [Idle EXCEPT !.pc = "exiting", !.session = registered, !.ok = ok]
      <3>4. row.pc = "exiting" /\ row.session = s
        <4>1. Idle \in HandlerRow
          BY IdleRow
        <4>2. QED
          BY <3>2, <4>1 DEF HandlerRow
      <3>5. GoTo(s, row)
        BY <3>3
      <3> HIDE DEF row
      <3>6. handler'[s] = row
        BY <1>b, <3>5 DEF GoTo, Types
      <3>7. Moves(s)
        <4>1. Moves(s) \/ handler' = handler
          BY <1>b, <1>2, AgentMoves DEF Agent
        <4>2. QED
          BY <1>0, <3>4, <3>6, <4>1
      <3>8. QED
        BY <1>0, <2>1, <2>2, <3>2, <3>4, <3>6, <3>7, ExecSessionMoves DEF VerifyingPcs, Live
    <2>4. CASE ~session[s].listening
      <3>1. UNCHANGED <<handler, queue>>
        BY <1>2, <2>4 DEF AgentExits
      <3>2. \A t \in Sessions : Queued(t)' <=> Queued(t)
        BY <3>1 DEF Queued
      <3>3. \A t \in Sessions : session'[t].child = session[t].child \/ session'[t].child = "dead"
        BY <2>2
      <3>4. ExecLast'
        BY <1>e, <2>1, <3>1, <3>3 DEF ExecLast, Live
      <3>5. ExecRunning' /\ ExecLaunches'
        BY <1>e, <2>1, <3>1, <3>3 DEF ExecRunning, ExecLaunches
      <3>6. ExecVerifies'
        BY <1>e, <2>1, <3>1, <3>2 DEF ExecVerifies
      <3>7. ExecCancelled'
        <4>1. ASSUME NEW d \in Clients, handler[d].pc = "cancelling"
              PROVE  handler[d].session # 0 /\ session'[handler[d].session].cancelled
          <5>1. handler[d].session # 0 /\ session[handler[d].session].cancelled
            BY <1>e, <4>1 DEF ExecCancelled
          <5>2. handler[d].session \in Sessions
            BY <1>b, <5>1 DEF Types, HandlerRow, Handlers
          <5>3. QED
            BY <2>2, <5>1, <5>2
        <4>2. QED
          BY <1>e, <2>2, <3>1, <4>1 DEF ExecCancelled
      <3>8. ExecOrphans'
        BY <1>e, <2>1, <2>2, <3>1, <3>3 DEF ExecOrphans
      <3>9. ExecReady'
        BY <1>r, <2>1 DEF ExecReady
      <3>10. QED
        BY <3>4, <3>5, <3>6, <3>7, <3>8, <3>9 DEF ExecAlone
    <2>5. QED
      BY <2>3, <2>4
  <1>3. QED
    BY <1>b, <1>1, <1>2, ExecAgents

\* Once sessions overlap they have overlapped for ever.
LEMMA ModeStays ==
  ASSUME Types, [Next]_vars
  PROVE  mode' = mode /\ (overlapped => overlapped')
  <1>1. work \in Works
    BY DEF Types, TypeOK, Works
  <1>2. ASSUME NEW h \in Handlers, GoesOn(h) \/ Receives(h)
        PROVE  mode' = mode /\ (overlapped => overlapped')
    BY <1>1, <1>2, GoesOnFrame, ReceivesFrame
  <1>3. ASSUME NEW c \in Clients, Request(c)
        PROVE  mode' = mode /\ (overlapped => overlapped')
    BY <1>1, <1>3, ReceivesFrame
  <1>4. ASSUME NEW s \in Sessions, Agent(s) \/ Callback(s)
        PROVE  mode' = mode /\ (overlapped => overlapped')
    BY <1>1, <1>4, CallbackFrame
  <1>5. (Commit \/ Restart \/ UNCHANGED vars) => mode' = mode /\ overlapped' = overlapped
    <2>1. Commit => mode' = mode /\ overlapped' = overlapped
      BY DEF Commit
    <2>2. Restart => mode' = mode /\ overlapped' = overlapped
      BY DEF Restart
    <2>3. UNCHANGED vars => mode' = mode /\ overlapped' = overlapped
      BY DEF vars
    <2>4. QED
      BY <2>1, <2>2, <2>3
  <1>6. QED
    BY <1>2, <1>3, <1>4, <1>5 DEF Next

LEMMA ExecStep ==
  ASSUME Base, ExecInv, [Next]_vars
  PROVE  ExecInv'
  <1>1. mode' = mode /\ (overlapped => overlapped')
    BY ModeStays DEF Base
  <1> SUFFICES ASSUME mode = "exec", ExecPlaces, overlapped \/ ExecAlone
               PROVE  ExecPlaces' /\ (overlapped' \/ ExecAlone')
    BY <1>1 DEF ExecInv
  <1>2. ExecPlaces'
    BY ExecPlacesStep
  <1> SUFFICES ASSUME ExecAlone, ~overlapped'
               PROVE  ExecAlone'
    BY <1>1, <1>2
  <1>3. CASE Commit \/ Restart
    BY <1>3, ExecCommit, ExecRestart
  <1>4. ASSUME NEW h \in Handlers, GoesOn(h) \/ Receives(h)
        PROVE  ExecAlone'
    BY <1>4, ExecGoesOn, ExecReceives
  <1>5. ASSUME NEW c \in Clients, Request(c)
        PROVE  ExecAlone'
    BY <1>5, ExecRequest
  <1>6. ASSUME NEW s \in Sessions, Agent(s) \/ Callback(s)
        PROVE  ExecAlone'
    BY <1>6, ExecAgentSteps, ExecAgents DEF Base
  <1>7. CASE UNCHANGED vars
    <2>1. \A s \in Sessions : Queued(s)' <=> Queued(s)
      BY <1>7 DEF vars, Queued
    <2>2. QED
      BY <1>7, <2>1 DEF vars, ExecAlone, ExecLast, ExecRunning, ExecLaunches, ExecVerifies,
                        ExecCancelled, ExecOrphans, ExecReady
  <1>8. QED
    BY <1>3, <1>4, <1>5, <1>6, <1>7 DEF Next

LEMMA InitExec ==
  ASSUME Init
  PROVE  ExecInv
  <1>1. /\ \A h \in Handlers : handler[h].pc = "idle" /\ handler[h].session = 0
        /\ \A s \in Sessions : session[s].child = "none" /\ ~session[s].stopped
        /\ task.status = "BACKLOG" /\ registered = 0 /\ DOMAIN done = {}
    BY IdleRow, NoneDone DEF Init, NewSession
  <1>c. \A c \in Clients : c \in Handlers
    BY DEF Handlers
  <1>s. \A s \in Sessions : s \in Handlers
    BY DEF Handlers
  <1>2. ExecPlaces
    BY <1>1, <1>c, <1>s DEF ExecPlaces
  <1>3. ExecLast /\ ExecRunning /\ ExecLaunches /\ ExecOrphans /\ ExecReady
    BY <1>1, <1>c, <1>s DEF ExecLast, ExecRunning, ExecLaunches, ExecOrphans, ExecReady, Live
  <1>4. ExecVerifies /\ ExecCancelled
    BY <1>1, <1>c, <1>s DEF ExecVerifies, ExecCancelled, VerifyingPcs
  <1>5. QED
    BY <1>2, <1>3, <1>4 DEF ExecInv, ExecAlone

-----------------------------------------------------------------------------
(* The theorems about codex exec, for any clients, bounds and restarts.      *)

ExecCore == Base /\ ExecInv /\ mode = "exec"

LEMMA ExecInvariant == Spec /\ mode = "exec" => []ExecCore
  <1>1. Init /\ mode = "exec" => ExecCore
    BY InitBase, InitExec DEF ExecCore
  <1>2. ExecCore /\ [Next]_vars => ExecCore'
    <2> SUFFICES ASSUME ExecCore, [Next]_vars
                 PROVE  ExecCore'
      OBVIOUS
    <2>1. Base /\ ExecInv /\ mode = "exec"
      BY DEF ExecCore
    <2>2. Base'
      BY <2>1, TypesStep, RoomStep, DisciplineStep DEF Base
    <2>3. ExecInv'
      BY <2>1, ExecStep
    <2>4. mode' = "exec"
      BY <2>1, ModeStays DEF Base
    <2>5. QED
      BY <2>2, <2>3, <2>4 DEF ExecCore
  <1>3. QED
    BY <1>1, <1>2, PTL DEF Spec

\* In exec mode, as long as no session of the task was launched while another
\* was not over, an agent that the core neither killed nor left behind is the
\* registered one and its task is RUNNING: starts of several clients, cancels
\* and restarts do not leave a live agent that no cancel reaches.
THEOREM ExecSupervisesAgents == Spec /\ mode = "exec" => []AgentSupervised
  <1>1. ExecCore => AgentSupervised
    BY DEF ExecCore, ExecInv, ExecAlone, ExecRunning, AgentSupervised
  <1>2. QED
    BY <1>1, ExecInvariant, PTL

\* In exec mode, as long as sessions do not overlap, a task that is READY_TO_SHIP
\* has the worktree that its checks passed on.
THEOREM ExecShipsVerifiedWork == Spec /\ mode = "exec" => []ReadyIsVerified
  <1>1. ExecCore => ReadyIsVerified
    BY DEF ExecCore, ExecInv, ExecAlone, ExecReady, ReadyIsVerified
  <1>2. QED
    BY <1>1, ExecInvariant, PTL

\* In exec mode, as long as sessions do not overlap, a session whose
\* cancellation was answered never makes its task ready to ship, be it the last
\* session or an earlier one.
THEOREM ExecCancelSticks == Spec /\ mode = "exec" => CancelSticks
  <1>1. ExecCore /\ [Next]_vars
          => [\A s \in Sessions : ShippedBy(s) => overlapped \/ ~session[s].stopped]_vars
    <2> SUFFICES ASSUME ExecCore, [Next]_vars, NEW s \in Sessions, ShippedBy(s), ~overlapped
                 PROVE  ~session[s].stopped
      OBVIOUS
    <2>b. Base /\ Types /\ OneMutationEach /\ mode = "exec" /\ ExecPlaces /\ ExecAlone
      BY DEF ExecCore, ExecInv, Base, Discipline
    <2>1. task.status # "READY_TO_SHIP" /\ task'.status = "READY_TO_SHIP" /\ Head(queue).by = s
      BY DEF ShippedBy
    <2>2. Commit
      <3>1. work \in Works
        BY <2>b DEF Types, TypeOK, Works
      <3>2. \A h \in Handlers : ~GoesOn(h) /\ ~Receives(h)
        BY <2>1, <3>1, GoesOnFrame, ReceivesFrame
      <3>3. \A c \in Clients : ~Request(c)
        BY <2>1, <3>1, ReceivesFrame
      <3>4. \A t \in Sessions : ~Agent(t) /\ ~Callback(t)
        BY <2>1, <3>1, CallbackFrame
      <3>5. ~Restart
        <4>1. task \in [status : TaskStates, pending : Requests \cup {0}, recovery : BOOLEAN]
          BY <2>b DEF Types, TypeOK
        <4>2. QED
          BY <2>1, <4>1 DEF Restart
      <3>6. QED
        BY <2>1, <3>2, <3>3, <3>4, <3>5 DEF Next, vars
    <2>3. Head(queue).to = "READY_TO_SHIP"
      BY <2>b, <2>1, <2>2, CommitTask
    <2>4. Head(queue).to = Target(handler[s].pc)
      BY <2>b, <2>1, <2>2, CommitQueued
    <2>5. handler[s].pc = "shipping"
      BY <2>b, <2>3, <2>4 DEF ExecPlaces, VerifyingPcs, Target
    <2>6. QED
      BY <2>b, <2>5 DEF ExecAlone, ExecCancelled, VerifyingPcs
  <1>2. QED
    BY <1>1, ExecInvariant, PTL DEF Spec, CancelSticks
=============================================================================
