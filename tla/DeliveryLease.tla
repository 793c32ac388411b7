---------------------------- MODULE DeliveryLease ----------------------------
(***************************************************************************)
(* The lease that protects execute, verify and publish of one cycle        *)
(* (packages/evolution-core/src/delivery-operation.ts, delivery-cancel.ts  *)
(* and the child processes of execution-backend.ts), file by file.         *)
(*                                                                         *)
(* Processes share three files of the cycle: operation.lock, a hard link   *)
(* to the first record of the operation that holds the lease;              *)
(* operation.json, the checkpoint of the latest operation; cancel.json.    *)
(* Each file operation is one step, because every process may be killed,   *)
(* and others run, between two of them.  Files are replaced by renaming,   *)
(* so a reader never finds a torn one.  The heartbeat only changes a time  *)
(* in the checkpoint; that a request finds it outdated is a refusal like   *)
(* any other and is left out.                                              *)
(*                                                                         *)
(* An operation is also the identity of the process that owns it: a        *)
(* process serves one command and its id is not used again.                *)
(***************************************************************************)
EXTENDS Naturals

CONSTANTS Owners,      \* processes that execute, verify or publish
          Recoverers,  \* processes that reconcile the lease
          Cancellers,  \* processes that cancel an operation
          MaxOps,      \* bound: operations begun
          MaxChildren, \* bound: commands that one operation runs
          MaxKills     \* bound: processes killed

ASSUME BoundAssumption == MaxOps \in Nat /\ MaxChildren \in Nat /\ MaxKills \in Nat

\* Operations are numbered in the order in which they are prepared.
Ops == 1..MaxOps
NoOp == 0

Procs == Owners \cup Recoverers \cup Cancellers

VARIABLES checkpoint, \* operation.json
          lock,       \* the operation of the record in operation.lock, or NoOp
          request,    \* cancel.json
          pc,         \* the step each process is at
          self,       \* the operation an owner runs, or NoOp
          seen,       \* the record a recovery or a cancellation works on
          started,    \* the number of operations prepared
          spawned,    \* the number of commands an owner has run
          children,   \* child processes that are alive
          escaped,    \* children that outlived their owner and no record names
          broken,     \* whether a file of another operation was ever overwritten or removed
          kills

vars == <<checkpoint, lock, request, pc, self, seen, started, spawned, children, escaped, broken, kills>>

Record(o, status, child) == [op |-> o, status |-> status, child |-> child]
NoRecord == Record(NoOp, "completed", 0)
NoRequest == [op |-> NoOp, child |-> 0, signalled |-> FALSE]
Statuses == {"running", "completed", "failed", "abandoned"}
Records == [op : Ops \cup {NoOp}, status : Statuses, child : 0..MaxChildren]
Child(record) == [op |-> record.op, n |-> record.child]

WorkSteps == {"work", "record", "wait"}
OwnerSteps == {"link", "rename", "release"} \cup WorkSteps
RecoverySteps == {"evidence", "rewrite", "clear"}
CancelSteps == {"confirm", "read", "annotate"}

TypeOK ==
  /\ checkpoint \in Records
  /\ lock \in Ops \cup {NoOp}
  /\ request \in [op : Ops \cup {NoOp}, child : 0..MaxChildren, signalled : BOOLEAN]
  /\ pc \in [Procs -> {"idle"} \cup OwnerSteps \cup RecoverySteps \cup CancelSteps]
  /\ self \in [Procs -> Ops \cup {NoOp}]
  /\ seen \in [Procs -> Records]
  /\ started \in 0..MaxOps
  /\ spawned \in [Procs -> 0..MaxChildren]
  /\ children \subseteq [op : Ops, n : 1..MaxChildren]
  /\ escaped \subseteq children
  /\ broken \in BOOLEAN
  /\ kills \in 0..MaxKills

Init ==
  /\ checkpoint = NoRecord
  /\ lock = NoOp
  /\ request = NoRequest
  /\ pc = [p \in Procs |-> "idle"]
  /\ self = [p \in Procs |-> NoOp]
  /\ seen = [p \in Procs |-> NoRecord]
  /\ started = 0
  /\ spawned = [p \in Procs |-> 0]
  /\ children = {}
  /\ escaped = {}
  /\ broken = FALSE
  /\ kills = 0

----------------------------------------------------------------------------
(* What an inspection finds. *)

Alive(o) == \E p \in Procs : self[p] = o
Working == {self[p] : p \in {x \in Procs : pc[x] \in WorkSteps}}

\* The record that counts: the lock's own when the checkpoint is missing or
\* belongs to another operation.
Authority ==
  IF lock # NoOp /\ checkpoint.op # lock THEN Record(lock, "running", 0) ELSE checkpoint

OwnerAlive(record) == Alive(record.op)
InUse(record) == Alive(record.op) \/ Child(record) \in children

\* A terminal checkpoint taken for healthy whatever the lock says.
DispositionByCheckpoint ==
  CASE Authority.status = "running" /\ InUse(Authority) -> "active"
    [] Authority.status = "running" /\ ~InUse(Authority) -> "stale"
    [] OTHER -> "healthy"

Disposition ==
  CASE Authority.status = "running" /\ InUse(Authority) -> "active"
    [] Authority.status = "running" /\ ~InUse(Authority) -> "stale"
    [] Authority.status # "running" /\ lock # NoOp -> "stale"
    [] OTHER -> "healthy"

Goto(p, step) == pc' = [pc EXCEPT ![p] = step]

\* The process is done with its command, or dead.
Leave(p) ==
  /\ Goto(p, "idle")
  /\ self' = [self EXCEPT ![p] = NoOp]
  /\ seen' = [seen EXCEPT ![p] = NoRecord]
  /\ spawned' = [spawned EXCEPT ![p] = 0]

\* The lease has passed to another operation than o.
Foreign(o) == lock \notin {o, NoOp}

\* operation.lock is removed whoever it belongs to.
RemoveLock(o) ==
  /\ lock' = NoOp
  /\ broken' = (broken \/ Foreign(o))

----------------------------------------------------------------------------
(* withDeliveryOperation *)

\* The inspection must be healthy; the first record is written aside.
Prepare(p) ==
  /\ p \in Owners
  /\ pc[p] = "idle"
  /\ Disposition = "healthy"
  /\ started < MaxOps
  /\ started' = started + 1
  /\ self' = [self EXCEPT ![p] = started + 1]
  /\ Goto(p, "link")
  /\ UNCHANGED <<checkpoint, lock, request, seen, spawned, children, escaped, broken, kills>>

LockNeverTaken == FALSE
LockTaken == lock # NoOp

\* The hard link succeeds only if operation.lock is not there.
Acquire(p) ==
  /\ pc[p] = "link"
  /\ ~LockTaken
  /\ lock' = self[p]
  /\ Goto(p, "rename")
  /\ UNCHANGED <<checkpoint, request, self, seen, started, spawned, children, escaped, broken, kills>>

AcquireRefused(p) ==
  /\ pc[p] = "link"
  /\ LockTaken
  /\ Leave(p)
  /\ UNCHANGED <<checkpoint, lock, request, children, escaped, broken, kills, started>>

\* The prepared record becomes operation.json and the work begins.
PublishCheckpoint(p) ==
  /\ pc[p] = "rename"
  /\ checkpoint' = Record(self[p], "running", 0)
  /\ Goto(p, "work")
  /\ UNCHANGED <<lock, request, self, seen, started, spawned, children, escaped, broken, kills>>

\* The rename fails and the lock is given back.
PublishFails(p) ==
  /\ pc[p] = "rename"
  /\ RemoveLock(self[p])
  /\ Leave(p)
  /\ UNCHANGED <<checkpoint, request, children, escaped, kills, started>>

\* The work starts a command in a process group of its own ...
Spawn(p) ==
  /\ pc[p] = "work"
  /\ spawned[p] < MaxChildren
  /\ spawned' = [spawned EXCEPT ![p] = @ + 1]
  /\ children' = children \cup {[op |-> self[p], n |-> spawned[p] + 1]}
  /\ Goto(p, "record")
  /\ UNCHANGED <<checkpoint, lock, request, self, seen, escaped, broken, kills, started>>

OwnCheckpoint(p) == checkpoint.op = self[p] /\ checkpoint.status = "running"

\* ... and then records it in the checkpoint, which must still be its own;
\* else the command is terminated and reported unavailable.
RecordChild(p) ==
  /\ pc[p] = "record"
  /\ IF OwnCheckpoint(p)
       THEN /\ checkpoint' = [checkpoint EXCEPT !.child = spawned[p]]
            /\ Goto(p, "wait")
       ELSE /\ UNCHANGED checkpoint
            /\ Goto(p, "work")
  /\ UNCHANGED <<lock, request, self, seen, started, spawned, children, escaped, broken, kills>>

ChildEnds(c) ==
  /\ c \in children
  /\ children' = children \ {c}
  /\ escaped' = escaped \ {c}
  /\ UNCHANGED <<checkpoint, lock, request, pc, self, seen, spawned, broken, kills, started>>

CommandReturns(p) ==
  /\ pc[p] = "wait"
  /\ [op |-> self[p], n |-> spawned[p]] \notin children
  /\ Goto(p, "work")
  /\ UNCHANGED <<checkpoint, lock, request, self, seen, started, spawned, children, escaped, broken, kills>>

\* The work returned or threw: whatever record is in operation.json now is
\* written back as completed or failed.
Conclude(p) ==
  /\ pc[p] = "work"
  /\ \E status \in {"completed", "failed"} :
       checkpoint' = [checkpoint EXCEPT !.status = status, !.child = 0]
  /\ Goto(p, "release")
  /\ UNCHANGED <<lock, request, self, seen, started, spawned, children, escaped, broken, kills>>

\* The terminal record cannot be written: the lock stays.
ConcludeFails(p) ==
  /\ pc[p] = "work"
  /\ Leave(p)
  /\ UNCHANGED <<checkpoint, lock, request, children, escaped, broken, kills, started>>

Release(p) ==
  /\ pc[p] = "release"
  /\ RemoveLock(self[p])
  /\ Leave(p)
  /\ UNCHANGED <<checkpoint, request, children, escaped, kills, started>>

----------------------------------------------------------------------------
(* reconcileDeliveryOperation with --apply *)

InspectStale(p) ==
  /\ p \in Recoverers
  /\ pc[p] = "idle"
  /\ Disposition = "stale"
  /\ seen' = [seen EXCEPT ![p] = Authority]
  /\ Goto(p, "evidence")
  /\ UNCHANGED <<checkpoint, lock, request, self, spawned, children, escaped, broken, kills, started>>

StillStale(p) == Disposition = "stale" /\ Authority.op = seen[p].op

\* The evidence is registered, which is an await, and the inspection repeated.
Recheck(p) ==
  /\ pc[p] = "evidence"
  /\ IF StillStale(p)
       THEN Goto(p, "rewrite") /\ UNCHANGED <<self, seen, spawned>>
       ELSE Leave(p)
  /\ UNCHANGED <<checkpoint, lock, request, children, escaped, broken, kills, started>>

Outcome(status) == IF status = "running" THEN "abandoned" ELSE status

Rewrite(p) ==
  /\ pc[p] = "rewrite"
  /\ checkpoint' = Record(seen[p].op, Outcome(seen[p].status), 0)
  /\ broken' = (broken \/ Foreign(seen[p].op))
  /\ Goto(p, "clear")
  /\ UNCHANGED <<lock, request, self, seen, spawned, children, escaped, kills, started>>

Clear(p) ==
  /\ pc[p] = "clear"
  /\ RemoveLock(seen[p].op)
  /\ Leave(p)
  /\ UNCHANGED <<checkpoint, request, children, escaped, kills, started>>

----------------------------------------------------------------------------
(* requestDeliveryCancellation with --apply *)

\* /proc knows the owner, and the child as a process group of that owner.
Supervised(record) == Alive(record.op) /\ Child(record) \in children

\* A running operation that holds the lease, with its owner and its recorded
\* child alive.
Cancellable ==
  /\ lock = checkpoint.op
  /\ checkpoint.status = "running"
  /\ Supervised(checkpoint)

\* The intent is written before the evidence; a second request for the same
\* operation finds it and stops.
RequestCancel(p) ==
  /\ p \in Cancellers
  /\ pc[p] = "idle"
  /\ Cancellable
  /\ request.op # checkpoint.op
  /\ request' = [op |-> checkpoint.op, child |-> checkpoint.child, signalled |-> FALSE]
  /\ seen' = [seen EXCEPT ![p] = checkpoint]
  /\ Goto(p, "confirm")
  /\ UNCHANGED <<checkpoint, lock, self, spawned, children, escaped, broken, kills, started>>

\* The evidence cannot be registered and the request is withdrawn.
WithdrawRequest(p) ==
  /\ pc[p] = "confirm"
  /\ request' = NoRequest
  /\ Leave(p)
  /\ UNCHANGED <<checkpoint, lock, children, escaped, broken, kills, started>>

SameChild(p) == Child(checkpoint) = Child(seen[p])
SameOperation(p) == checkpoint.op = seen[p].op

\* The second inspection must find the same operation and the same child,
\* whose process group then gets SIGTERM; else the request stays unsignalled.
Signal(p) ==
  /\ pc[p] = "confirm"
  /\ IF Cancellable /\ SameChild(p)
       THEN /\ request' = [op |-> checkpoint.op, child |-> checkpoint.child, signalled |-> TRUE]
            /\ Goto(p, "read")
            /\ UNCHANGED <<self, seen, spawned>>
       ELSE /\ UNCHANGED request
            /\ Leave(p)
  /\ UNCHANGED <<checkpoint, lock, children, escaped, broken, kills, started>>

\* The request is noted in the checkpoint: it is read ...
ReadCheckpoint(p) ==
  /\ pc[p] = "read"
  /\ IF SameOperation(p) /\ checkpoint.status = "running"
       THEN /\ seen' = [seen EXCEPT ![p] = checkpoint]
            /\ Goto(p, "annotate")
            /\ UNCHANGED <<self, spawned>>
       ELSE Leave(p)
  /\ UNCHANGED <<checkpoint, lock, request, children, escaped, broken, kills, started>>

\* ... and written back, over anything its owner has written since.
Annotate(p) ==
  /\ pc[p] = "annotate"
  /\ checkpoint' = seen[p]
  /\ escaped' = escaped \cup {c \in children : ~Alive(c.op) /\ c # Child(seen[p])}
  /\ broken' = (broken \/ Foreign(seen[p].op))
  /\ Leave(p)
  /\ UNCHANGED <<lock, request, children, kills, started>>

----------------------------------------------------------------------------
\* A process is killed (SIGKILL); a command it runs lives on.
Kill(p) ==
  /\ pc[p] # "idle"
  /\ kills < MaxKills
  /\ kills' = kills + 1
  /\ escaped' = escaped \cup {c \in children : c.op = self[p] /\ c # Child(Authority)}
  /\ Leave(p)
  /\ UNCHANGED <<checkpoint, lock, request, children, broken, started>>

Operate(p) ==
  \/ Prepare(p) \/ Acquire(p) \/ AcquireRefused(p)
  \/ PublishCheckpoint(p) \/ PublishFails(p)
  \/ Spawn(p) \/ RecordChild(p) \/ CommandReturns(p)
  \/ Conclude(p) \/ ConcludeFails(p) \/ Release(p)

Reconcile(p) == InspectStale(p) \/ Recheck(p) \/ Rewrite(p) \/ Clear(p)

Cancel(p) ==
  \/ RequestCancel(p) \/ WithdrawRequest(p) \/ Signal(p)
  \/ ReadCheckpoint(p) \/ Annotate(p)

Next ==
  \/ \E p \in Procs : Operate(p) \/ Reconcile(p) \/ Cancel(p) \/ Kill(p)
  \/ \E c \in children : ChildEnds(c)

Spec == Init /\ [][Next]_vars

(* A process that is not killed goes on, a command ends in the end (it has *)
(* a timeout), and an operator who finds the lease stale reconciles it.    *)
Fairness ==
  /\ \A p \in Owners :
       /\ WF_vars(PublishCheckpoint(p)) /\ WF_vars(RecordChild(p))
       /\ WF_vars(CommandReturns(p)) /\ WF_vars(Conclude(p)) /\ WF_vars(Release(p))
       /\ WF_vars(Acquire(p) \/ AcquireRefused(p))
  /\ \A p \in Recoverers : WF_vars(Reconcile(p))
  /\ \A p \in Cancellers : WF_vars(Signal(p)) /\ WF_vars(ReadCheckpoint(p)) /\ WF_vars(Annotate(p))
  /\ \A o \in Ops : \A n \in 1..MaxChildren : WF_vars(ChildEnds([op |-> o, n |-> n]))

FairSpec == Spec /\ Fairness

----------------------------------------------------------------------------
(* Properties. *)

Lease == INSTANCE OperationLease WITH holder <- lock, working <- Working

\* The files implement the lease of OperationLease: an operation begins only
\* on a free lease, and only a lease whose operation works no more is freed,
\* up to the step that breaks it.
ImplementsLease == Lease!LeaseSpec

\* Two operations never work on one cycle at once, unless a lease was taken
\* from an operation at work.
ExclusiveUnlessBroken == Lease!ExclusiveUnlessBroken

\* The hard link keeps a second operation from acquiring the same cycle: at
\* most one operation is at work (docs/evolution/DELIVERY_OPERATION_LEASES.md).
OneOperationAtWork == \A o1, o2 \in Working : o1 = o2

\* A command that outlives its owner still holds the lease of its operation,
\* unless no record names it or the lease was broken.
ChildKeepsLease ==
  \A c \in children :
    Alive(c.op) \/ lock = c.op \/ c \in escaped \/ broken

\* The lease of an operation whose process is gone is cleared in the end.
DeadLeaseCleared ==
  \A o \in Ops : (lock = o /\ ~Alive(o)) ~> (lock # o \/ Alive(o))
=============================================================================
