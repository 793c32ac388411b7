------------------------ MODULE DeliveryLeaseProofs ------------------------
(***************************************************************************)
(* The files of DeliveryLease implement the lease of OperationLease, for   *)
(* every set of processes and every bound.                                 *)
(*                                                                         *)
(* The argument: a number names one operation and one process, for ever    *)
(* (Identity); a record that a file or a recovery holds is of an operation *)
(* that is past its hard link (Begun); a recovery works on an operation    *)
(* whose work is over, because it found its process gone or its record     *)
(* final (Over); and, as long as nobody has touched the files of another   *)
(* operation, an operation at work owns the lock and the running           *)
(* checkpoint (Owned).  Every step then takes, frees or keeps the lease as *)
(* OperationLease allows, or is the step that breaks it.                   *)
(***************************************************************************)
EXTENDS DeliveryLease, TLAPS

Identity ==
  /\ \A p \in Procs : pc[p] \in OwnerSteps <=> self[p] # NoOp
  /\ \A p \in Procs : self[p] <= started
  /\ \A p, q \in Procs : self[p] = self[q] /\ self[p] # NoOp => p = q

\* The process of operation o, if it still has one, has published its record.
PastLink(o) == \A q \in Procs : self[q] = o /\ o # NoOp => pc[q] \in WorkSteps \cup {"release"}

Begun ==
  /\ checkpoint.op <= started /\ PastLink(checkpoint.op)
  /\ lock <= started
  /\ \A q \in Procs : self[q] = lock /\ lock # NoOp => pc[q] # "link"
  /\ \A p \in Procs : seen[p].op <= started /\ PastLink(seen[p].op)

Over ==
  ~broken => \A p, q \in Procs :
    pc[p] \in RecoverySteps /\ self[q] = seen[p].op /\ self[q] # NoOp => pc[q] = "release"

Owned ==
  ~broken =>
    \A q \in Procs :
      /\ pc[q] \in {"rename"} \cup WorkSteps => lock = self[q]
      /\ pc[q] \in WorkSteps => checkpoint.op = self[q] /\ checkpoint.status = "running"

\* A cancellation annotates a record that it found running.
Noted == \A p \in Procs : pc[p] = "annotate" => seen[p].status = "running"

IInv == TypeOK /\ Identity /\ Begun /\ Over /\ Owned /\ Noted

----------------------------------------------------------------------------
USE DEF NoOp

\* The authority an inspection goes by is a record.
LEMMA AuthorityType == ASSUME TypeOK PROVE Authority \in Records
BY BoundAssumption DEF TypeOK, Authority, Records, Record, Statuses

\* The initial state satisfies the inductive invariant.
LEMMA InitialInv == Init => IInv
<1> SUFFICES ASSUME Init PROVE IInv
  OBVIOUS
<1>1. TypeOK
  <2>1. Record(NoOp, "completed", 0) \in Records
    BY BoundAssumption DEF Record, Records, Statuses
  <2>2. checkpoint \in Records /\ seen \in [Procs -> Records]
    BY <2>1 DEF Init, NoRecord
  <2>3. request \in [op : Ops \cup {NoOp}, child : 0..MaxChildren, signalled : BOOLEAN]
    BY BoundAssumption DEF Init, NoRequest
  <2>4. /\ pc \in [Procs -> {"idle"} \cup OwnerSteps \cup RecoverySteps \cup CancelSteps]
        /\ self \in [Procs -> Ops \cup {NoOp}] /\ lock \in Ops \cup {NoOp}
    BY DEF Init
  <2>5. started \in 0..MaxOps /\ kills \in 0..MaxKills /\ spawned \in [Procs -> 0..MaxChildren]
    BY BoundAssumption DEF Init
  <2>6. children \subseteq [op : Ops, n : 1..MaxChildren] /\ escaped \subseteq children /\ broken \in BOOLEAN
    BY DEF Init
  <2> QED
    BY <2>2, <2>3, <2>4, <2>5, <2>6 DEF TypeOK
<1>2. Identity /\ Over /\ Owned /\ Noted
  BY DEF Init, Identity, Over, Owned, Noted, OwnerSteps, WorkSteps, RecoverySteps
<1>3. Begun
  BY DEF Init, Begun, PastLink, NoRecord, Record
<1> QED
  BY <1>1, <1>2, <1>3 DEF IInv

----------------------------------------------------------------------------
(* Every step keeps the inductive invariant. *)

\* The operation of a stale inspection is over: its process is gone, or has
\* written the final record and has only the release before it.
LEMMA StaleIsOver ==
  ASSUME IInv, Disposition = "stale"
  PROVE  /\ Authority.op <= started /\ PastLink(Authority.op)
         /\ ~broken => \A q \in Procs : self[q] = Authority.op /\ self[q] # NoOp => pc[q] = "release"
<1>0. TypeOK /\ Identity /\ Begun /\ Over /\ Owned /\ Noted
  BY DEF IInv
<1>1. Authority.op \in {lock, checkpoint.op}
  BY DEF Authority, Record
<1>2. Authority.op <= started
  BY <1>0, <1>1 DEF Begun
<1>3. ASSUME NEW q \in Procs, self[q] = Authority.op, self[q] # NoOp
      PROVE  Authority = checkpoint /\ checkpoint.status # "running"
  <2>1. Alive(Authority.op)
    BY <1>3 DEF Alive
  <2>2. Authority.status # "running" /\ lock # NoOp
    BY <2>1 DEF Disposition, InUse
  <2> QED
    BY <2>2 DEF Authority, Record
<1>4. PastLink(Authority.op)
  BY <1>0, <1>3 DEF Begun, PastLink
<1>5. ASSUME ~broken, NEW q \in Procs, self[q] = Authority.op, self[q] # NoOp PROVE pc[q] = "release"
  <2>1. checkpoint.status # "running" /\ self[q] = checkpoint.op
    BY <1>3, <1>5
  <2>2. pc[q] \in WorkSteps \cup {"release"}
    BY <1>0, <1>5, <2>1 DEF Begun, PastLink
  <2> QED
    BY <1>0, <1>5, <2>1, <2>2 DEF Owned
<1> QED
  BY <1>2, <1>4, <1>5

LEMMA PrepareInv == ASSUME IInv, NEW p \in Procs, Prepare(p) PROVE IInv'
<1>0. TypeOK /\ Identity /\ Begun /\ Over /\ Owned /\ Noted
  BY DEF IInv
<1>1. TypeOK'
  BY <1>0, BoundAssumption, AuthorityType DEF Prepare, Goto, Leave, TypeOK, RemoveLock, Foreign, Record, Records, NoRecord, NoRequest, Statuses, Ops, Procs, OwnerSteps, WorkSteps, RecoverySteps, CancelSteps
<1>2. Identity'
  BY <1>0, <1>1 DEF Prepare, Goto, Leave, TypeOK, Identity, Ops, OwnerSteps, WorkSteps, RecoverySteps, CancelSteps
<1>3. Begun'
  <2>1. /\ self' = [self EXCEPT ![p] = started + 1] /\ pc' = [pc EXCEPT ![p] = "link"]
        /\ started' = started + 1 /\ UNCHANGED <<checkpoint, lock, seen>>
    BY DEF Prepare, Goto
  <2>2. started \in Nat /\ lock \in Nat /\ checkpoint.op \in Nat /\ \A q \in Procs : seen[q].op \in Nat
    BY <1>0, BoundAssumption DEF TypeOK, Ops, Records
  <2>3. \A o \in Nat : o <= started /\ PastLink(o) => o <= started' /\ (PastLink(o))'
    <3>1. SUFFICES ASSUME NEW o \in Nat, o <= started, PastLink(o), NEW q \in Procs, self'[q] = o, o # NoOp
                   PROVE  pc'[q] \in WorkSteps \cup {"release"}
      BY <2>1, <2>2 DEF PastLink
    <3>2. q # p
      BY <3>1, <2>1, <2>2, <1>0 DEF TypeOK
    <3> QED
      BY <3>1, <3>2, <2>1, <1>0 DEF PastLink, TypeOK
  <2>4. lock <= started' /\ \A q \in Procs : self'[q] = lock /\ lock # NoOp => pc'[q] # "link"
    BY <2>1, <2>2, <1>0 DEF Begun, TypeOK
  <2> QED
    BY <2>1, <2>2, <2>3, <2>4, <1>0 DEF Begun, PastLink
<1>4. Over'
  BY <1>0, <1>1 DEF Prepare, Goto, Leave, TypeOK, Over, Begun, Identity, PastLink, OwnerSteps, WorkSteps, RecoverySteps, CancelSteps, NoRecord, Record
<1>5. Owned'
  BY <1>0, <1>1 DEF Prepare, Goto, Leave, TypeOK, Owned, Over, Begun, Identity, PastLink, OwnerSteps, WorkSteps, RecoverySteps, CancelSteps, RemoveLock, Foreign, Record
<1>6. Noted'
  BY <1>0 DEF Prepare, Goto, Leave, Noted, TypeOK, NoRecord, Record
<1> QED
  BY <1>1, <1>2, <1>3, <1>4, <1>5, <1>6 DEF IInv

LEMMA AcquireInv == ASSUME IInv, NEW p \in Procs, Acquire(p) PROVE IInv'
<1>0. TypeOK /\ Identity /\ Begun /\ Over /\ Owned /\ Noted
  BY DEF IInv
<1>1. TypeOK'
  BY <1>0, BoundAssumption, AuthorityType DEF Acquire, Goto, Leave, LockTaken, TypeOK, RemoveLock, Foreign, Record, Records, NoRecord, NoRequest, Statuses, Ops, Procs, OwnerSteps, WorkSteps, RecoverySteps, CancelSteps
<1>2. Identity'
  BY <1>0, <1>1 DEF Acquire, Goto, Leave, LockTaken, TypeOK, Identity, Ops, OwnerSteps, WorkSteps, RecoverySteps, CancelSteps
<1>3. Begun'
  BY <1>0, <1>1 DEF Acquire, Goto, Leave, LockTaken, TypeOK, Begun, PastLink, Identity, RemoveLock, Record, Records, NoRecord, OwnerSteps, WorkSteps
<1>4. Over'
  BY <1>0, <1>1 DEF Acquire, Goto, Leave, LockTaken, TypeOK, Over, Begun, Identity, PastLink, OwnerSteps, WorkSteps, RecoverySteps, CancelSteps, NoRecord, Record
<1>5. Owned'
  BY <1>0, <1>1 DEF Acquire, Goto, Leave, LockTaken, TypeOK, Owned, Over, Begun, Identity, PastLink, OwnerSteps, WorkSteps, RecoverySteps, CancelSteps, RemoveLock, Foreign, Record
<1>6. Noted'
  BY <1>0 DEF Acquire, Goto, Leave, Noted, TypeOK, NoRecord, Record
<1> QED
  BY <1>1, <1>2, <1>3, <1>4, <1>5, <1>6 DEF IInv

LEMMA AcquireRefusedInv == ASSUME IInv, NEW p \in Procs, AcquireRefused(p) PROVE IInv'
<1>0. TypeOK /\ Identity /\ Begun /\ Over /\ Owned /\ Noted
  BY DEF IInv
<1>1. TypeOK'
  BY <1>0, BoundAssumption, AuthorityType DEF AcquireRefused, Goto, Leave, LockTaken, TypeOK, RemoveLock, Foreign, Record, Records, NoRecord, NoRequest, Statuses, Ops, Procs, OwnerSteps, WorkSteps, RecoverySteps, CancelSteps
<1>2. Identity'
  BY <1>0, <1>1 DEF AcquireRefused, Goto, Leave, LockTaken, TypeOK, Identity, Ops, OwnerSteps, WorkSteps, RecoverySteps, CancelSteps
<1>3. Begun'
  BY <1>0, <1>1 DEF AcquireRefused, Goto, Leave, LockTaken, TypeOK, Begun, PastLink, Identity, RemoveLock, Record, Records, NoRecord, OwnerSteps, WorkSteps
<1>4. Over'
  BY <1>0, <1>1 DEF AcquireRefused, Goto, Leave, LockTaken, TypeOK, Over, Begun, Identity, PastLink, OwnerSteps, WorkSteps, RecoverySteps, CancelSteps, NoRecord, Record
<1>5. Owned'
  BY <1>0, <1>1 DEF AcquireRefused, Goto, Leave, LockTaken, TypeOK, Owned, Over, Begun, Identity, PastLink, OwnerSteps, WorkSteps, RecoverySteps, CancelSteps, RemoveLock, Foreign, Record
<1>6. Noted'
  BY <1>0 DEF AcquireRefused, Goto, Leave, Noted, TypeOK, NoRecord, Record
<1> QED
  BY <1>1, <1>2, <1>3, <1>4, <1>5, <1>6 DEF IInv

LEMMA PublishCheckpointInv == ASSUME IInv, NEW p \in Procs, PublishCheckpoint(p) PROVE IInv'
<1>0. TypeOK /\ Identity /\ Begun /\ Over /\ Owned /\ Noted
  BY DEF IInv
<1>1. TypeOK'
  BY <1>0, BoundAssumption, AuthorityType DEF PublishCheckpoint, Goto, Leave, TypeOK, RemoveLock, Foreign, Record, Records, NoRecord, NoRequest, Statuses, Ops, Procs, OwnerSteps, WorkSteps, RecoverySteps, CancelSteps
<1>2. Identity'
  BY <1>0, <1>1 DEF PublishCheckpoint, Goto, Leave, TypeOK, Identity, Ops, OwnerSteps, WorkSteps, RecoverySteps, CancelSteps
<1>3. Begun'
  BY <1>0, <1>1 DEF PublishCheckpoint, Goto, Leave, TypeOK, Begun, PastLink, Identity, RemoveLock, Record, Records, NoRecord, OwnerSteps, WorkSteps
<1>4. Over'
  BY <1>0, <1>1 DEF PublishCheckpoint, Goto, Leave, TypeOK, Over, Begun, Identity, PastLink, OwnerSteps, WorkSteps, RecoverySteps, CancelSteps, NoRecord, Record
<1>5. Owned'
  BY <1>0, <1>1 DEF PublishCheckpoint, Goto, Leave, TypeOK, Owned, Over, Begun, Identity, PastLink, OwnerSteps, WorkSteps, RecoverySteps, CancelSteps, RemoveLock, Foreign, Record
<1>6. Noted'
  BY <1>0 DEF PublishCheckpoint, Goto, Leave, Noted, TypeOK, NoRecord, Record
<1> QED
  BY <1>1, <1>2, <1>3, <1>4, <1>5, <1>6 DEF IInv

LEMMA PublishFailsInv == ASSUME IInv, NEW p \in Procs, PublishFails(p) PROVE IInv'
<1>0. TypeOK /\ Identity /\ Begun /\ Over /\ Owned /\ Noted
  BY DEF IInv
<1>1. TypeOK'
  BY <1>0, BoundAssumption, AuthorityType DEF PublishFails, Goto, Leave, TypeOK, RemoveLock, Foreign, Record, Records, NoRecord, NoRequest, Statuses, Ops, Procs, OwnerSteps, WorkSteps, RecoverySteps, CancelSteps
<1>2. Identity'
  BY <1>0, <1>1 DEF PublishFails, Goto, Leave, TypeOK, Identity, Ops, OwnerSteps, WorkSteps, RecoverySteps, CancelSteps
<1>3. Begun'
  BY <1>0, <1>1 DEF PublishFails, Goto, Leave, TypeOK, Begun, PastLink, Identity, RemoveLock, Record, Records, NoRecord, OwnerSteps, WorkSteps
<1>4. Over'
  BY <1>0, <1>1 DEF PublishFails, Goto, Leave, RemoveLock, TypeOK, Over, Begun, Identity, PastLink, OwnerSteps, WorkSteps, RecoverySteps, CancelSteps, NoRecord, Record
<1>5. Owned'
  BY <1>0, <1>1 DEF PublishFails, Goto, Leave, TypeOK, Owned, Over, Begun, Identity, PastLink, OwnerSteps, WorkSteps, RecoverySteps, CancelSteps, RemoveLock, Foreign, Record
<1>6. Noted'
  BY <1>0 DEF PublishFails, Goto, Leave, Noted, TypeOK, NoRecord, Record
<1> QED
  BY <1>1, <1>2, <1>3, <1>4, <1>5, <1>6 DEF IInv

LEMMA SpawnInv == ASSUME IInv, NEW p \in Procs, Spawn(p) PROVE IInv'
<1>0. TypeOK /\ Identity /\ Begun /\ Over /\ Owned /\ Noted
  BY DEF IInv
<1>1. TypeOK'
  <2>1. self[p] \in Ops /\ spawned[p] + 1 \in 1..MaxChildren
    BY <1>0, BoundAssumption DEF Spawn, TypeOK, Identity, OwnerSteps, WorkSteps
  <2>2. children' \subseteq [op : Ops, n : 1..MaxChildren] /\ escaped' \subseteq children'
    BY <1>0, <2>1 DEF Spawn, TypeOK
  <2>3. spawned' \in [Procs -> 0..MaxChildren]
    BY <1>0, <2>1, BoundAssumption DEF Spawn, TypeOK
  <2> QED
    BY <1>0, <2>2, <2>3 DEF Spawn, Goto, TypeOK, OwnerSteps, WorkSteps
<1>2. Identity'
  BY <1>0, <1>1 DEF Spawn, Goto, Leave, TypeOK, Identity, Ops, OwnerSteps, WorkSteps, RecoverySteps, CancelSteps
<1>3. Begun'
  BY <1>0, <1>1 DEF Spawn, Goto, Leave, TypeOK, Begun, PastLink, Identity, RemoveLock, Record, Records, NoRecord, OwnerSteps, WorkSteps
<1>4. Over'
  BY <1>0, <1>1 DEF Spawn, Goto, Leave, TypeOK, Over, Begun, Identity, PastLink, OwnerSteps, WorkSteps, RecoverySteps, CancelSteps, NoRecord, Record
<1>5. Owned'
  BY <1>0, <1>1 DEF Spawn, Goto, Leave, TypeOK, Owned, Over, Begun, Identity, PastLink, OwnerSteps, WorkSteps, RecoverySteps, CancelSteps, RemoveLock, Foreign, Record
<1>6. Noted'
  BY <1>0 DEF Spawn, Goto, Leave, Noted, TypeOK, NoRecord, Record
<1> QED
  BY <1>1, <1>2, <1>3, <1>4, <1>5, <1>6 DEF IInv

LEMMA RecordChildInv == ASSUME IInv, NEW p \in Procs, RecordChild(p) PROVE IInv'
<1>0. TypeOK /\ Identity /\ Begun /\ Over /\ Owned /\ Noted
  BY DEF IInv
<1>1. TypeOK'
  BY <1>0, BoundAssumption, AuthorityType DEF RecordChild, Goto, Leave, OwnCheckpoint, TypeOK, RemoveLock, Foreign, Record, Records, NoRecord, NoRequest, Statuses, Ops, Procs, OwnerSteps, WorkSteps, RecoverySteps, CancelSteps
<1>2. Identity'
  BY <1>0, <1>1 DEF RecordChild, Goto, Leave, OwnCheckpoint, TypeOK, Identity, Ops, OwnerSteps, WorkSteps, RecoverySteps, CancelSteps
<1>3. Begun'
  <2>1. checkpoint'.op = checkpoint.op /\ UNCHANGED <<lock, self, seen, started>>
    BY <1>0 DEF RecordChild, OwnCheckpoint, TypeOK, Records
  <2>2. \A q \in Procs : pc'[q] = pc[q] \/ (pc[q] \in WorkSteps /\ pc'[q] \in WorkSteps)
    BY <1>0 DEF RecordChild, Goto, TypeOK, WorkSteps
  <2> QED
    BY <1>0, <2>1, <2>2 DEF Begun, PastLink, WorkSteps
<1>4. Over'
  BY <1>0, <1>1 DEF RecordChild, Goto, Leave, OwnCheckpoint, TypeOK, Over, Begun, Identity, PastLink, OwnerSteps, WorkSteps, RecoverySteps, CancelSteps, NoRecord, Record
<1>5. Owned'
  <2>1. checkpoint'.op = checkpoint.op /\ checkpoint'.status = checkpoint.status
        /\ UNCHANGED <<lock, self, broken>>
    BY <1>0 DEF RecordChild, OwnCheckpoint, TypeOK, Records
  <2>2. \A q \in Procs : pc'[q] = pc[q] \/ (pc[q] \in WorkSteps /\ pc'[q] \in WorkSteps)
    BY <1>0 DEF RecordChild, Goto, TypeOK, WorkSteps
  <2> QED
    BY <1>0, <2>1, <2>2 DEF Owned
<1>6. Noted'
  BY <1>0 DEF RecordChild, Goto, Leave, Noted, TypeOK, NoRecord, Record
<1> QED
  BY <1>1, <1>2, <1>3, <1>4, <1>5, <1>6 DEF IInv

LEMMA CommandReturnsInv == ASSUME IInv, NEW p \in Procs, CommandReturns(p) PROVE IInv'
<1>0. TypeOK /\ Identity /\ Begun /\ Over /\ Owned /\ Noted
  BY DEF IInv
<1>1. TypeOK'
  BY <1>0, BoundAssumption, AuthorityType DEF CommandReturns, Goto, Leave, TypeOK, RemoveLock, Foreign, Record, Records, NoRecord, NoRequest, Statuses, Ops, Procs, OwnerSteps, WorkSteps, RecoverySteps, CancelSteps
<1>2. Identity'
  BY <1>0, <1>1 DEF CommandReturns, Goto, Leave, TypeOK, Identity, Ops, OwnerSteps, WorkSteps, RecoverySteps, CancelSteps
<1>3. Begun'
  BY <1>0, <1>1 DEF CommandReturns, Goto, Leave, TypeOK, Begun, PastLink, Identity, RemoveLock, Record, Records, NoRecord, OwnerSteps, WorkSteps
<1>4. Over'
  BY <1>0, <1>1 DEF CommandReturns, Goto, Leave, TypeOK, Over, Begun, Identity, PastLink, OwnerSteps, WorkSteps, RecoverySteps, CancelSteps, NoRecord, Record
<1>5. Owned'
  BY <1>0, <1>1 DEF CommandReturns, Goto, Leave, TypeOK, Owned, Over, Begun, Identity, PastLink, OwnerSteps, WorkSteps, RecoverySteps, CancelSteps, RemoveLock, Foreign, Record
<1>6. Noted'
  BY <1>0 DEF CommandReturns, Goto, Leave, Noted, TypeOK, NoRecord, Record
<1> QED
  BY <1>1, <1>2, <1>3, <1>4, <1>5, <1>6 DEF IInv

LEMMA ConcludeInv == ASSUME IInv, NEW p \in Procs, Conclude(p) PROVE IInv'
<1>0. TypeOK /\ Identity /\ Begun /\ Over /\ Owned /\ Noted
  BY DEF IInv
<1>1. TypeOK'
  <2>1. PICK status \in {"completed", "failed"} :
          checkpoint' = [checkpoint EXCEPT !.status = status, !.child = 0]
    BY DEF Conclude
  <2>2. checkpoint' = [op |-> checkpoint.op, status |-> status, child |-> 0]
    BY <2>1, <1>0 DEF TypeOK, Records
  <2>3. checkpoint.op \in Ops \cup {NoOp} /\ status \in Statuses /\ 0 \in 0..MaxChildren
    BY <1>0, BoundAssumption DEF TypeOK, Records, Statuses
  <2>4. checkpoint' \in Records
    BY <2>2, <2>3 DEF Records
  <2> QED
    BY <1>0, <2>4 DEF Conclude, Goto, TypeOK, OwnerSteps, WorkSteps
<1>2. Identity'
  BY <1>0, <1>1 DEF Conclude, Goto, Leave, TypeOK, Identity, Ops, OwnerSteps, WorkSteps, RecoverySteps, CancelSteps
<1>3. Begun'
  BY <1>0, <1>1 DEF Conclude, Goto, Leave, TypeOK, Begun, PastLink, Identity, RemoveLock, Record, Records, NoRecord, OwnerSteps, WorkSteps
<1>4. Over'
  BY <1>0, <1>1 DEF Conclude, Goto, Leave, TypeOK, Over, Begun, Identity, PastLink, OwnerSteps, WorkSteps, RecoverySteps, CancelSteps, NoRecord, Record
<1>5. Owned'
  BY <1>0, <1>1 DEF Conclude, Goto, Leave, TypeOK, Owned, Over, Begun, Identity, PastLink, OwnerSteps, WorkSteps, RecoverySteps, CancelSteps, RemoveLock, Foreign, Record
<1>6. Noted'
  BY <1>0 DEF Conclude, Goto, Leave, Noted, TypeOK, NoRecord, Record
<1> QED
  BY <1>1, <1>2, <1>3, <1>4, <1>5, <1>6 DEF IInv

LEMMA ConcludeFailsInv == ASSUME IInv, NEW p \in Procs, ConcludeFails(p) PROVE IInv'
<1>0. TypeOK /\ Identity /\ Begun /\ Over /\ Owned /\ Noted
  BY DEF IInv
<1>1. TypeOK'
  BY <1>0, BoundAssumption, AuthorityType DEF ConcludeFails, Goto, Leave, TypeOK, RemoveLock, Foreign, Record, Records, NoRecord, NoRequest, Statuses, Ops, Procs, OwnerSteps, WorkSteps, RecoverySteps, CancelSteps
<1>2. Identity'
  BY <1>0, <1>1 DEF ConcludeFails, Goto, Leave, TypeOK, Identity, Ops, OwnerSteps, WorkSteps, RecoverySteps, CancelSteps
<1>3. Begun'
  BY <1>0, <1>1 DEF ConcludeFails, Goto, Leave, TypeOK, Begun, PastLink, Identity, RemoveLock, Record, Records, NoRecord, OwnerSteps, WorkSteps
<1>4. Over'
  BY <1>0, <1>1 DEF ConcludeFails, Goto, Leave, TypeOK, Over, Begun, Identity, PastLink, OwnerSteps, WorkSteps, RecoverySteps, CancelSteps, NoRecord, Record
<1>5. Owned'
  BY <1>0, <1>1 DEF ConcludeFails, Goto, Leave, TypeOK, Owned, Over, Begun, Identity, PastLink, OwnerSteps, WorkSteps, RecoverySteps, CancelSteps, RemoveLock, Foreign, Record
<1>6. Noted'
  BY <1>0 DEF ConcludeFails, Goto, Leave, Noted, TypeOK, NoRecord, Record
<1> QED
  BY <1>1, <1>2, <1>3, <1>4, <1>5, <1>6 DEF IInv

LEMMA ReleaseInv == ASSUME IInv, NEW p \in Procs, Release(p) PROVE IInv'
<1>0. TypeOK /\ Identity /\ Begun /\ Over /\ Owned /\ Noted
  BY DEF IInv
<1>1. TypeOK'
  BY <1>0, BoundAssumption, AuthorityType DEF Release, Goto, Leave, TypeOK, RemoveLock, Foreign, Record, Records, NoRecord, NoRequest, Statuses, Ops, Procs, OwnerSteps, WorkSteps, RecoverySteps, CancelSteps
<1>2. Identity'
  BY <1>0, <1>1 DEF Release, Goto, Leave, TypeOK, Identity, Ops, OwnerSteps, WorkSteps, RecoverySteps, CancelSteps
<1>3. Begun'
  BY <1>0, <1>1 DEF Release, Goto, Leave, TypeOK, Begun, PastLink, Identity, RemoveLock, Record, Records, NoRecord, OwnerSteps, WorkSteps
<1>4. Over'
  BY <1>0, <1>1 DEF Release, Goto, Leave, RemoveLock, TypeOK, Over, Begun, Identity, PastLink, OwnerSteps, WorkSteps, RecoverySteps, CancelSteps, NoRecord, Record
<1>5. Owned'
  <2>1. lock' = NoOp /\ broken' = (broken \/ lock \notin {self[p], NoOp})
        /\ pc' = [pc EXCEPT ![p] = "idle"] /\ self' = [self EXCEPT ![p] = NoOp]
    BY DEF Release, RemoveLock, Foreign, Leave, Goto
  <2>2. SUFFICES ASSUME ~broken', NEW q \in Procs, pc'[q] \in {"rename"} \cup WorkSteps PROVE FALSE
    BY DEF Owned
  <2>3. q # p /\ pc[q] \in {"rename"} \cup WorkSteps /\ ~broken
    BY <1>0, <2>1, <2>2 DEF TypeOK, WorkSteps
  <2>4. lock = self[q] /\ self[q] # NoOp
    BY <1>0, <2>3 DEF Owned, Identity, OwnerSteps
  <2>5. lock = self[p]
    BY <2>1, <2>2, <2>4
  <2> QED
    BY <1>0, <2>3, <2>4, <2>5 DEF Identity
<1>6. Noted'
  BY <1>0 DEF Release, Goto, Leave, Noted, TypeOK, NoRecord, Record
<1> QED
  BY <1>1, <1>2, <1>3, <1>4, <1>5, <1>6 DEF IInv

LEMMA InspectStaleInv == ASSUME IInv, NEW p \in Procs, InspectStale(p) PROVE IInv'
<1>0. TypeOK /\ Identity /\ Begun /\ Over /\ Owned /\ Noted
  BY DEF IInv
<1>1. TypeOK'
  BY <1>0, BoundAssumption, AuthorityType DEF InspectStale, Goto, Leave, Disposition, TypeOK, RemoveLock, Foreign, Record, Records, NoRecord, NoRequest, Statuses, Ops, Procs, OwnerSteps, WorkSteps, RecoverySteps, CancelSteps
<1>2. Identity'
  BY <1>0, <1>1 DEF InspectStale, Goto, Leave, Disposition, TypeOK, Identity, Ops, OwnerSteps, WorkSteps, RecoverySteps, CancelSteps
<1>3. Begun'
  <2>1. Authority.op <= started /\ PastLink(Authority.op)
    BY <1>0, StaleIsOver DEF InspectStale, IInv
  <2>2. seen' = [seen EXCEPT ![p] = Authority] /\ UNCHANGED <<checkpoint, lock, self, started>>
        /\ pc' = [pc EXCEPT ![p] = "evidence"] /\ pc[p] = "idle"
    BY DEF InspectStale, Goto
  <2>3. \A q \in Procs : pc'[q] = pc[q] \/ (pc[q] = "idle" /\ pc'[q] = "evidence")
    BY <1>0, <2>2 DEF TypeOK
  <2>4. \A o : PastLink(o) => (PastLink(o))'
    BY <2>2, <2>3 DEF PastLink, WorkSteps
  <2>5. checkpoint'.op <= started' /\ (PastLink(checkpoint.op))' /\ lock' <= started'
    <3>1. checkpoint.op <= started /\ PastLink(checkpoint.op) /\ lock <= started
      BY <1>0 DEF Begun
    <3> QED
      BY <3>1, <2>2, <2>3 DEF PastLink, WorkSteps
  <2>6. \A q \in Procs : self'[q] = lock' /\ lock' # NoOp => pc'[q] # "link"
    BY <1>0, <2>2, <2>3 DEF Begun
  <2>7. ASSUME NEW q \in Procs PROVE seen'[q].op <= started' /\ (PastLink(seen[q].op))'
    <3>1. seen'[q] = seen[q] \/ seen'[q] = Authority
      BY <1>0, <2>2 DEF TypeOK
    <3>2. seen'[q].op <= started /\ PastLink(seen'[q].op)
      BY <1>0, <2>1, <3>1 DEF Begun
    <3> QED
      BY <3>2, <2>2, <2>3 DEF PastLink, WorkSteps
  <2> QED
    BY <2>5, <2>6, <2>7 DEF Begun
<1>4. Over'
  <2>1. seen' = [seen EXCEPT ![p] = Authority] /\ self' = self /\ broken' = broken
        /\ pc' = [pc EXCEPT ![p] = "evidence"] /\ pc[p] = "idle"
    BY DEF InspectStale, Goto
  <2>2. ~broken => \A q \in Procs : self[q] = Authority.op /\ self[q] # NoOp => pc[q] = "release"
    BY <1>0, StaleIsOver DEF InspectStale, IInv
  <2>3. \A q \in Procs : pc'[q] = pc[q] \/ q = p
    BY <1>0, <2>1 DEF TypeOK
  <2>4. self[p] = NoOp
    BY <1>0, <2>1 DEF Identity, OwnerSteps, WorkSteps
  <2> QED
    BY <1>0, <2>1, <2>2, <2>3, <2>4 DEF Over, TypeOK
<1>5. Owned'
  BY <1>0, <1>1 DEF InspectStale, Goto, Leave, Disposition, TypeOK, Owned, Over, Begun, Identity, PastLink, OwnerSteps, WorkSteps, RecoverySteps, CancelSteps, RemoveLock, Foreign, Record
<1>6. Noted'
  BY <1>0 DEF InspectStale, Goto, Leave, Noted, TypeOK, NoRecord, Record
<1> QED
  BY <1>1, <1>2, <1>3, <1>4, <1>5, <1>6 DEF IInv

LEMMA RecheckInv == ASSUME IInv, NEW p \in Procs, Recheck(p) PROVE IInv'
<1>0. TypeOK /\ Identity /\ Begun /\ Over /\ Owned /\ Noted
  BY DEF IInv
<1>1. TypeOK'
  BY <1>0, BoundAssumption, AuthorityType DEF Recheck, Goto, Leave, StillStale, TypeOK, RemoveLock, Foreign, Record, Records, NoRecord, NoRequest, Statuses, Ops, Procs, OwnerSteps, WorkSteps, RecoverySteps, CancelSteps
<1>2. Identity'
  BY <1>0, <1>1 DEF Recheck, Goto, Leave, StillStale, TypeOK, Identity, Ops, OwnerSteps, WorkSteps, RecoverySteps, CancelSteps
<1>3. Begun'
  <2>1. CASE StillStale(p)
    <3>1. pc' = [pc EXCEPT ![p] = "rewrite"] /\ pc[p] = "evidence"
          /\ UNCHANGED <<checkpoint, lock, self, seen, started>>
      BY <2>1 DEF Recheck, Goto
    <3>2. \A q \in Procs : pc'[q] = pc[q] \/ (pc[q] = "evidence" /\ pc'[q] = "rewrite")
      BY <1>0, <3>1 DEF TypeOK
    <3> QED
      BY <1>0, <3>1, <3>2 DEF Begun, PastLink, WorkSteps
  <2>2. CASE ~StillStale(p)
    BY <1>0, <1>1, <2>2 DEF Recheck, Goto, Leave, TypeOK, Begun, PastLink, NoRecord, Record, WorkSteps
  <2> QED
    BY <2>1, <2>2
<1>4. Over'
  BY <1>0, <1>1 DEF Recheck, Goto, Leave, StillStale, TypeOK, Over, Begun, Identity, PastLink, OwnerSteps, WorkSteps, RecoverySteps, CancelSteps, NoRecord, Record
<1>5. Owned'
  BY <1>0, <1>1 DEF Recheck, Goto, Leave, StillStale, TypeOK, Owned, Over, Begun, Identity, PastLink, OwnerSteps, WorkSteps, RecoverySteps, CancelSteps, RemoveLock, Foreign, Record
<1>6. Noted'
  BY <1>0 DEF Recheck, Goto, Leave, Noted, TypeOK, NoRecord, Record
<1> QED
  BY <1>1, <1>2, <1>3, <1>4, <1>5, <1>6 DEF IInv

LEMMA RewriteInv == ASSUME IInv, NEW p \in Procs, Rewrite(p) PROVE IInv'
<1>0. TypeOK /\ Identity /\ Begun /\ Over /\ Owned /\ Noted
  BY DEF IInv
<1>1. TypeOK'
  BY <1>0, BoundAssumption, AuthorityType DEF Rewrite, Goto, Leave, Outcome, TypeOK, RemoveLock, Foreign, Record, Records, NoRecord, NoRequest, Statuses, Ops, Procs, OwnerSteps, WorkSteps, RecoverySteps, CancelSteps
<1>2. Identity'
  BY <1>0, <1>1 DEF Rewrite, Goto, Leave, Outcome, TypeOK, Identity, Ops, OwnerSteps, WorkSteps, RecoverySteps, CancelSteps
<1>3. Begun'
  BY <1>0, <1>1 DEF Rewrite, Goto, Leave, Outcome, TypeOK, Begun, PastLink, Identity, RemoveLock, Record, Records, NoRecord, OwnerSteps, WorkSteps
<1>4. Over'
  BY <1>0, <1>1 DEF Rewrite, Goto, Leave, Outcome, TypeOK, Over, Begun, Identity, PastLink, OwnerSteps, WorkSteps, RecoverySteps, CancelSteps, NoRecord, Record
<1>5. Owned'
  <2>1. broken' = (broken \/ lock \notin {seen[p].op, NoOp})
    BY DEF Rewrite, RemoveLock, Foreign
  <2>2. SUFFICES ASSUME ~broken', NEW q \in Procs, pc'[q] \in {"rename"} \cup WorkSteps PROVE FALSE
    BY DEF Owned
  <2>3. pc[q] \in {"rename"} \cup WorkSteps /\ ~broken
    BY <1>0, <2>1, <2>2 DEF Rewrite, Leave, Goto, TypeOK, WorkSteps
  <2>4. lock = self[q] /\ self[q] # NoOp
    BY <1>0, <2>3 DEF Owned, Identity, OwnerSteps
  <2>5. self[q] = seen[p].op /\ pc[p] \in RecoverySteps
    BY <2>1, <2>2, <2>4 DEF Rewrite, RecoverySteps
  <2> QED
    BY <1>0, <2>3, <2>4, <2>5 DEF Over, WorkSteps
<1>6. Noted'
  BY <1>0 DEF Rewrite, Goto, Leave, Noted, TypeOK, NoRecord, Record
<1> QED
  BY <1>1, <1>2, <1>3, <1>4, <1>5, <1>6 DEF IInv

LEMMA ClearInv == ASSUME IInv, NEW p \in Procs, Clear(p) PROVE IInv'
<1>0. TypeOK /\ Identity /\ Begun /\ Over /\ Owned /\ Noted
  BY DEF IInv
<1>1. TypeOK'
  BY <1>0, BoundAssumption, AuthorityType DEF Clear, Goto, Leave, TypeOK, RemoveLock, Foreign, Record, Records, NoRecord, NoRequest, Statuses, Ops, Procs, OwnerSteps, WorkSteps, RecoverySteps, CancelSteps
<1>2. Identity'
  BY <1>0, <1>1 DEF Clear, Goto, Leave, TypeOK, Identity, Ops, OwnerSteps, WorkSteps, RecoverySteps, CancelSteps
<1>3. Begun'
  BY <1>0, <1>1 DEF Clear, Goto, Leave, TypeOK, Begun, PastLink, Identity, RemoveLock, Record, Records, NoRecord, OwnerSteps, WorkSteps
<1>4. Over'
  BY <1>0, <1>1 DEF Clear, Goto, Leave, RemoveLock, TypeOK, Over, Begun, Identity, PastLink, OwnerSteps, WorkSteps, RecoverySteps, CancelSteps, NoRecord, Record
<1>5. Owned'
  <2>1. broken' = (broken \/ lock \notin {seen[p].op, NoOp})
    BY DEF Clear, RemoveLock, Foreign
  <2>2. SUFFICES ASSUME ~broken', NEW q \in Procs, pc'[q] \in {"rename"} \cup WorkSteps PROVE FALSE
    BY DEF Owned
  <2>3. pc[q] \in {"rename"} \cup WorkSteps /\ ~broken
    BY <1>0, <2>1, <2>2 DEF Clear, Leave, Goto, TypeOK, WorkSteps
  <2>4. lock = self[q] /\ self[q] # NoOp
    BY <1>0, <2>3 DEF Owned, Identity, OwnerSteps
  <2>5. self[q] = seen[p].op /\ pc[p] \in RecoverySteps
    BY <2>1, <2>2, <2>4 DEF Clear, RecoverySteps
  <2> QED
    BY <1>0, <2>3, <2>4, <2>5 DEF Over, WorkSteps
<1>6. Noted'
  BY <1>0 DEF Clear, Goto, Leave, Noted, TypeOK, NoRecord, Record
<1> QED
  BY <1>1, <1>2, <1>3, <1>4, <1>5, <1>6 DEF IInv

LEMMA RequestCancelInv == ASSUME IInv, NEW p \in Procs, RequestCancel(p) PROVE IInv'
<1>0. TypeOK /\ Identity /\ Begun /\ Over /\ Owned /\ Noted
  BY DEF IInv
<1>1. TypeOK'
  BY <1>0, BoundAssumption, AuthorityType DEF RequestCancel, Goto, Leave, Cancellable, TypeOK, RemoveLock, Foreign, Record, Records, NoRecord, NoRequest, Statuses, Ops, Procs, OwnerSteps, WorkSteps, RecoverySteps, CancelSteps
<1>2. Identity'
  BY <1>0, <1>1 DEF RequestCancel, Goto, Leave, Cancellable, TypeOK, Identity, Ops, OwnerSteps, WorkSteps, RecoverySteps, CancelSteps
<1>3. Begun'
  BY <1>0, <1>1 DEF RequestCancel, Goto, Leave, Cancellable, TypeOK, Begun, PastLink, Identity, RemoveLock, Record, Records, NoRecord, OwnerSteps, WorkSteps
<1>4. Over'
  BY <1>0, <1>1 DEF RequestCancel, Goto, Leave, Cancellable, TypeOK, Over, Begun, Identity, PastLink, OwnerSteps, WorkSteps, RecoverySteps, CancelSteps, NoRecord, Record
<1>5. Owned'
  BY <1>0, <1>1 DEF RequestCancel, Goto, Leave, Cancellable, TypeOK, Owned, Over, Begun, Identity, PastLink, OwnerSteps, WorkSteps, RecoverySteps, CancelSteps, RemoveLock, Foreign, Record
<1>6. Noted'
  BY <1>0 DEF RequestCancel, Goto, Leave, Noted, TypeOK, NoRecord, Record
<1> QED
  BY <1>1, <1>2, <1>3, <1>4, <1>5, <1>6 DEF IInv

LEMMA WithdrawRequestInv == ASSUME IInv, NEW p \in Procs, WithdrawRequest(p) PROVE IInv'
<1>0. TypeOK /\ Identity /\ Begun /\ Over /\ Owned /\ Noted
  BY DEF IInv
<1>1. TypeOK'
  BY <1>0, BoundAssumption, AuthorityType DEF WithdrawRequest, Goto, Leave, TypeOK, RemoveLock, Foreign, Record, Records, NoRecord, NoRequest, Statuses, Ops, Procs, OwnerSteps, WorkSteps, RecoverySteps, CancelSteps
<1>2. Identity'
  BY <1>0, <1>1 DEF WithdrawRequest, Goto, Leave, TypeOK, Identity, Ops, OwnerSteps, WorkSteps, RecoverySteps, CancelSteps
<1>3. Begun'
  BY <1>0, <1>1 DEF WithdrawRequest, Goto, Leave, TypeOK, Begun, PastLink, Identity, RemoveLock, Record, Records, NoRecord, OwnerSteps, WorkSteps
<1>4. Over'
  BY <1>0, <1>1 DEF WithdrawRequest, Goto, Leave, TypeOK, Over, Begun, Identity, PastLink, OwnerSteps, WorkSteps, RecoverySteps, CancelSteps, NoRecord, Record
<1>5. Owned'
  BY <1>0, <1>1 DEF WithdrawRequest, Goto, Leave, TypeOK, Owned, Over, Begun, Identity, PastLink, OwnerSteps, WorkSteps, RecoverySteps, CancelSteps, RemoveLock, Foreign, Record
<1>6. Noted'
  BY <1>0 DEF WithdrawRequest, Goto, Leave, Noted, TypeOK, NoRecord, Record
<1> QED
  BY <1>1, <1>2, <1>3, <1>4, <1>5, <1>6 DEF IInv

LEMMA SignalInv == ASSUME IInv, NEW p \in Procs, Signal(p) PROVE IInv'
<1>0. TypeOK /\ Identity /\ Begun /\ Over /\ Owned /\ Noted
  BY DEF IInv
<1>1. TypeOK'
  <2>1. checkpoint.op \in Ops \cup {NoOp} /\ checkpoint.child \in 0..MaxChildren
    BY <1>0 DEF TypeOK, Records
  <2>2. CASE Cancellable /\ SameChild(p)
    <3>1. request' = [op |-> checkpoint.op, child |-> checkpoint.child, signalled |-> TRUE]
          /\ pc' = [pc EXCEPT ![p] = "read"] /\ UNCHANGED <<self, seen, spawned>>
      BY <2>2 DEF Signal, Goto
    <3>2. request' \in [op : Ops \cup {NoOp}, child : 0..MaxChildren, signalled : BOOLEAN]
      BY <2>1, <3>1
    <3>3. pc' \in [Procs -> {"idle"} \cup OwnerSteps \cup RecoverySteps \cup CancelSteps]
      BY <1>0, <3>1 DEF TypeOK, CancelSteps
    <3> QED
      BY <1>0, <3>1, <3>2, <3>3 DEF Signal, TypeOK
  <2>3. CASE ~(Cancellable /\ SameChild(p))
    <3>1. Record(NoOp, "completed", 0) \in Records
      BY BoundAssumption DEF Record, Records, Statuses
    <3> QED
      BY <1>0, <2>3, <3>1, BoundAssumption DEF Signal, Leave, Goto, TypeOK, NoRecord
  <2> QED
    BY <2>2, <2>3
<1>2. Identity'
  BY <1>0, <1>1 DEF Signal, Goto, Leave, Cancellable, SameChild, TypeOK, Identity, Ops, OwnerSteps, WorkSteps, RecoverySteps, CancelSteps
<1>3. Begun'
  <2>1. CASE Cancellable /\ SameChild(p)
    <3>1. pc' = [pc EXCEPT ![p] = "read"] /\ pc[p] = "confirm"
          /\ UNCHANGED <<checkpoint, lock, self, seen, started>>
      BY <2>1 DEF Signal, Goto
    <3>2. \A q \in Procs : pc'[q] = pc[q] \/ (pc[q] = "confirm" /\ pc'[q] = "read")
      BY <1>0, <3>1 DEF TypeOK
    <3> QED
      BY <1>0, <3>1, <3>2 DEF Begun, PastLink, WorkSteps
  <2>2. CASE ~(Cancellable /\ SameChild(p))
    BY <1>0, <1>1, <2>2 DEF Signal, Goto, Leave, TypeOK, Begun, PastLink, NoRecord, Record, WorkSteps
  <2> QED
    BY <2>1, <2>2
<1>4. Over'
  BY <1>0, <1>1 DEF Signal, Goto, Leave, Cancellable, SameChild, TypeOK, Over, Begun, Identity, PastLink, OwnerSteps, WorkSteps, RecoverySteps, CancelSteps, NoRecord, Record
<1>5. Owned'
  BY <1>0, <1>1 DEF Signal, Goto, Leave, Cancellable, SameChild, TypeOK, Owned, Over, Begun, Identity, PastLink, OwnerSteps, WorkSteps, RecoverySteps, CancelSteps, RemoveLock, Foreign, Record
<1>6. Noted'
  BY <1>0 DEF Signal, Goto, Leave, Noted, TypeOK, NoRecord, Record
<1> QED
  BY <1>1, <1>2, <1>3, <1>4, <1>5, <1>6 DEF IInv

LEMMA ReadCheckpointInv == ASSUME IInv, NEW p \in Procs, ReadCheckpoint(p) PROVE IInv'
<1>0. TypeOK /\ Identity /\ Begun /\ Over /\ Owned /\ Noted
  BY DEF IInv
<1>1. TypeOK'
  BY <1>0, BoundAssumption, AuthorityType DEF ReadCheckpoint, Goto, Leave, SameOperation, TypeOK, RemoveLock, Foreign, Record, Records, NoRecord, NoRequest, Statuses, Ops, Procs, OwnerSteps, WorkSteps, RecoverySteps, CancelSteps
<1>2. Identity'
  BY <1>0, <1>1 DEF ReadCheckpoint, Goto, Leave, SameOperation, TypeOK, Identity, Ops, OwnerSteps, WorkSteps, RecoverySteps, CancelSteps
<1>3. Begun'
  <2>1. CASE SameOperation(p) /\ checkpoint.status = "running"
    <3>1. pc' = [pc EXCEPT ![p] = "annotate"] /\ pc[p] = "read"
          /\ seen' = [seen EXCEPT ![p] = checkpoint] /\ UNCHANGED <<checkpoint, lock, self, started>>
      BY <2>1 DEF ReadCheckpoint, Goto
    <3>2. \A q \in Procs : pc'[q] = pc[q] \/ (pc[q] = "read" /\ pc'[q] = "annotate")
      BY <1>0, <3>1 DEF TypeOK
    <3>3. \A q \in Procs : seen'[q] \in {seen[q], checkpoint}
      BY <1>0, <3>1 DEF TypeOK
    <3> QED
      BY <1>0, <3>1, <3>2, <3>3 DEF Begun, PastLink, WorkSteps
  <2>2. CASE ~(SameOperation(p) /\ checkpoint.status = "running")
    BY <1>0, <1>1, <2>2 DEF ReadCheckpoint, Goto, Leave, TypeOK, Begun, PastLink, NoRecord, Record, WorkSteps
  <2> QED
    BY <2>1, <2>2
<1>4. Over'
  BY <1>0, <1>1 DEF ReadCheckpoint, Goto, Leave, SameOperation, TypeOK, Over, Begun, Identity, PastLink, OwnerSteps, WorkSteps, RecoverySteps, CancelSteps, NoRecord, Record
<1>5. Owned'
  BY <1>0, <1>1 DEF ReadCheckpoint, Goto, Leave, SameOperation, TypeOK, Owned, Over, Begun, Identity, PastLink, OwnerSteps, WorkSteps, RecoverySteps, CancelSteps, RemoveLock, Foreign, Record
<1>6. Noted'
  BY <1>0 DEF ReadCheckpoint, Goto, Leave, Noted, TypeOK, NoRecord, Record
<1> QED
  BY <1>1, <1>2, <1>3, <1>4, <1>5, <1>6 DEF IInv

LEMMA AnnotateInv == ASSUME IInv, NEW p \in Procs, Annotate(p) PROVE IInv'
<1>0. TypeOK /\ Identity /\ Begun /\ Over /\ Owned /\ Noted
  BY DEF IInv
<1>1. TypeOK'
  BY <1>0, BoundAssumption, AuthorityType DEF Annotate, Goto, Leave, TypeOK, RemoveLock, Foreign, Record, Records, NoRecord, NoRequest, Statuses, Ops, Procs, OwnerSteps, WorkSteps, RecoverySteps, CancelSteps
<1>2. Identity'
  BY <1>0, <1>1 DEF Annotate, Goto, Leave, TypeOK, Identity, Ops, OwnerSteps, WorkSteps, RecoverySteps, CancelSteps
<1>3. Begun'
  BY <1>0, <1>1 DEF Annotate, Goto, Leave, TypeOK, Begun, PastLink, Identity, RemoveLock, Record, Records, NoRecord, OwnerSteps, WorkSteps
<1>4. Over'
  BY <1>0, <1>1 DEF Annotate, Goto, Leave, TypeOK, Over, Begun, Identity, PastLink, OwnerSteps, WorkSteps, RecoverySteps, CancelSteps, NoRecord, Record
<1>5. Owned'
  <2>1. broken' = (broken \/ lock \notin {seen[p].op, NoOp}) /\ lock' = lock /\ checkpoint' = seen[p]
    BY DEF Annotate, Foreign
  <2>2. SUFFICES ASSUME ~broken', NEW q \in Procs, pc'[q] \in {"rename"} \cup WorkSteps
                 PROVE  /\ lock = self'[q]
                        /\ pc'[q] \in WorkSteps => seen[p].op = self'[q] /\ seen[p].status = "running"
    BY <2>1 DEF Owned
  <2>3. q # p /\ pc[q] = pc'[q] /\ self'[q] = self[q] /\ ~broken
    BY <1>0, <2>1, <2>2 DEF Annotate, Leave, Goto, TypeOK, WorkSteps
  <2>4. lock = self[q] /\ self[q] # NoOp
    BY <1>0, <2>2, <2>3 DEF Owned, Identity, OwnerSteps
  <2>5. seen[p].op = self[q]
    BY <2>1, <2>2, <2>4
  <2>6. seen[p].status = "running"
    BY <1>0 DEF Annotate, Noted
  <2> QED
    BY <2>2, <2>3, <2>4, <2>5, <2>6
<1>6. Noted'
  BY <1>0 DEF Annotate, Goto, Leave, Noted, TypeOK, NoRecord, Record
<1> QED
  BY <1>1, <1>2, <1>3, <1>4, <1>5, <1>6 DEF IInv

LEMMA KillInv == ASSUME IInv, NEW p \in Procs, Kill(p) PROVE IInv'
<1>0. TypeOK /\ Identity /\ Begun /\ Over /\ Owned /\ Noted
  BY DEF IInv
<1>1. TypeOK'
  BY <1>0, BoundAssumption, AuthorityType DEF Kill, Goto, Leave, TypeOK, RemoveLock, Foreign, Record, Records, NoRecord, NoRequest, Statuses, Ops, Procs, OwnerSteps, WorkSteps, RecoverySteps, CancelSteps
<1>2. Identity'
  BY <1>0, <1>1 DEF Kill, Goto, Leave, TypeOK, Identity, Ops, OwnerSteps, WorkSteps, RecoverySteps, CancelSteps
<1>3. Begun'
  BY <1>0, <1>1 DEF Kill, Goto, Leave, TypeOK, Begun, PastLink, Identity, RemoveLock, Record, Records, NoRecord, OwnerSteps, WorkSteps
<1>4. Over'
  BY <1>0, <1>1 DEF Kill, Goto, Leave, TypeOK, Over, Begun, Identity, PastLink, OwnerSteps, WorkSteps, RecoverySteps, CancelSteps, NoRecord, Record
<1>5. Owned'
  BY <1>0, <1>1 DEF Kill, Goto, Leave, TypeOK, Owned, Over, Begun, Identity, PastLink, OwnerSteps, WorkSteps, RecoverySteps, CancelSteps, RemoveLock, Foreign, Record
<1>6. Noted'
  BY <1>0 DEF Kill, Goto, Leave, Noted, TypeOK, NoRecord, Record
<1> QED
  BY <1>1, <1>2, <1>3, <1>4, <1>5, <1>6 DEF IInv

LEMMA ChildEndsInv == ASSUME IInv, NEW c, ChildEnds(c) PROVE IInv'
BY DEF IInv, ChildEnds, TypeOK, Identity, Begun, Over, Owned, Noted, PastLink

\* The invariant is inductive.
LEMMA NextInv == ASSUME IInv, [Next]_vars PROVE IInv'
<1>1. CASE UNCHANGED vars
  BY <1>1 DEF vars, IInv, TypeOK, Identity, Begun, Over, Owned, Noted, PastLink
<1>2. CASE \E p \in Procs : Operate(p)
  BY <1>2, PrepareInv, AcquireInv, AcquireRefusedInv, PublishCheckpointInv, PublishFailsInv, SpawnInv,
     RecordChildInv, CommandReturnsInv, ConcludeInv, ConcludeFailsInv, ReleaseInv DEF Operate
<1>3. CASE \E p \in Procs : Reconcile(p)
  BY <1>3, InspectStaleInv, RecheckInv, RewriteInv, ClearInv DEF Reconcile
<1>4. CASE \E p \in Procs : Cancel(p)
  BY <1>4, RequestCancelInv, WithdrawRequestInv, SignalInv, ReadCheckpointInv, AnnotateInv DEF Cancel
<1>5. CASE \E p \in Procs : Kill(p)
  BY <1>5, KillInv
<1>6. CASE \E c \in children : ChildEnds(c)
  BY <1>6, ChildEndsInv
<1> QED
  BY <1>1, <1>2, <1>3, <1>4, <1>5, <1>6 DEF Next

\* Every reachable state satisfies the inductive invariant.
THEOREM Invariance == Spec => []IInv
<1>1. Init => IInv
  BY InitialInv
<1>2. IInv /\ [Next]_vars => IInv'
  BY NextInv
<1> QED
  BY <1>1, <1>2, PTL DEF Spec

\* The files, the lock and the steps of all processes keep their types.
THEOREM TypeCorrect == Spec => []TypeOK
<1>1. IInv => TypeOK
  BY DEF IInv
<1> QED
  BY <1>1, Invariance, PTL

\* Two operations never work on one cycle at once, unless a file of another
\* operation was overwritten or removed.
THEOREM ExclusiveWork == Spec => []ExclusiveUnlessBroken
<1>1. IInv => ExclusiveUnlessBroken
  BY DEF IInv, Owned, ExclusiveUnlessBroken, Lease!ExclusiveUnlessBroken, Working
<1> QED
  BY <1>1, Invariance, PTL

----------------------------------------------------------------------------
(* The refinement. *)

\* Once the lease is broken, any step with the right types is allowed.
LEMMA BrokenStep ==
  ASSUME IInv', broken', lock # NoOp \/ broken
  PROVE  Lease!LeaseNext
<1>1. lock' \in Ops \cup {NoOp} /\ Working' \in SUBSET Ops
  BY DEF IInv, TypeOK, Identity, Working, OwnerSteps, WorkSteps
<1> QED
  BY <1>1 DEF Lease!LeaseNext, Lease!Break

\* A process that is not at work before nor after a step leaves Working as it is.
LEMMA SameWorking ==
  ASSUME NEW p \in Procs, \A q \in Procs : q # p => pc'[q] = pc[q] /\ self'[q] = self[q],
         \/ pc[p] \notin WorkSteps /\ pc'[p] \notin WorkSteps
         \/ pc[p] \in WorkSteps /\ pc'[p] \in WorkSteps /\ self'[p] = self[p]
  PROVE  Working' = Working
BY DEF Working

\* A process that stops working takes its own operation out of Working.
LEMMA LessWorking ==
  ASSUME IInv, NEW p \in Procs, \A q \in Procs : q # p => pc'[q] = pc[q] /\ self'[q] = self[q],
         pc[p] \in WorkSteps, pc'[p] \notin WorkSteps
  PROVE  self[p] \in Working /\ Working' = Working \ {self[p]} /\ self[p] \in Ops
<1>1. self[p] \in Ops
  BY DEF IInv, TypeOK, Identity, OwnerSteps
<1>2. \A q \in Procs : q # p => self[q] # self[p]
  BY <1>1 DEF IInv, Identity, Ops
<1> QED
  BY <1>1, <1>2 DEF Working

\* Only the process of a step moves.
LEMMA OthersStay ==
  ASSUME IInv, NEW p \in Procs, Operate(p) \/ Reconcile(p) \/ Cancel(p) \/ Kill(p)
  PROVE  \A q \in Procs : q # p => pc'[q] = pc[q] /\ self'[q] = self[q]
BY DEF IInv, TypeOK, Operate, Prepare, Acquire, AcquireRefused, PublishCheckpoint, PublishFails, Spawn,
   RecordChild, CommandReturns, Conclude, ConcludeFails, Release, Reconcile, InspectStale, Recheck,
   Rewrite, Clear, Cancel, RequestCancel, WithdrawRequest, Signal, ReadCheckpoint, Annotate, Kill,
   Goto, Leave

\* Removing the lock frees the lease of an operation that works no more, or
\* breaks it.
LEMMA RemovalStep ==
  ASSUME IInv, IInv', NEW o \in Ops \cup {NoOp}, RemoveLock(o), Working' = Working,
         ~broken => o \notin Working
  PROVE  [Lease!LeaseNext]_(Lease!leaseVars)
<1>1. CASE broken'
  BY <1>1, BrokenStep DEF RemoveLock, Foreign
<1>2. CASE ~broken' /\ lock = NoOp
  <2>1. lock' = lock /\ broken' = broken
    BY <1>2 DEF RemoveLock, IInv, TypeOK
  <2> QED
    BY <2>1 DEF Lease!leaseVars
<1>3. CASE ~broken' /\ lock # NoOp
  <2>1. lock = o /\ ~broken /\ broken' = broken /\ lock' = NoOp
    BY <1>3 DEF RemoveLock, Foreign, IInv, TypeOK
  <2> QED
    BY <2>1, <1>3 DEF Lease!LeaseNext, Lease!Free
<1> QED
  BY <1>1, <1>2, <1>3

LEMMA OperateStep ==
  ASSUME IInv, IInv', NEW p \in Procs, Operate(p)
  PROVE  [Lease!LeaseNext]_(Lease!leaseVars)
<1>0. TypeOK /\ Identity /\ Begun /\ Over /\ Owned
  BY DEF IInv
<1>1. \A q \in Procs : q # p => pc'[q] = pc[q] /\ self'[q] = self[q]
  BY OthersStay
<1>2. ASSUME Prepare(p) \/ AcquireRefused(p) \/ Spawn(p) \/ RecordChild(p) \/ CommandReturns(p)
      PROVE  UNCHANGED Lease!leaseVars
  <2>1. lock' = lock /\ broken' = broken
    BY <1>2 DEF Prepare, AcquireRefused, Spawn, RecordChild, CommandReturns
  <2>2. \/ pc[p] \notin WorkSteps /\ pc'[p] \notin WorkSteps
        \/ pc[p] \in WorkSteps /\ pc'[p] \in WorkSteps /\ self'[p] = self[p]
    BY <1>0, <1>2 DEF Prepare, AcquireRefused, Spawn, RecordChild, CommandReturns, Goto, Leave, TypeOK, WorkSteps
  <2>3. Working' = Working
    BY <1>1, <2>2, SameWorking
  <2> QED
    BY <2>1, <2>3 DEF Lease!leaseVars
<1>3. ASSUME Acquire(p) PROVE Lease!LeaseNext
  <2>1. pc[p] = "link" /\ pc'[p] = "rename" /\ lock = NoOp /\ lock' = self[p] /\ broken' = broken
    BY <1>0, <1>3 DEF Acquire, LockTaken, Goto, TypeOK
  <2>2. Working' = Working
    BY <1>1, <2>1, SameWorking DEF WorkSteps
  <2>3. self[p] \in Ops
    BY <1>0, <2>1 DEF Identity, TypeOK, OwnerSteps
  <2> QED
    BY <2>1, <2>2, <2>3 DEF Lease!LeaseNext, Lease!Take
<1>4. ASSUME PublishCheckpoint(p) PROVE Lease!LeaseNext
  <2>1. pc[p] = "rename" /\ pc'[p] = "work" /\ self'[p] = self[p] /\ lock' = lock /\ broken' = broken
    BY <1>0, <1>4 DEF PublishCheckpoint, Goto, TypeOK
  <2>2. self[p] \in Ops
    BY <1>0, <2>1 DEF Identity, TypeOK, OwnerSteps
  <2>3. self[p] \notin Working /\ Working' = Working \cup {self[p]}
    <3>1. \A q \in Procs : q # p => self[q] # self[p]
      BY <1>0, <2>2 DEF Identity, Ops
    <3> QED
      BY <1>1, <2>1, <3>1 DEF Working, WorkSteps
  <2>4. CASE broken
    BY <2>1, <2>4, BrokenStep
  <2>5. CASE ~broken
    <3>1. lock = self[p]
      BY <1>0, <2>1, <2>5 DEF Owned
    <3> QED
      BY <2>1, <2>2, <2>3, <3>1 DEF Lease!LeaseNext, Lease!Begin
  <2> QED
    BY <2>4, <2>5
<1>5. ASSUME Conclude(p) \/ ConcludeFails(p) PROVE Lease!LeaseNext
  <2>1. pc[p] \in WorkSteps /\ pc'[p] \notin WorkSteps /\ lock' = lock /\ broken' = broken
    BY <1>0, <1>5 DEF Conclude, ConcludeFails, Goto, Leave, TypeOK, WorkSteps
  <2> QED
    BY <1>1, <2>1, LessWorking DEF Lease!LeaseNext, Lease!Finish
<1>6. ASSUME Release(p) \/ PublishFails(p) PROVE [Lease!LeaseNext]_(Lease!leaseVars)
  <2>1. pc[p] \in {"release", "rename"} /\ pc'[p] \notin WorkSteps /\ RemoveLock(self[p])
    BY <1>0, <1>6 DEF Release, PublishFails, Goto, Leave, TypeOK, WorkSteps
  <2>2. self[p] \in Ops /\ \A q \in Procs : q # p => self[q] # self[p]
    BY <1>0, <2>1 DEF Identity, TypeOK, OwnerSteps
  <2>3. Working' = Working /\ self[p] \notin Working
    BY <1>1, <2>1, <2>2, SameWorking DEF Working, WorkSteps
  <2> QED
    BY <2>1, <2>2, <2>3, RemovalStep
<1> QED
  BY <1>2, <1>3, <1>4, <1>5, <1>6 DEF Operate

LEMMA ReconcileStep ==
  ASSUME IInv, IInv', NEW p \in Procs, Reconcile(p)
  PROVE  [Lease!LeaseNext]_(Lease!leaseVars)
<1>0. TypeOK /\ Identity /\ Begun /\ Over /\ Owned
  BY DEF IInv
<1>1. \A q \in Procs : q # p => pc'[q] = pc[q] /\ self'[q] = self[q]
  BY OthersStay
<1>2. pc[p] \notin WorkSteps /\ pc'[p] \notin WorkSteps
  BY <1>0 DEF Reconcile, InspectStale, Recheck, Rewrite, Clear, Goto, Leave, TypeOK, WorkSteps
<1>3. Working' = Working
  BY <1>1, <1>2, SameWorking
<1>4. ASSUME InspectStale(p) \/ Recheck(p) PROVE UNCHANGED Lease!leaseVars
  BY <1>3, <1>4 DEF InspectStale, Recheck, Lease!leaseVars
<1>5. ASSUME Rewrite(p) PROVE [Lease!LeaseNext]_(Lease!leaseVars)
  <2>1. lock' = lock /\ broken' = (broken \/ Foreign(seen[p].op))
    BY <1>5 DEF Rewrite
  <2>2. CASE broken'
    BY <2>1, <2>2, BrokenStep DEF Foreign
  <2>3. CASE ~broken'
    BY <1>0, <2>1, <2>3, <1>3 DEF Lease!leaseVars, TypeOK
  <2> QED
    BY <2>2, <2>3
<1>6. ASSUME Clear(p) PROVE [Lease!LeaseNext]_(Lease!leaseVars)
  <2>1. RemoveLock(seen[p].op) /\ pc[p] \in RecoverySteps
    BY <1>6 DEF Clear, RecoverySteps
  <2>2. seen[p].op \in Ops \cup {NoOp}
    BY <1>0 DEF TypeOK, Records
  <2>3. ~broken => seen[p].op \notin Working
    BY <1>0, <2>1 DEF Over, Working, WorkSteps, Identity, OwnerSteps
  <2> QED
    BY <1>3, <2>1, <2>2, <2>3, RemovalStep
<1> QED
  BY <1>4, <1>5, <1>6 DEF Reconcile

LEMMA CancelStep ==
  ASSUME IInv, IInv', NEW p \in Procs, Cancel(p)
  PROVE  [Lease!LeaseNext]_(Lease!leaseVars)
<1>0. TypeOK /\ Identity /\ Begun /\ Over /\ Owned
  BY DEF IInv
<1>1. \A q \in Procs : q # p => pc'[q] = pc[q] /\ self'[q] = self[q]
  BY OthersStay
<1>2. pc[p] \notin WorkSteps /\ pc'[p] \notin WorkSteps
  BY <1>0 DEF Cancel, RequestCancel, WithdrawRequest, Signal, ReadCheckpoint, Annotate, Goto, Leave, TypeOK, WorkSteps
<1>3. Working' = Working
  BY <1>1, <1>2, SameWorking
<1>4. lock' = lock /\ (broken' = broken \/ broken' = (broken \/ Foreign(seen[p].op)))
  BY DEF Cancel, RequestCancel, WithdrawRequest, Signal, ReadCheckpoint, Annotate
<1>5. CASE broken'
  BY <1>4, <1>5, BrokenStep DEF Foreign
<1>6. CASE ~broken'
  BY <1>0, <1>3, <1>4, <1>6 DEF Lease!leaseVars, TypeOK
<1> QED
  BY <1>5, <1>6

LEMMA KillStep ==
  ASSUME IInv, IInv', NEW p \in Procs, Kill(p)
  PROVE  [Lease!LeaseNext]_(Lease!leaseVars)
<1>0. TypeOK
  BY DEF IInv
<1>1. \A q \in Procs : q # p => pc'[q] = pc[q] /\ self'[q] = self[q]
  BY OthersStay
<1>2. pc'[p] \notin WorkSteps /\ lock' = lock /\ broken' = broken
  BY <1>0 DEF Kill, Leave, Goto, TypeOK, WorkSteps
<1>3. CASE pc[p] \in WorkSteps
  BY <1>1, <1>2, <1>3, LessWorking DEF Lease!LeaseNext, Lease!Finish
<1>4. CASE pc[p] \notin WorkSteps
  BY <1>1, <1>2, <1>4, SameWorking DEF Lease!leaseVars
<1> QED
  BY <1>3, <1>4

LEMMA RefinedStep ==
  ASSUME IInv, IInv', [Next]_vars
  PROVE  [Lease!LeaseNext]_(Lease!leaseVars)
<1>1. CASE UNCHANGED vars \/ \E c \in children : ChildEnds(c)
  BY <1>1 DEF vars, ChildEnds, Lease!leaseVars, Working
<1>2. CASE \E p \in Procs : Operate(p) \/ Reconcile(p) \/ Cancel(p) \/ Kill(p)
  BY <1>2, OperateStep, ReconcileStep, CancelStep, KillStep
<1> QED
  BY <1>1, <1>2 DEF Next

\* The files implement the lease: an operation begins only on a free lease,
\* and only the lease of an operation that works no more is freed, up to the
\* step that breaks it.
THEOREM FilesImplementLease == Spec => ImplementsLease
<1>1. Init => Lease!LeaseInit
  BY DEF Init, Lease!LeaseInit, Working, WorkSteps
<1>2. IInv /\ IInv' /\ [Next]_vars => [Lease!LeaseNext]_(Lease!leaseVars)
  BY RefinedStep
<1> QED
  BY <1>1, <1>2, Invariance, PTL DEF Spec, ImplementsLease, Lease!LeaseSpec

----------------------------------------------------------------------------
(* The commands that outlive their operation. *)

\* A command belongs to an operation that was prepared.
ChildrenBegun == \A c \in children : c.op <= started

\* The command of a live operation is the last it ran, and is being recorded or
\* waited for.
Attended ==
  ~broken => \A p \in Procs, c \in children :
    self[p] = c.op => pc[p] \in {"record", "wait"} /\ c.n = spawned[p]

\* A command that outlives its operation is the one that the running record in
\* the checkpoint names, and that record holds the lease.
Orphaned ==
  ~broken => \A c \in children :
    c \notin escaped /\ ~Alive(c.op) =>
      /\ lock = c.op /\ checkpoint.op = c.op
      /\ checkpoint.status = "running" /\ checkpoint.child = c.n

\* A recovery is not at work on an operation with a command that a record names.
Recovered ==
  ~broken => \A p \in Procs, c \in children :
    pc[p] \in RecoverySteps /\ c.op = seen[p].op => c \in escaped

ChildInv == IInv /\ ChildrenBegun /\ Attended /\ Orphaned /\ Recovered

\* What a child is.
LEMMA ChildType ==
  ASSUME TypeOK, NEW c \in children
  PROVE  c.op \in Ops /\ c.op # NoOp /\ c.n \in 1..MaxChildren /\ c = [op |-> c.op, n |-> c.n]
BY DEF TypeOK, Ops

\* A broken lease stays broken, and an escaped child that is alive stays escaped.
LEMMA BrokenForEver ==
  ASSUME TypeOK, [Next]_vars
  PROVE  broken => broken'
BY DEF TypeOK, Next, vars, Operate, Prepare, Acquire, AcquireRefused, PublishCheckpoint, PublishFails,
   Spawn, RecordChild, CommandReturns, Conclude, ConcludeFails, Release, Reconcile, InspectStale,
   Recheck, Rewrite, Clear, Cancel, RequestCancel, WithdrawRequest, Signal, ReadCheckpoint, Annotate,
   Kill, ChildEnds, RemoveLock

LEMMA EscapedForEver ==
  ASSUME TypeOK, [Next]_vars, NEW c \in children', c \in escaped
  PROVE  c \in escaped'
BY DEF TypeOK, Next, vars, Operate, Prepare, Acquire, AcquireRefused, PublishCheckpoint, PublishFails,
   Spawn, RecordChild, CommandReturns, Conclude, ConcludeFails, Release, Reconcile, InspectStale,
   Recheck, Rewrite, Clear, Cancel, RequestCancel, WithdrawRequest, Signal, ReadCheckpoint, Annotate,
   Kill, ChildEnds, RemoveLock, Leave

\* Only a spawn adds a child.
LEMMA ChildStep ==
  ASSUME TypeOK, [Next]_vars, NEW c \in children', c \notin children
  PROVE  \E p \in Procs : Spawn(p) /\ c = [op |-> self[p], n |-> spawned[p] + 1]
BY DEF TypeOK, Next, vars, Operate, Prepare, Acquire, AcquireRefused, PublishCheckpoint, PublishFails,
   Spawn, RecordChild, CommandReturns, Conclude, ConcludeFails, Release, Reconcile, InspectStale,
   Recheck, Rewrite, Clear, Cancel, RequestCancel, WithdrawRequest, Signal, ReadCheckpoint, Annotate,
   Kill, ChildEnds, RemoveLock, Leave

\* A process changes the operation it runs only in Prepare, or by leaving.
LEMMA SelfStep ==
  ASSUME TypeOK, [Next]_vars, NEW p \in Procs, self'[p] # self[p]
  PROVE  \/ Prepare(p) /\ self'[p] = started + 1
         \/ self'[p] = NoOp /\ pc'[p] = "idle"
<1>1. ASSUME NEW q \in Procs, Leave(q) PROVE self'[p] = NoOp /\ pc'[p] = "idle"
  BY <1>1 DEF Leave, Goto, TypeOK
<1>2. CASE UNCHANGED self
  BY <1>2
<1>3. ASSUME NEW q \in Procs, Prepare(q) PROVE Prepare(p) /\ self'[p] = started + 1
  BY <1>3 DEF Prepare, TypeOK
<1> QED
  BY <1>1, <1>2, <1>3
  DEF Next, vars, Operate, Acquire, AcquireRefused, PublishCheckpoint, PublishFails,
      Spawn, RecordChild, CommandReturns, Conclude, ConcludeFails, Release, Reconcile, InspectStale,
      Recheck, Rewrite, Clear, Cancel, RequestCancel, WithdrawRequest, Signal, ReadCheckpoint, Annotate,
      Kill, ChildEnds

\* So the operation of a child is not taken up again once its process is gone.
LEMMA DeadStaysDead ==
  ASSUME IInv, ChildrenBegun, [Next]_vars, NEW c \in children, ~Alive(c.op)
  PROVE  ~(Alive(c.op))'
<1>0. TypeOK
  BY DEF IInv
<1>1. ASSUME NEW p \in Procs, self'[p] = c.op PROVE FALSE
  <2>1. self[p] # c.op
    BY DEF Alive
  <2>2. c.op <= started /\ c.op \in Ops /\ c.op # NoOp /\ started \in Nat
    BY <1>0, ChildType, BoundAssumption DEF ChildrenBegun, TypeOK
  <2> QED
    BY <1>0, <1>1, <2>1, <2>2, SelfStep DEF Ops
<1> QED
  BY <1>1 DEF Alive

LEMMA ChildrenBegunStep ==
  ASSUME IInv, IInv', ChildrenBegun, [Next]_vars
  PROVE  ChildrenBegun'
<1>0. TypeOK /\ TypeOK' /\ Identity
  BY DEF IInv
<1>1. started \in Nat /\ started' \in Nat /\ started <= started'
  <2>1. started' = started \/ started' = started + 1
    BY DEF Next, vars, Operate, Prepare, Acquire, AcquireRefused, PublishCheckpoint, PublishFails,
      Spawn, RecordChild, CommandReturns, Conclude, ConcludeFails, Release, Reconcile, InspectStale,
      Recheck, Rewrite, Clear, Cancel, RequestCancel, WithdrawRequest, Signal, ReadCheckpoint, Annotate,
      Kill, ChildEnds
  <2>2. started \in Nat
    BY <1>0, BoundAssumption DEF TypeOK
  <2> QED
    BY <2>1, <2>2
<1>2. ASSUME NEW c \in children' PROVE c.op <= started'
  <2>1. CASE c \in children
    <3>1. c.op \in Nat
      BY <1>0, <2>1, ChildType DEF Ops
    <3> QED
      BY <1>1, <2>1, <3>1 DEF ChildrenBegun
  <2>2. ASSUME NEW p \in Procs, c = [op |-> self[p], n |-> spawned[p] + 1] PROVE c.op <= started'
    <3>1. self[p] \in Nat /\ self[p] <= started /\ c.op = self[p]
      BY <1>0, <2>2 DEF TypeOK, Ops, Identity
    <3> QED
      BY <1>1, <3>1
  <2> QED
    BY <1>0, <2>1, <2>2, ChildStep
<1> QED
  BY <1>2 DEF ChildrenBegun

\* Between two steps of a process that is not its own, nothing it holds changes.
LEMMA HeldStep ==
  ASSUME TypeOK, [Next]_vars, NEW p \in Procs
  PROVE  \/ self'[p] = self[p] /\ pc'[p] = pc[p] /\ spawned'[p] = spawned[p]
         \/ Spawn(p) \/ RecordChild(p) \/ CommandReturns(p)
         \/ self'[p] = NoOp
         \/ Prepare(p) /\ self'[p] = started + 1
         \/ pc[p] \notin {"record", "wait"} /\ self'[p] = self[p]
<1>1. ASSUME NEW q \in Procs, Leave(q), q = p PROVE self'[p] = NoOp
  BY <1>1 DEF Leave, TypeOK
<1>2. ASSUME NEW q \in Procs, q # p, Operate(q) \/ Reconcile(q) \/ Cancel(q) \/ Kill(q)
      PROVE  self'[p] = self[p] /\ pc'[p] = pc[p] /\ spawned'[p] = spawned[p]
  BY <1>2
  DEF TypeOK, Operate, Prepare, Acquire, AcquireRefused, PublishCheckpoint, PublishFails, Spawn,
   RecordChild, CommandReturns, Conclude, ConcludeFails, Release, Reconcile, InspectStale, Recheck,
   Rewrite, Clear, Cancel, RequestCancel, WithdrawRequest, Signal, ReadCheckpoint, Annotate, Kill,
   Goto, Leave
<1>3. ASSUME Operate(p) \/ Reconcile(p) \/ Cancel(p) \/ Kill(p)
      PROVE  \/ Leave(p) \/ Spawn(p) \/ RecordChild(p) \/ CommandReturns(p)
             \/ Prepare(p)
             \/ pc[p] \notin {"record", "wait"} /\ self' = self
  BY <1>3
  DEF Operate, Acquire, AcquireRefused, PublishCheckpoint, PublishFails,
   Conclude, ConcludeFails, Release, Reconcile, InspectStale, Recheck,
   Rewrite, Clear, Cancel, RequestCancel, WithdrawRequest, Signal, ReadCheckpoint, Annotate, Kill
<1>4. Prepare(p) => self'[p] = started + 1
  BY DEF Prepare, TypeOK
<1>5. CASE UNCHANGED <<self, pc, spawned>>
  BY <1>5
<1> QED
  BY <1>1, <1>2, <1>3, <1>4, <1>5 DEF Next, vars, ChildEnds

LEMMA AttendedStep ==
  ASSUME IInv, IInv', ChildrenBegun, Attended, [Next]_vars
  PROVE  Attended'
<1>0. TypeOK /\ TypeOK' /\ Identity /\ Owned /\ (~broken' => ~broken)
  BY BrokenForEver DEF IInv
<1> SUFFICES ASSUME ~broken', NEW p \in Procs, NEW c \in children', self'[p] = c.op
             PROVE  pc'[p] \in {"record", "wait"} /\ c.n = spawned'[p]
  BY DEF Attended
<1>1. CASE c \notin children
  <2>1. PICK q \in Procs : Spawn(q) /\ c = [op |-> self[q], n |-> spawned[q] + 1]
    BY <1>0, <1>1, ChildStep
  <2>2. self' = self /\ c.op = self[q] /\ c.n = spawned[q] + 1 /\ self[q] \in Ops
    <3>1. c.op \in Ops
      BY <1>0 DEF TypeOK
    <3> QED
      BY <2>1, <3>1 DEF Spawn
  <2>3. p = q
    BY <1>0, <2>2 DEF Identity, Ops
  <2> QED
    BY <1>0, <2>1, <2>2, <2>3 DEF Spawn, Goto, TypeOK
<1>2. CASE c \in children
  <2>1. c.op # NoOp /\ c.op \in Nat /\ c.op <= started /\ started \in Nat
    BY <1>0, <1>2, ChildType, BoundAssumption DEF ChildrenBegun, TypeOK, Ops
  <2>2. ~(Prepare(p) /\ self'[p] = started + 1) /\ self'[p] # NoOp
    BY <2>1
  <2>3. self[p] = c.op => pc[p] \in {"record", "wait"} /\ c.n = spawned[p]
    BY <1>0, <1>2 DEF Attended
  <2>4. ASSUME Spawn(p) PROVE FALSE
    BY <1>0, <2>3, <2>4 DEF Spawn
  <2>5. ASSUME CommandReturns(p) PROVE FALSE
    <3>1. self[p] = c.op /\ spawned[p] = c.n /\ [op |-> self[p], n |-> spawned[p]] \notin children
      BY <2>3, <2>5 DEF CommandReturns
    <3> QED
      BY <1>0, <1>2, <3>1, ChildType
  <2>6. CASE RecordChild(p)
    <3>1. OwnCheckpoint(p)
      BY <1>0, <2>6 DEF RecordChild, Owned, OwnCheckpoint, WorkSteps
    <3> QED
      BY <1>0, <2>3, <2>6, <3>1 DEF RecordChild, Goto, TypeOK
  <2> QED
    BY <1>0, <2>2, <2>3, <2>4, <2>5, <2>6, HeldStep
<1> QED
  BY <1>1, <1>2

\* What an inspection finds stale has no command left that a record names.
LEMMA StaleIsChildless ==
  ASSUME ChildInv, Disposition = "stale", ~broken, NEW c \in children, c.op = Authority.op
  PROVE  c \in escaped
<1>0. TypeOK /\ Identity /\ Begun /\ Over /\ Owned /\ Noted
  BY DEF ChildInv, IInv
<1>1. c.op \in Ops /\ c.op # NoOp /\ c = [op |-> c.op, n |-> c.n]
  BY <1>0, ChildType
<1>2. ~Alive(c.op)
  <2> SUFFICES ASSUME NEW q \in Procs, self[q] = c.op PROVE FALSE
    BY DEF Alive
  <2>1. pc[q] = "release"
    BY <1>1, StaleIsOver DEF ChildInv
  <2> QED
    BY <2>1 DEF ChildInv, Attended
<1>3. ASSUME c \notin escaped PROVE FALSE
  <2>1. /\ lock = c.op /\ checkpoint.op = c.op
        /\ checkpoint.status = "running" /\ checkpoint.child = c.n
    BY <1>2, <1>3 DEF ChildInv, Orphaned
  <2>2. Authority = checkpoint
    BY <2>1 DEF Authority
  <2>3. Child(Authority) = c
    BY <1>1, <2>1, <2>2 DEF Child
  <2> QED
    BY <2>1, <2>2, <2>3 DEF Disposition, InUse
<1> QED
  BY <1>3

\* A recovery goes on with the record it has seen.
LEMMA RecoveryStep ==
  ASSUME TypeOK, [Next]_vars, NEW p \in Procs, pc'[p] \in RecoverySteps
  PROVE  InspectStale(p) \/ (pc[p] \in RecoverySteps /\ seen'[p] = seen[p])
<1>1. ASSUME NEW q \in Procs, q # p, Operate(q) \/ Reconcile(q) \/ Cancel(q) \/ Kill(q)
      PROVE  pc'[p] = pc[p] /\ seen'[p] = seen[p]
  BY <1>1
  DEF TypeOK, Operate, Prepare, Acquire, AcquireRefused, PublishCheckpoint, PublishFails, Spawn,
   RecordChild, CommandReturns, Conclude, ConcludeFails, Release, Reconcile, InspectStale, Recheck,
   Rewrite, Clear, Cancel, RequestCancel, WithdrawRequest, Signal, ReadCheckpoint, Annotate, Kill,
   Goto, Leave
<1>2. ASSUME NEW step \in OwnerSteps \cup CancelSteps \cup {"idle"}, Goto(p, step) PROVE FALSE
  BY <1>2 DEF Goto, TypeOK, OwnerSteps, WorkSteps, CancelSteps, RecoverySteps
<1>3. ~Leave(p)
  BY <1>2 DEF Leave
<1>4. ~Operate(p)
  BY <1>2, <1>3
  DEF Operate, Prepare, Acquire, AcquireRefused, PublishCheckpoint, PublishFails, Spawn,
      RecordChild, CommandReturns, Conclude, ConcludeFails, Release, OwnerSteps, WorkSteps
<1>5. ~Cancel(p) /\ ~Kill(p)
  BY <1>2, <1>3 DEF Cancel, RequestCancel, WithdrawRequest, Signal, ReadCheckpoint, Annotate, Kill, CancelSteps
<1>6. ASSUME Reconcile(p), ~InspectStale(p) PROVE pc[p] \in RecoverySteps /\ seen'[p] = seen[p]
  BY <1>3, <1>6 DEF Reconcile, Recheck, Rewrite, Clear, RecoverySteps
<1>7. CASE UNCHANGED <<pc, seen>>
  BY <1>7
<1> QED
  BY <1>1, <1>4, <1>5, <1>6, <1>7 DEF Next, vars, ChildEnds

LEMMA RecoveredStep ==
  ASSUME ChildInv, IInv', [Next]_vars
  PROVE  Recovered'
<1>0. TypeOK /\ TypeOK' /\ Over /\ (~broken' => ~broken)
  BY BrokenForEver DEF ChildInv, IInv
<1> SUFFICES ASSUME ~broken', NEW p \in Procs, NEW c \in children',
                    pc'[p] \in RecoverySteps, c.op = seen'[p].op
             PROVE  c \in escaped'
  BY DEF Recovered
<1>1. CASE c \notin children
  <2>1. PICK q \in Procs : Spawn(q) /\ c = [op |-> self[q], n |-> spawned[q] + 1]
    BY <1>0, <1>1, ChildStep
  <2>2. c.op = self[q] /\ c.op # NoOp
    <3>1. c.op \in Ops
      BY <1>0 DEF TypeOK
    <3> QED
      BY <2>1, <3>1 DEF Ops
  <2>3. p # q /\ pc[p] \in RecoverySteps /\ seen'[p] = seen[p] /\ pc[q] = "work"
    BY <1>0, <2>1 DEF Spawn, Goto, TypeOK, RecoverySteps
  <2> QED
    BY <1>0, <2>2, <2>3 DEF Over
<1>2. CASE c \in children
  <2>1. CASE InspectStale(p)
    <3>1. c.op = Authority.op
      BY <1>0, <2>1 DEF InspectStale, TypeOK
    <3>2. c \in escaped
      BY <1>0, <1>2, <2>1, <3>1, StaleIsChildless DEF InspectStale
    <3> QED
      BY <1>0, <3>2, EscapedForEver
  <2>2. CASE pc[p] \in RecoverySteps /\ seen'[p] = seen[p]
    <3>1. c \in escaped
      BY <1>0, <1>2, <2>2 DEF ChildInv, Recovered
    <3> QED
      BY <1>0, <3>1, EscapedForEver
  <2> QED
    BY <1>0, <2>1, <2>2, RecoveryStep
<1> QED
  BY <1>1, <1>2

LEMMA OrphanedStep ==
  ASSUME ChildInv, IInv', [Next]_vars
  PROVE  Orphaned'
<1>0. TypeOK /\ TypeOK' /\ Identity /\ Owned /\ Noted /\ (~broken' => ~broken)
  BY BrokenForEver DEF ChildInv, IInv
<1> SUFFICES ASSUME ~broken', NEW c \in children', c \notin escaped', ~(Alive(c.op))'
             PROVE  /\ lock' = c.op /\ checkpoint'.op = c.op
                    /\ checkpoint'.status = "running" /\ checkpoint'.child = c.n
  BY DEF Orphaned
<1>1. c \in children
  <2>1. ASSUME NEW q \in Procs, Spawn(q), c = [op |-> self[q], n |-> spawned[q] + 1] PROVE FALSE
    <3>1. c.op = self'[q]
      BY <2>1 DEF Spawn
    <3> QED
      BY <3>1 DEF Alive
  <2> QED
    BY <1>0, <2>1, ChildStep
<1>2. c \notin escaped /\ c.op \in Ops /\ c.op # NoOp /\ c = [op |-> c.op, n |-> c.n] /\ c.n # 0
  BY <1>0, <1>1, EscapedForEver, ChildType
<1>3. CASE ~Alive(c.op)
  <2>1. /\ lock = c.op /\ checkpoint.op = c.op
        /\ checkpoint.status = "running" /\ checkpoint.child = c.n
    BY <1>0, <1>1, <1>2, <1>3 DEF ChildInv, Orphaned
  <2>2. \A q \in Procs : self[q] # c.op
    BY <1>3 DEF Alive
  <2>3. \A o : o # c.op => Foreign(o)
    BY <1>2, <2>1 DEF Foreign
  <2>4. \A q \in Procs : pc[q] \in RecoverySteps => seen[q].op # c.op
    BY <1>0, <1>1, <1>2 DEF ChildInv, Recovered
  <2>5. \A q \in Procs : pc[q] \notin {"rename"} \cup WorkSteps
    BY <1>0, <2>1, <2>2 DEF Owned
  <2>6. ASSUME NEW q \in Procs, Operate(q) PROVE UNCHANGED <<lock, checkpoint>>
    <3>1. ~Acquire(q)
      BY <1>2, <2>1 DEF Acquire, LockTaken
    <3>2. ~PublishCheckpoint(q) /\ ~PublishFails(q) /\ ~RecordChild(q) /\ ~Conclude(q)
      BY <2>5 DEF PublishCheckpoint, PublishFails, RecordChild, Conclude, WorkSteps
    <3>3. ~Release(q)
      BY <2>2, <2>3 DEF Release, RemoveLock
    <3> QED
      BY <2>6, <3>1, <3>2, <3>3
      DEF Operate, Prepare, AcquireRefused, Spawn, CommandReturns, ConcludeFails
  <2>7. ASSUME NEW q \in Procs, Reconcile(q) PROVE UNCHANGED <<lock, checkpoint>>
    <3>1. ~Rewrite(q) /\ ~Clear(q)
      BY <2>3, <2>4 DEF Rewrite, Clear, RemoveLock, RecoverySteps
    <3> QED
      BY <2>7, <3>1 DEF Reconcile, InspectStale, Recheck
  <2>8. ASSUME NEW q \in Procs, Annotate(q)
        PROVE  /\ lock' = c.op /\ checkpoint'.op = c.op
               /\ checkpoint'.status = "running" /\ checkpoint'.child = c.n
    <3>1. checkpoint' = seen[q] /\ lock' = lock /\ seen[q].status = "running"
      BY <1>0, <2>8 DEF Annotate, Noted
    <3>2. c = Child(seen[q])
      BY <1>1, <1>3, <2>8 DEF Annotate
    <3> QED
      BY <2>1, <3>1, <3>2 DEF Child
  <2>9. ASSUME NEW q \in Procs, (Cancel(q) /\ ~Annotate(q)) \/ Kill(q)
        PROVE  UNCHANGED <<lock, checkpoint>>
    BY <2>9 DEF Cancel, RequestCancel, WithdrawRequest, Signal, ReadCheckpoint, Kill
  <2>10. ASSUME UNCHANGED <<lock, checkpoint>>
         PROVE  /\ lock' = c.op /\ checkpoint'.op = c.op
                /\ checkpoint'.status = "running" /\ checkpoint'.child = c.n
    BY <2>1, <2>10
  <2> QED
    BY <2>6, <2>7, <2>8, <2>9, <2>10 DEF Next, vars, ChildEnds
<1>4. CASE Alive(c.op)
  <2>1. PICK p \in Procs : self[p] = c.op
    BY <1>4 DEF Alive
  <2>2. self'[p] # self[p]
    BY <2>1 DEF Alive
  <2>3. pc[p] \in {"record", "wait"}
    BY <1>0, <1>1, <2>1 DEF ChildInv, Attended
  <2>4. Kill(p)
    <3>1. ASSUME NEW q \in Procs, q # p PROVE ~Operate(q) /\ ~Reconcile(q) /\ ~Cancel(q) /\ ~Kill(q)
      BY <1>0, <2>2, <3>1, OthersStay DEF ChildInv
    <3>2. ~Operate(p) /\ ~Reconcile(p) /\ ~Cancel(p)
      BY <2>2, <2>3
      DEF Operate, Prepare, Acquire, AcquireRefused, PublishCheckpoint, PublishFails, Spawn,
          RecordChild, CommandReturns, Conclude, ConcludeFails, Release, Reconcile, InspectStale, Recheck,
          Rewrite, Clear, Cancel, RequestCancel, WithdrawRequest, Signal, ReadCheckpoint, Annotate
    <3> QED
      BY <2>2, <3>1, <3>2 DEF Next, vars, ChildEnds
  <2>5. c = Child(Authority) /\ UNCHANGED <<lock, checkpoint>>
    BY <1>1, <2>1, <2>4 DEF Kill
  <2>6. lock = c.op /\ checkpoint.op = c.op /\ checkpoint.status = "running"
    BY <1>0, <2>1, <2>3 DEF Owned, WorkSteps
  <2>7. Authority = checkpoint
    BY <2>6 DEF Authority
  <2> QED
    BY <2>5, <2>6, <2>7 DEF Child
<1> QED
  BY <1>3, <1>4

LEMMA ChildInvInit == Init => ChildInv
<1> SUFFICES ASSUME Init PROVE ChildInv
  OBVIOUS
<1>1. children = {}
  BY DEF Init
<1> QED
  BY <1>1, InitialInv DEF ChildInv, ChildrenBegun, Attended, Orphaned, Recovered

LEMMA ChildInvStep == ChildInv /\ [Next]_vars => ChildInv'
<1> SUFFICES ASSUME ChildInv, [Next]_vars PROVE ChildInv'
  OBVIOUS
<1>1. IInv'
  BY NextInv DEF ChildInv
<1> QED
  BY <1>1, ChildrenBegunStep, AttendedStep, OrphanedStep, RecoveredStep DEF ChildInv

\* A command that outlives its owner holds the lease of its operation until it
\* ends: no recovery frees it, unless no record names the command or a file of
\* another operation was overwritten.
THEOREM ChildrenHoldTheLease == Spec => []ChildKeepsLease
<1>1. ChildInv => ChildKeepsLease
  BY DEF ChildInv, Orphaned, ChildKeepsLease
<1> QED
  BY <1>1, ChildInvInit, ChildInvStep, PTL DEF Spec
=============================================================================
