--------------------------- MODULE OperationLease ---------------------------
(***************************************************************************)
(* What the lease of a delivery promises, without its files: an operation  *)
(* on a cycle begins only while nobody holds the lease of the cycle, holds *)
(* it at least as long as it works, and the lease is freed only when its   *)
(* holder works no more.                                                   *)
(*                                                                         *)
(* The one exception is a step of its own.  Break frees the lease of an    *)
(* operation that is still working and says so in broken; from then on the *)
(* lease promises nothing.  DeliveryLease implements this specification,   *)
(* and Delivery is built on it.                                            *)
(***************************************************************************)
CONSTANTS Ops,  \* operations: one execute, verify or publish call each
          NoOp

ASSUME NoOpAssumption == NoOp \notin Ops

VARIABLES holder,   \* the operation the lease belongs to, or NoOp
          working,  \* the operations whose work is under way
          broken    \* whether a lease was ever taken from an operation at work

leaseVars == <<holder, working, broken>>

LeaseTypeOK ==
  /\ holder \in Ops \cup {NoOp}
  /\ working \subseteq Ops
  /\ broken \in BOOLEAN

LeaseInit ==
  /\ holder = NoOp
  /\ working = {}
  /\ broken = FALSE

\* An operation takes the free lease ...
Take(o) ==
  /\ holder = NoOp
  /\ holder' = o
  /\ UNCHANGED <<working, broken>>

\* ... and works only while it holds it.
Begin(o) ==
  /\ holder = o
  /\ o \notin working
  /\ working' = working \cup {o}
  /\ UNCHANGED <<holder, broken>>

\* The work is over: the operation completed, failed, or its process died.
Finish(o) ==
  /\ o \in working
  /\ working' = working \ {o}
  /\ UNCHANGED <<holder, broken>>

\* The lease of an operation that is not at work is released or cleared.
Free ==
  /\ holder # NoOp
  /\ holder \notin working
  /\ holder' = NoOp
  /\ UNCHANGED <<working, broken>>

\* The lease is taken from an operation that is or will be at work; once it
\* has been, any step may follow.
Break ==
  /\ holder # NoOp \/ broken
  /\ broken' = TRUE
  /\ holder' \in Ops \cup {NoOp}
  /\ working' \in SUBSET Ops

LeaseNext ==
  \/ \E o \in Ops : Take(o) \/ Begin(o) \/ Finish(o)
  \/ Free
  \/ Break

LeaseSpec == LeaseInit /\ [][LeaseNext]_leaseVars

\* Two operations never work on one cycle at once, unless a lease was taken
\* from an operation at work.
ExclusiveUnlessBroken ==
  ~broken => \A o \in working : o = holder
=============================================================================
