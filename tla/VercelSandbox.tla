---------------------------- MODULE VercelSandbox ----------------------------
(***************************************************************************)
(* The sandbox provider (packages/provider-sandbox-vercel/src/              *)
(* vercel-sandbox-provider.ts): one sandbox per run at Vercel, and the      *)
(* record of it in the injected registry.  Vercel and the registry are      *)
(* external, and each call of them may fail.  Nobody else touches a sandbox  *)
(* while create or destroy is at work on it, so the calls each of them makes *)
(* in a row are one step with several outcomes.  Names, hosts, ports and    *)
(* limits are validated before anything is created: a refusal there is the  *)
(* failing outcome of create and of execute.                                *)
(***************************************************************************)
EXTENDS Naturals

CONSTANT Sandboxes  \* a sandbox is named by its run

VARIABLES machine,  \* Vercel: absent, running, stopped or deleted
          record,   \* registry: none, running or stopped
          kept      \* history: why the last release of a machine did not happen

sandboxVars == <<machine, record, kept>>

Machines == {"absent", "running", "stopped", "deleted"}

\* A machine is not released because create never heard of it, because Vercel
\* refused, or because the registry could not be read and Vercel was not asked.
Reasons == {"none", "unheard", "refused", "unread"}

SandboxTypeOK ==
  /\ machine \in [Sandboxes -> Machines]
  /\ record \in [Sandboxes -> {"none", "running", "stopped"}]
  /\ kept \in [Sandboxes -> Reasons]

SandboxInit ==
  /\ machine = [r \in Sandboxes |-> "absent"]
  /\ record = [r \in Sandboxes |-> "none"]
  /\ kept = [r \in Sandboxes |-> "none"]

\* Something is left at Vercel for somebody to delete.
Lives(r) == machine[r] \in {"running", "stopped"}

-----------------------------------------------------------------------------
\* create: the machine, its repository and its record.
Create(r) ==
  /\ machine' = [machine EXCEPT ![r] = "running"]
  /\ record' = [record EXCEPT ![r] = "running"]
  /\ UNCHANGED kept

\* normalizePolicy refuses the limits of the run before Vercel is asked.
PolicyRefuses == UNCHANGED sandboxVars

\* create fails.  Vercel refuses and nothing exists; or its answer is lost and a
\* machine runs that the provider knows nothing of; or the expiry, the bootstrap
\* or the registration fails, and the machine is deleted again if Vercel lets it,
\* whether or not the registry has the record.
CreateFails(r) ==
  \/ UNCHANGED sandboxVars
  \/ /\ machine' = [machine EXCEPT ![r] = "running"]
     /\ kept' = [kept EXCEPT ![r] = "unheard"]
     /\ UNCHANGED record
  \/ /\ \/ machine' = [machine EXCEPT ![r] = "deleted"] /\ UNCHANGED kept
        \/ /\ machine' = [machine EXCEPT ![r] = "running"]
           /\ kept' = [kept EXCEPT ![r] = "refused"]
     /\ record' \in {record, [record EXCEPT ![r] = "running"]}

\* requireRunningRecord, and a machine that is there to run the command.
Usable(r) == record[r] = "running" /\ machine[r] = "running"

\* stop: the machine first, then its record, which the registry may refuse.
Stop(r) ==
  /\ record[r] = "running" /\ Lives(r)
  /\ machine' = [machine EXCEPT ![r] = "stopped"]
  /\ record' \in {record, [record EXCEPT ![r] = "stopped"]}
  /\ UNCHANGED kept

\* The lifetime the sandbox was created with is over: Vercel stops it.
Expire(r) ==
  /\ machine[r] = "running"
  /\ machine' = [machine EXCEPT ![r] = "stopped"]
  /\ UNCHANGED <<record, kept>>

\* destroy: the record, whatever its status, the machine, and the record again.
Destroy(r) ==
  /\ record[r] # "none"
  /\ machine' = [machine EXCEPT ![r] = "deleted"]
  /\ record' = [record EXCEPT ![r] = "none"]
  /\ UNCHANGED kept

\* destroy fails.  The registry cannot be read and Vercel is not asked; Vercel
\* refuses; or the machine is gone and the registry fails, before or after it has
\* removed the record.
DestroyFails(r) ==
  \/ kept' = [kept EXCEPT ![r] = "unread"] /\ UNCHANGED <<machine, record>>
  \/ /\ record[r] # "none"
     /\ kept' = [kept EXCEPT ![r] = "refused"]
     /\ UNCHANGED <<machine, record>>
  \/ /\ record[r] # "none"
     /\ machine' = [machine EXCEPT ![r] = "deleted"]
     /\ record' \in {record, [record EXCEPT ![r] = "none"]}
     /\ UNCHANGED kept

\* destroy of a sandbox that is not registered.
DestroyFindsNothing(r) == record[r] = "none" /\ UNCHANGED sandboxVars
=============================================================================
