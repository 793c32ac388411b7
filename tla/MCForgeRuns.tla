----------------------------- MODULE MCForgeRuns -----------------------------
(* Command sets for the model-checked instances of ForgeRuns. *)
EXTENDS ForgeRuns

CONSTANTS r1, k1, k2

Command(op, key, r, arg, snapshot) ==
  [op |-> op, key |-> key, run |-> r, arg |-> arg, snapshot |-> snapshot]

Start(key, arg) == Command("start-run", key, NoRun, arg, 0)
Cancel(key, r) == Command("cancel-run", key, r, "", 0)
Instruct(key, r, arg) == Command("add-instruction", key, r, arg, 0)
Prepare(key, r) == Command("prepare-fixture-evidence", key, r, "", 0)
Decide(key, r, decision, snapshot) ==
  Command("resolve-evidence-review", key, r, decision, snapshot)
Iterate(key, r) == Command("create-next-iteration", key, r, "", 0)
Publish(key, r, snapshot) == Command("publish-approved-run", key, r, "", snapshot)

\* One run that is instructed, cancelled and executed by a worker.
ControlCommands ==
  {Start(k1, ""), Cancel(k1, r1), Instruct(k1, r1, "sensitive"), Instruct(k1, r1, "")}

\* A run and a run of another task that holds a secret, either of which may come
\* first, in a workspace that admits one: the first is reviewed both ways, iterated
\* and published under two keys, and cancelled.
ReviewCommands ==
  {Start(k1, ""), Start(k2, "secret"), Prepare(k1, r1), Cancel(k1, r1)}
  \cup {Decide(k1, r1, "approved", 1), Decide(k2, r1, "rejected", 1)}
  \cup {Iterate(k1, r1), Publish(k1, r1, 1), Publish(k2, r1, 1)}
=============================================================================
