--------------------------- MODULE MCControlCore ---------------------------
(* Clients and bounds of the model-checked instances of ControlCore. *)
EXTENDS ControlCore

CONSTANTS c1, c2, c3, c4

\* A second run of the task, beside the first or after it.
TwoSessions == [m \in Modes |-> 2]

\* Bound: in app-server mode one client starts the task, a behaviour is followed
\* up to its first overlap, and has few sessions, restarts and approvals in all.
UpToOverlap ==
  mode = "app-server" =>
    /\ ~overlapped /\ handler[c4] = Idle
    /\ session[1].asked + session[2].asked + used + restarts <= 3
=============================================================================
