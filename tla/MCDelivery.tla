----------------------------- MODULE MCDelivery -----------------------------
(* Calls and cycles for the checked instances of Delivery. *)
EXTENDS Delivery

CONSTANTS p1, p2

\* A cycle at the lowest autonomy that may change code, and a risk at which
\* that needs an approval, which it has.
Guarded == {[autonomy |-> 3, risk |-> 3, approvals |-> {"modify-code", "open-draft-pr"}]}
=============================================================================
