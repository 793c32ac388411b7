--------------------------- MODULE MCDeliveryLease ---------------------------
(* Process and operation names for the checked instances of DeliveryLease. *)
EXTENDS DeliveryLease

CONSTANTS p1, p2, p3
=============================================================================
