---------------------------- MODULE MCFulfillment ----------------------------
(***************************************************************************)
(* Small instances of Fulfillment for TLC.                                 *)
(***************************************************************************)
EXTENDS Fulfillment, TLC

Interchangeable == Permutations(Rider) \cup Permutations(PickupToken)
                   \cup Permutations(CustodyToken)
                   \cup Permutations(DeliveryToken)
                   \cup Permutations(ReturnToken)
                   \cup Permutations(Authorization)
=============================================================================
