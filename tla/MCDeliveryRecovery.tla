-------------------------- MODULE MCDeliveryRecovery --------------------------
(***************************************************************************)
(* Small instances of DeliveryRecovery for TLC.                            *)
(***************************************************************************)
EXTENDS DeliveryRecovery, TLC

Interchangeable == Permutations(Rider) \cup Permutations(PickupToken)
                   \cup Permutations(CustodyToken)
                   \cup Permutations(DeliveryToken)
                   \cup Permutations(ReturnToken)
                   \cup Permutations(Authorization)
                   \cup Permutations(RedeliveryId)
                   \cup Permutations(RecoveryId)
=============================================================================
