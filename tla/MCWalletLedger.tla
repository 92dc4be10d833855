---------------------------- MODULE MCWalletLedger ----------------------------
(* WalletLedger on small instances; what is alike is interchangeable.       *)
EXTENDS WalletLedger, TLC

Interchangeable == Permutations(Payment) \cup Permutations(Call)
                   \cup Permutations(Day) \cup Permutations(Biller)
=============================================================================
