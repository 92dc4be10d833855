---------------------------- MODULE MCOrderFinance ----------------------------
(* OrderFinance on small instances: identifiers are model values, and those *)
(* that the specification treats alike are interchangeable.                 *)
EXTENDS OrderFinance, TLC

Interchangeable == Permutations(Rider) \cup Permutations(Advance)
                   \cup Permutations(Claim) \cup Permutations(Determination)
                   \cup Permutations(Liability)
=============================================================================
