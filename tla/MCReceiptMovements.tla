------------------------- MODULE MCReceiptMovements -------------------------
(* Instances of ReceiptMovements for TLC. *)
EXTENDS ReceiptMovements, TLC

\* Requests of one kind are interchangeable.
RequestSymmetry == Permutations(Creates) \cup Permutations(Updates)
=============================================================================
