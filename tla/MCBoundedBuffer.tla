-------------------------- MODULE MCBoundedBuffer --------------------------
(* TLC instances of BoundedBuffer. *)
EXTENDS BoundedBuffer, TLC

\* Addresses and stored values are interchangeable (safety runs only).
Symmetry == Permutations(Nodes) \cup Permutations(Values)
=============================================================================
