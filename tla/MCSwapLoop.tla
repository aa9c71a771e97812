----------------------------- MODULE MCSwapLoop -----------------------------
(* TLC instances of SwapLoop. *)
EXTENDS SwapLoop
=============================================================================
