----------------------------- MODULE MCForkSort -----------------------------
(***************************************************************************)
(* TLC instances of ForkSort, with the program's own merge_sort.           *)
(***************************************************************************)
EXTENDS ForkSort, MergeSort

CONSTANT Values       \* the values on the list

MCLists == [1 .. ListSize -> Values]
=============================================================================
