---------------------------- MODULE MCThreadSort ----------------------------
(***************************************************************************)
(* TLC instances of ThreadSort, with the program's own routines.           *)
(***************************************************************************)
EXTENDS ThreadSort

Routines == INSTANCE SortRoutines

MCSort(type, list) == Routines!SortOnThread(type, list)

MCMerge(first, second) == Routines!mergeSortedLists(first, second)

\* Four numbers and one too many for the pieces, and fewer than threads.
MCLists == {<<3, 1, 2, 1, 2>>, <<1>>}

OneList == {<<2, 4, 3, 2, 1>>}
=============================================================================
