----------------------------- MODULE MCSwapOps ------------------------------
(* TLC instances of SwapOps.  The sizes of the processes are drawn at random, *)
(* so that those that only exchange two processes show nothing new: here they *)
(* do not decrease.                                                           *)
EXTENDS SwapOps

SortedSizes == \A p, q \in Processes \ {0} :
                 p <= q => memorySize[p] <= memorySize[q]

SortedInit == SwapInit /\ SortedSizes

\* The program is one thread, and it runs.
SortedSpec == /\ SortedInit
              /\ [][SwapNext]_swapVars
              /\ WF_swapVars(SwapNext)
=============================================================================
