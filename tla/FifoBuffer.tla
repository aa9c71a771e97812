----------------------------- MODULE FifoBuffer -----------------------------
(***************************************************************************)
(* What the queue shared by the threads of proj_04 promises to them: a     *)
(* first-in first-out buffer that never holds more than Bound values.  It  *)
(* says nothing of threads, semaphores, nodes or pointers; BoundedBuffer   *)
(* is shown to implement it.                                               *)
(***************************************************************************)
EXTENDS Naturals, Sequences

CONSTANTS Values,   \* the values a producer may store
          Bound     \* the largest number of values held at once

VARIABLE items

Init == items = <<>>

Put == /\ Len(items) < Bound
       /\ \E v \in Values : items' = Append(items, v)

Take == /\ items # <<>>
        /\ items' = Tail(items)

Next == Put \/ Take

Spec == Init /\ [][Next]_items
=============================================================================
