------------------------------ MODULE Children ------------------------------
(***************************************************************************)
(* proj_03/partone.cpp and partoneb.cpp: main forks its children, works,   *)
(* and then polls each of them with waitpid(), whose WNOHANG makes it      *)
(* return at once.  Whatever it returns but -1 is counted as an end.       *)
(***************************************************************************)
EXTENDS Integers

CONSTANT NumChild           \* NUM_CHILD

ASSUME NumChildAssumption == NumChild \in Nat \ {0}

Kids == 0 .. NumChild - 1

VARIABLES
  place,                    \* main: "fork", "poll", "returned", "failed"
  c,                        \* the counter of main's loops
  current_children,
  child                     \* what the kernel knows of each child

childVars == <<place, c, current_children, child>>

\* The state of a child.  One that could not be forked has the pid 1, which is
\* not a child of main.
ChildStates == {"none", "notForked", "runs", "zombie", "reaped"}

ChildrenInit ==
  /\ place = "fork" /\ c = 0 /\ current_children = NumChild
  /\ child = [k \in Kids |-> "none"]

\* performFork()
PerformFork ==
  /\ place = "fork" /\ c < NumChild
  /\ \E s \in {"runs", "notForked"} : child' = [child EXCEPT ![c] = s]
  /\ c' = c + 1
  /\ UNCHANGED <<place, current_children>>

\* A child ends its busy work and exits.
ChildExits(k) ==
  /\ child[k] = "runs"
  /\ child' = [child EXCEPT ![k] = "zombie"]
  /\ UNCHANGED <<place, c, current_children>>

BusyWork ==
  /\ place = "fork" /\ c = NumChild
  /\ place' = "poll" /\ c' = 0
  /\ UNCHANGED <<current_children, child>>

\* What waitpid() did not fail for is taken for the end of the child.
CountsAsEnd(k) == child[k] \in {"runs", "zombie"}

\* waitpid(children[c], &status, WNOHANG | WUNTRACED) reaps a child that has
\* ended and returns 0 for one that runs.
Poll ==
  /\ place = "poll" /\ c < NumChild
  /\ child[c] \in {"runs", "zombie"}
  /\ child' = [child EXCEPT ![c] = IF @ = "zombie" THEN "reaped" ELSE @]
  /\ current_children' =
       IF CountsAsEnd(c) THEN current_children - 1 ELSE current_children
  /\ c' = c + 1
  /\ UNCHANGED place

\* It returns -1 for what is not a child, or not any more.
PollFails ==
  /\ place = "poll" /\ c < NumChild
  /\ child[c] \in {"notForked", "reaped"}
  /\ place' = "failed"
  /\ UNCHANGED <<c, current_children, child>>

\* Mutant of PollsAgain: an off-by-one.
PollsAgainAtZero == current_children >= 0

PollsAgain == current_children > 0

NextRound ==
  /\ place = "poll" /\ c = NumChild
  /\ IF PollsAgain THEN c' = 0 /\ UNCHANGED place
                   ELSE place' = "returned" /\ UNCHANGED c
  /\ UNCHANGED <<current_children, child>>

ChildrenMain == PerformFork \/ BusyWork \/ Poll \/ PollFails \/ NextRound

ChildrenNext == ChildrenMain \/ \E k \in Kids : ChildExits(k)

-----------------------------------------------------------------------------
ChildrenTypeOK ==
  /\ place \in {"fork", "poll", "returned", "failed"}
  /\ c \in 0 .. NumChild /\ current_children \in 0 .. NumChild
  /\ child \in [Kids -> ChildStates]

\* main fails only when a fork has: it never polls a child that it has already
\* reaped, whatever the order in which they end.  (It would, if it polled again
\* those that still run.)
FailsOnlyForFork == place = "failed" => \E k \in Kids : child[k] = "notForked"
=============================================================================
