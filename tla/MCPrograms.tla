----------------------------- MODULE MCPrograms -----------------------------
(***************************************************************************)
(* One TLC instance for the small programs and data structures, which have *)
(* no part in common: the initial state says which of them is run, and the *)
(* variables of the others keep their initial values.  Among them are the  *)
(* routines of SortRoutines and MergeSort, each run on every short list,   *)
(* and then every merge of what it returned with a sorted list.            *)
(***************************************************************************)
EXTENDS LinkedList, Children, Darts, Paging, SortRoutines, MergeSort

CONSTANTS MaxLength, Values

ASSUME ListsAssumption == Values \subseteq Int /\ MaxLength \in Nat

Low == -4

SomeThrows == {<<3, 1>>, <<4, 2>>, <<6, 3>>}

VARIABLES
  program,
  type, given, list, merged     \* a routine, its list, what it returned

listVars == <<type, given, list, merged>>

-----------------------------------------------------------------------------
Lists == BoundedSeq(Values, MaxLength) \ {<<>>}

\* What masterSortedList may hold when a thread merges its list into it.
Masters == {s \in BoundedSeq(Values, 2) : Sorted(s)}

\* The routines of project4b.cpp, by their names, and those of other.cpp.
Run(routine, A) ==
  CASE routine = "merge_sort"    -> merge_sort(A, Len(A))
    [] routine = "selectionSort" -> selectionSort(A, Len(A))
    [] OTHER                     -> SortOnThread(routine, A)

SortingInit == /\ type \in SortTypes \cup {"merge_sort", "selectionSort"}
               /\ given \in Lists
               /\ list = <<>> /\ merged = <<>>

Sort == /\ list = <<>>
        /\ list' = Run(type, given)
        /\ UNCHANGED <<type, given, merged>>

Merge == /\ list # <<>> /\ merged = <<>>
         /\ \E m \in Masters : merged' = <<m, mergeSortedLists(list, m)>>
         /\ UNCHANGED <<type, given, list>>

-----------------------------------------------------------------------------
\* Of the programs that are not run, one initial state will do.
MCInit ==
  /\ program \in {"list", "children", "darts", "paging", "sorts"}
  /\ Init /\ ChildrenInit /\ DartsInit /\ PagingInit /\ SortingInit
  /\ program # "darts" => numThreads = 1
  /\ program # "paging" => /\ validPages = [p \in Letters |-> Min(PageCounts)]
                           /\ timeAlive = [p \in Letters |-> Min(Lifetimes)]
  /\ program # "sorts" => type = "merge_sort" /\ given = <<1>>

ListNext == /\ program = "list" /\ Next
            /\ UNCHANGED <<childVars, dartVars, pagingVars, listVars, program>>

ChildrenStep == /\ program = "children" /\ ChildrenNext
                /\ UNCHANGED <<vars, dartVars, pagingVars, listVars, program>>

DartsStep == /\ program = "darts" /\ DartsNext
             /\ UNCHANGED <<vars, childVars, pagingVars, listVars, program>>

PagingStep == /\ program = "paging" /\ PagingNext
              /\ UNCHANGED <<vars, childVars, dartVars, listVars, program>>

Sorting == /\ program = "sorts" /\ (Sort \/ Merge)
           /\ UNCHANGED <<vars, childVars, dartVars, pagingVars, program>>

MCNext == ListNext \/ ChildrenStep \/ DartsStep \/ PagingStep \/ Sorting

MCSpec ==
  /\ MCInit
  /\ [][MCNext]_<<vars, childVars, dartVars, pagingVars, listVars, program>>

-----------------------------------------------------------------------------
\* Every routine sorts the list it is given and loses no number of it.
RoutinesSort ==
  list # <<>> => Sorted(list) /\ SameNumbers(list, given)

\* mergeSortedLists() returns a sorted list of the numbers of both, the same
\* list as mergeUnsortedLists() and project4b's merge() return, which go about
\* it differently.
MergesAgree ==
  merged # <<>> =>
    /\ Sorted(merged[2])
    /\ SameNumbers(merged[2], list \o merged[1])
    /\ merged[2] = mergeUnsortedLists(list, merged[1])
    /\ merged[2] = merge(list, merged[1])

\* Both, for every routine of the two programs.
RoutinesAgree == RoutinesSort /\ MergesAgree

\* The types of the three small programs.
ProgramTypesOK == ChildrenTypeOK /\ DartsTypeOK /\ PagingTypeOK
=============================================================================
