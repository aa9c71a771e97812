----------------------------- MODULE SwapStore -----------------------------
(***************************************************************************)
(* What swapping promises to the processes of proj_05/partone.cpp: a       *)
(* process is loaded, or stored, or not yet started, and never two of      *)
(* these; who is stored first is the first to be loaded again.  It says    *)
(* nothing of cells, holes or rings.  The promise lasts while the store is *)
(* intact: once it is not, because it was overrun or a process was loaded  *)
(* a second time, anything may be loaded.                                  *)
(***************************************************************************)
EXTENDS Sequences

CONSTANT Users          \* the processes

VARIABLES loaded,       \* those in memory
          queue,        \* those in the back store, the oldest first
          intact

storeVars == <<loaded, queue, intact>>

Init == loaded = {} /\ queue = <<>> /\ intact = TRUE

Stored == {queue[k] : k \in DOMAIN queue}

Load == /\ \E p \in Users \ (loaded \cup Stored) : loaded' = loaded \cup {p}
        /\ UNCHANGED <<queue, intact>>

Out == /\ \E p \in loaded : /\ loaded' = loaded \ {p}
                            /\ queue' = Append(queue, p)
       /\ UNCHANGED intact

Back == /\ queue # <<>>
        /\ loaded' = loaded \cup {Head(queue)}
        /\ queue' = Tail(queue)
        /\ UNCHANGED intact

Broken == intact' = FALSE

Next == (intact /\ (Load \/ Out \/ Back)) \/ Broken

Spec == Init /\ [][Next]_storeVars
=============================================================================
