---------------------------- MODULE MCContainers ----------------------------
(***************************************************************************)
(* The queue and the stack side by side, each over its own cells, their  *)
(* calls interleaved: every sequence of calls on each container is        *)
(* checked in one run.  The two share no state.                           *)
(***************************************************************************)
EXTENDS Naturals

CONSTANTS QCells, SCells, Data, NULL, NoArg, MallocFails

VARIABLES qcell, qtop, qtail, qused, qalive, qcall,
          scell, stop, sused, salive, scall

qvars == <<qcell, qtop, qtail, qused, qalive, qcall>>
svars == <<scell, stop, sused, salive, scall>>

Q == INSTANCE WslayQueue WITH Cells <- QCells, cell <- qcell, top <- qtop, tail <- qtail,
                              used <- qused, alive <- qalive, call <- qcall
S == INSTANCE WslayStack WITH Cells <- SCells, cell <- scell, top <- stop,
                              used <- sused, alive <- salive, call <- scall

Init == Q!Init /\ S!Init
Next == (Q!Next /\ UNCHANGED svars) \/ (S!Next /\ UNCHANGED qvars)
Spec == Init /\ [][Next]_<<qvars, svars>>

\* The queue's pointer structure between calls (WslayQueue!ListWellFormed).
ListWellFormed == Q!ListWellFormed

\* The queue is a FIFO sequence (WslayQueue!FifoRefinement).
FifoRefinement == Q!FifoRefinement

\* The stack's pointer structure between calls (WslayStack!StackWellFormed).
StackWellFormed == S!StackWellFormed

\* The stack is a LIFO sequence (WslayStack!LifoRefinement).
LifoRefinement == S!LifoRefinement
=============================================================================
