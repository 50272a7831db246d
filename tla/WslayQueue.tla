----------------------------- MODULE WslayQueue -----------------------------
(***************************************************************************)
(* wslay_queue (src/wslay/queue.h): a singly linked FIFO of cells taken   *)
(* from malloc(), with a top and a tail pointer.  The event engine uses   *)
(* one for send_queue, one for send_ctrl_queue and one per imsg for the   *)
(* received chunks, and pushes to the front of send_queue when a control  *)
(* message preempts a data message (event.c line 548).                    *)
(*                                                                         *)
(* The heap is the set Cells; cell[c] is the content of cell c, which     *)
(* free() leaves as it was.  Every call is one atomic step: the engine    *)
(* calls them from a single thread.                                       *)
(***************************************************************************)
EXTENDS Naturals, Sequences, FiniteSets

CONSTANTS
    Cells,        \* the addresses malloc() may return
    Data,         \* the data pointers stored in the queue
    NULL,
    NoArg,        \* the argument of a call that takes no data
    MallocFails   \* whether malloc() may return NULL with cells left

ASSUME NULL \notin Cells /\ MallocFails \in BOOLEAN

VARIABLES
    cell,    \* cell[c]: the wslay_queue_cell at address c
    top,     \* queue->top
    tail,    \* queue->tail
    used,    \* the cells malloc() has returned and free() has not taken
    alive,   \* FALSE once wslay_queue_free() has run
    call     \* the last call, its argument and its return value

vars == <<cell, top, tail, used, alive, call>>

Call(op, arg, ret) == [op |-> op, arg |-> arg, ret |-> ret]

\* The cells reachable from p by next, at most n of them.
RECURSIVE ChainFrom(_, _)
ChainFrom(p, n) ==
    IF p = NULL \/ n = 0 THEN <<>> ELSE <<p>> \o ChainFrom(cell[p].next, n - 1)

Chain == ChainFrom(top, Cardinality(Cells) + 1)

\* The sequence of data the queue holds, walking from top.
Contents == [i \in 1..Len(Chain) |-> cell[Chain[i]].data]

\* wslay_queue_new(): top = tail = NULL.  No cell has been allocated; the
\* content of one is written before it is read.
Init ==
    /\ cell = [c \in Cells |-> [data |-> NULL, next |-> NULL]]
    /\ top = NULL /\ tail = NULL
    /\ used = {}
    /\ alive = TRUE
    /\ call = Call("new", NoArg, 0)

\* malloc() returning NULL in push or push_front: the call returns 1 and
\* changes nothing.
MallocFailure(op, d) ==
    /\ alive
    /\ MallocFails \/ used = Cells
    /\ call' = Call(op, d, 1)
    /\ UNCHANGED <<cell, top, tail, used, alive>>

\* wslay_queue_push(): the new cell goes after tail, or becomes the only one.
Push(d) ==
    /\ alive
    /\ \E c \in Cells \ used :
          /\ used' = used \cup {c}
          /\ cell' = IF tail # NULL
                       THEN [cell EXCEPT ![c] = [data |-> d, next |-> NULL], ![tail].next = c]
                       ELSE [cell EXCEPT ![c] = [data |-> d, next |-> NULL]]
          /\ top' = IF tail # NULL THEN top ELSE c
          /\ tail' = c
    /\ call' = Call("push", d, 0)
    /\ UNCHANGED alive

\* Seeded fault: push_front into an empty queue leaves tail NULL.
PushFrontNoTail(d) ==
    /\ alive
    /\ \E c \in Cells \ used :
          /\ used' = used \cup {c}
          /\ cell' = [cell EXCEPT ![c] = [data |-> d, next |-> top]]
          /\ top' = c
          /\ UNCHANGED tail
    /\ call' = Call("push_front", d, 0)
    /\ UNCHANGED alive

\* wslay_queue_push_front(): the new cell points at top; into an empty
\* queue it is the tail as well.
PushFront(d) ==
    /\ alive
    /\ \E c \in Cells \ used :
          /\ used' = used \cup {c}
          /\ cell' = [cell EXCEPT ![c] = [data |-> d, next |-> top]]
          /\ top' = c
          /\ tail' = IF tail = NULL THEN c ELSE tail
    /\ call' = Call("push_front", d, 0)
    /\ UNCHANGED alive

\* Seeded fault: pop leaves tail on the freed cell.
PopKeepsTail ==
    /\ alive
    /\ IF top = NULL
         THEN /\ call' = Call("pop", NoArg, 1)
              /\ UNCHANGED <<cell, top, tail, used, alive>>
         ELSE /\ call' = Call("pop", NoArg, 0)
              /\ top' = cell[top].next
              /\ used' = used \ {top}
              /\ UNCHANGED <<cell, alive, tail>>

\* wslay_queue_pop(): on an empty queue it returns 1; otherwise top moves on,
\* tail is cleared when the last cell goes, and the cell is freed.
Pop ==
    /\ alive
    /\ IF top = NULL
         THEN /\ call' = Call("pop", NoArg, 1)
              /\ UNCHANGED <<cell, top, tail, used, alive>>
         ELSE /\ call' = Call("pop", NoArg, 0)
              /\ top' = cell[top].next
              /\ tail' = IF top = tail THEN NULL ELSE tail
              /\ used' = used \ {top}
              /\ UNCHANGED <<cell, alive>>

\* wslay_queue_free(), the talloc destructor: every cell from top is freed.
Free ==
    /\ alive
    /\ used' = used \ {Chain[i] : i \in 1..Len(Chain)}
    /\ alive' = FALSE
    /\ call' = Call("free", NoArg, 0)
    /\ UNCHANGED <<cell, top, tail>>

Next ==
    \/ \E d \in Data : \/ Push(d) \/ MallocFailure("push", d)
                       \/ PushFront(d) \/ MallocFailure("push_front", d)
    \/ Pop
    \/ Free

Spec == Init /\ [][Next]_vars

-----------------------------------------------------------------------------
\* The pointer structure push, push_front and pop must keep between calls:
\* the cells from top are exactly the allocated ones, without a cycle, and
\* tail is the last of them (NULL when the queue is empty).  A tail left
\* behind by pop or not set by push_front makes the next push write into a
\* freed cell or drop the queue; a cell not freed is a leak.
ListWellFormed ==
    alive =>
    /\ Len(Chain) <= Cardinality(Cells)
    /\ {Chain[i] : i \in 1..Len(Chain)} = used
    /\ Len(Chain) = Cardinality(used)
    /\ tail = IF Chain = <<>> THEN NULL ELSE Chain[Len(Chain)]

\* The queue implements a FIFO sequence: push appends, push_front
\* prepends and pop removes the first element, each returning 0, or the
\* call returns 1 and the data is as it was (a pop only on an empty queue);
\* nothing is called after wslay_queue_free().
Fifo == INSTANCE SeqContainer WITH seq <- Contents, open <- alive
FifoRefinement == Fifo!Spec
=============================================================================
