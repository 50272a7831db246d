----------------------------- MODULE WslayStack -----------------------------
(***************************************************************************)
(* wslay_stack (src/wslay/stack.h, stack.c): a singly linked LIFO of      *)
(* cells taken from malloc(), with a top pointer.  Nothing in event.c     *)
(* uses it; it is part of the library's container API.  The heap is      *)
(* modelled as in WslayQueue.                                             *)
(***************************************************************************)
EXTENDS Naturals, Sequences, FiniteSets

CONSTANTS
    Cells,        \* the addresses malloc() may return
    Data,         \* the data pointers stored in the stack
    NULL,
    NoArg,        \* the argument of a call that takes no data
    MallocFails   \* whether malloc() may return NULL with cells left

ASSUME NULL \notin Cells /\ MallocFails \in BOOLEAN

VARIABLES
    cell,    \* cell[c]: the wslay_stack_cell at address c
    top,     \* stack->top
    used,    \* the cells malloc() has returned and free() has not taken
    alive,   \* FALSE once wslay_stack_free() has run
    call     \* the last call, its argument and its return value

vars == <<cell, top, used, alive, call>>

Call(op, arg, ret) == [op |-> op, arg |-> arg, ret |-> ret]

\* The cells reachable from p by next, at most n of them.
RECURSIVE ChainFrom(_, _)
ChainFrom(p, n) ==
    IF p = NULL \/ n = 0 THEN <<>> ELSE <<p>> \o ChainFrom(cell[p].next, n - 1)

Chain == ChainFrom(top, Cardinality(Cells) + 1)

Contents == [i \in 1..Len(Chain) |-> cell[Chain[i]].data]

\* wslay_stack_new(): top = NULL.
Init ==
    /\ cell = [c \in Cells |-> [data |-> NULL, next |-> NULL]]
    /\ top = NULL
    /\ used = {}
    /\ alive = TRUE
    /\ call = Call("new", NoArg, 0)

\* Seeded fault: the new cell does not link to the old top.
PushUnlinked(d) ==
    /\ alive
    /\ \/ /\ MallocFails \/ used = Cells
          /\ call' = Call("push", d, 1)
          /\ UNCHANGED <<cell, top, used>>
       \/ \E c \in Cells \ used :
             /\ used' = used \cup {c}
             /\ cell' = [cell EXCEPT ![c] = [data |-> d, next |-> NULL]]
             /\ top' = c
             /\ call' = Call("push", d, 0)
    /\ UNCHANGED alive

\* wslay_stack_push(): malloc() fails and 1 is returned, or the new cell
\* points at top and becomes top.
Push(d) ==
    /\ alive
    /\ \/ /\ MallocFails \/ used = Cells
          /\ call' = Call("push", d, 1)
          /\ UNCHANGED <<cell, top, used>>
       \/ \E c \in Cells \ used :
             /\ used' = used \cup {c}
             /\ cell' = [cell EXCEPT ![c] = [data |-> d, next |-> top]]
             /\ top' = c
             /\ call' = Call("push", d, 0)
    /\ UNCHANGED alive

\* Seeded fault: the popped cell is not freed.
PopNoFree ==
    /\ alive
    /\ IF top = NULL
         THEN call' = Call("pop", NoArg, 1) /\ UNCHANGED <<cell, top, used>>
         ELSE call' = Call("pop", NoArg, 0) /\ top' = cell[top].next /\ UNCHANGED <<cell, used>>
    /\ UNCHANGED alive

\* wslay_stack_pop(): 1 on an empty stack; otherwise top moves on and the
\* cell is freed.
Pop ==
    /\ alive
    /\ IF top = NULL
         THEN call' = Call("pop", NoArg, 1) /\ UNCHANGED <<cell, top, used>>
         ELSE /\ call' = Call("pop", NoArg, 0)
              /\ top' = cell[top].next
              /\ used' = used \ {top}
              /\ UNCHANGED cell
    /\ UNCHANGED alive

\* wslay_stack_free(), the talloc destructor: every cell from top is freed.
Free ==
    /\ alive
    /\ used' = used \ {Chain[i] : i \in 1..Len(Chain)}
    /\ alive' = FALSE
    /\ call' = Call("free", NoArg, 0)
    /\ UNCHANGED <<cell, top>>

Next == (\E d \in Data : Push(d)) \/ Pop \/ Free

Spec == Init /\ [][Next]_vars

-----------------------------------------------------------------------------
\* Between calls the cells from top are exactly the allocated ones, without
\* a cycle: pop frees what it unlinks, and wslay_stack_free() leaves
\* nothing allocated.
StackWellFormed ==
    /\ alive => /\ Len(Chain) <= Cardinality(Cells)
                /\ {Chain[i] : i \in 1..Len(Chain)} = used
                /\ Len(Chain) = Cardinality(used)
    /\ ~alive => used = {}

\* The stack implements the sequence container with push as push_front:
\* push puts d first, pop removes the first element, and a call returns 1
\* only when malloc() fails or the stack is empty, changing nothing.
AsContainer ==
    [call EXCEPT !.op = IF @ = "push" THEN "push_front" ELSE @]
Lifo == INSTANCE SeqContainer WITH seq <- Contents, open <- alive, call <- AsContainer
LifoRefinement == Lifo!Spec
=============================================================================
