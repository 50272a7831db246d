---------------------------- MODULE SeqContainer ----------------------------
(***************************************************************************)
(* What wslay's linked containers promise (src/wslay/queue.h, stack.h):   *)
(* a sequence of data pointers, added at the back or the front and taken  *)
(* from the front, until the container is freed.  call is the last call   *)
(* made, with its argument and its return value: a push may fail with 1   *)
(* (malloc() returned NULL) and leave the sequence as it was, a pop fails *)
(* with 1 exactly when the sequence is empty.                             *)
(***************************************************************************)
EXTENDS Sequences

CONSTANTS Data, NoArg

VARIABLES seq, open, call

Call(op, arg, ret) == [op |-> op, arg |-> arg, ret |-> ret]

Init == seq = <<>> /\ open = TRUE /\ call = Call("new", NoArg, 0)

Pushed(op, d, s) ==
    \/ seq' = s /\ call' = Call(op, d, 0)
    \/ seq' = seq /\ call' = Call(op, d, 1)

PushBack(d) == open /\ Pushed("push", d, Append(seq, d)) /\ UNCHANGED open

PushFront(d) == open /\ Pushed("push_front", d, <<d>> \o seq) /\ UNCHANGED open

PopFront ==
    /\ open
    /\ IF seq = <<>>
         THEN seq' = seq /\ call' = Call("pop", NoArg, 1)
         ELSE seq' = Tail(seq) /\ call' = Call("pop", NoArg, 0)
    /\ UNCHANGED open

Destroy == open /\ open' = FALSE /\ call' = Call("free", NoArg, 0) /\ UNCHANGED seq

Next ==
    \/ \E d \in Data : PushBack(d) \/ PushFront(d)
    \/ PopFront
    \/ Destroy

Spec == Init /\ [][Next]_<<seq, open, call>>
=============================================================================
