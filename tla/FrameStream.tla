----------------------------- MODULE FrameStream -----------------------------
(***************************************************************************)
(* What a pair of wslay frame codecs promises (src/wslay/frame.h): the    *)
(* receiving codec's wslay_frame_recv() returns, in order, the frames the *)
(* sending codec's wslay_frame_send() was given, each as one or more      *)
(* iocbs carrying the frame's fin, rsv, opcode, mask bit and payload      *)
(* length and the next bytes of its payload in clear ("This function      *)
(* ensures frame alignment"), and a frame from a conforming sender is     *)
(* never a protocol error.                                                *)
(***************************************************************************)
EXTENDS Naturals, Sequences, SequencesExt

CONSTANT Frames   \* the frames the sender may be given

VARIABLES
    frames,   \* the frames given to the sender: [fin, rsv, opcode, mask, data]
    got,      \* the iocbs the receiver returned, in order
    proto     \* whether the receiver returned WSLAY_ERR_PROTO

\* Where the next iocb starts: the index of its frame and the payload bytes
\* of that frame already returned.
Position ==
    FoldLeft(LAMBDA p, c :
                 IF p.off + Len(c.data) = c.payload_length
                   THEN [i |-> p.i + 1, off |-> 0]
                   ELSE [i |-> p.i, off |-> p.off + Len(c.data)],
             [i |-> 1, off |-> 0], got)

\* The iocbs that may come next: at least one byte of what is left of the
\* frame, or the whole of an empty frame.
NextChunks ==
    LET p == Position IN
    IF p.i > Len(frames) THEN {}
    ELSE LET f == frames[p.i]
             left == Len(f.data) - p.off
         IN  { [fin |-> f.fin, rsv |-> f.rsv, opcode |-> f.opcode, mask |-> f.mask,
                payload_length |-> Len(f.data),
                data |-> SubSeq(f.data, p.off + 1, p.off + k)] :
               k \in IF left = 0 THEN {0} ELSE 1..left }

Init == frames = <<>> /\ got = <<>> /\ proto = FALSE

Give(f) == frames' = Append(frames, f) /\ UNCHANGED <<got, proto>>

Return == \E c \in NextChunks : got' = Append(got, c) /\ UNCHANGED <<frames, proto>>

Next == (\E f \in Frames : Give(f)) \/ Return

Spec == Init /\ [][Next]_<<frames, got, proto>>
=============================================================================
