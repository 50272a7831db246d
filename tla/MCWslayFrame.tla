---------------------------- MODULE MCWslayFrame ----------------------------
(***************************************************************************)
(* Inputs for WslayFrame: the frames a sender is given, and the keys      *)
(* genmask_callback produces.                                              *)
(***************************************************************************)
EXTENDS WslayFrame

Frame(fin, rsv, opcode, mask, data) ==
    [fin |-> fin, rsv |-> rsv, opcode |-> opcode, mask |-> mask, data |-> data]

\* A client: every frame masked.  A 3-byte TEXT frame, so that the key
\* index wraps at different payload offsets across splits, an empty
\* non-final BINARY frame with rsv bits, and a PING.
ClientFrames ==
    { Frame(1, 0, 1, 1, <<1, 2, 3>>), Frame(0, 4, 2, 1, <<>>), Frame(1, 0, 9, 1, <<7>>) }

\* A key whose bytes all differ, so that a byte masked at the wrong offset
\* comes out wrong.
Keys == { <<1, 2, 4, 8>> }

\* A sender whose frames are masked and then unmasked, as frame.h allows.
MixedFrames == { Frame(1, 0, 1, 1, <<1>>), Frame(1, 0, 2, 0, <<1, 2>>) }

\* With ClientFrames, a masked frame of 126 bytes, the shortest length that
\* takes the 2-byte extended length.
LongFrame == Frame(1, 0, 2, 1, [i \in 1..126 |-> i % 3])
ClientAndLongFrames == ClientFrames \cup {LongFrame}
=============================================================================
