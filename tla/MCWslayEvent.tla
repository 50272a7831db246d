---------------------------- MODULE MCWslayEvent ----------------------------
(***************************************************************************)
(* One wslay context and a peer that writes whole frames to its transport. *)
(***************************************************************************)
EXTENDS WslayEvent

CONSTANT
    PeerScripts      \* the frame sequences the peer may write, one frame
                     \* [fin, rsv, opcode, mask, data, enc] after another

\* A frame written by a peer that follows the role rules: a client masks.
PeerFrame(fin, op, data) ==
    [fin |-> fin, rsv |-> 0, opcode |-> op, mask |-> Server, data |-> data,
     enc |-> LenEnc(Len(data))]

\* The units of frame f on the wire.
FrameUnits(f) ==
    << Hdr(f.fin, f.rsv, f.opcode, f.mask, Len(f.data), f.enc) >>
    \o [i \in 1..Len(f.data) |-> Byte(f.data[i])]

HeadersIn(w) == Cardinality({i \in DOMAIN w : w[i].t = "H"})

\* The peer writes the next frame of one of its scripts, whenever it likes.
PeerSend ==
    /\ \E sc \in PeerScripts :
          LET k == HeadersIn(wire_in) IN
          /\ k < Len(sc)
          /\ wire_in = FlattenSeq([i \in 1..k |-> FrameUnits(sc[i])])
          /\ wire_in' = wire_in \o FrameUnits(sc[k + 1])
    /\ UNCHANGED <<ctxVars, rxVars, txVars, wire_out, histVars>>

MCNext == Next \/ PeerSend

MCSpec == Init /\ [][MCNext]_vars

MCFairSpec == MCSpec /\ Fairness

MCRecvFairSpec == MCSpec /\ RecvFairness

\* Inputs of the runs.
TextFrag == PeerFrame(0, TEXT, <<195>>)     \* first byte of U+00E9, more to come
TextCont == PeerFrame(1, CONT, <<169>>)     \* its second byte
Ping == PeerFrame(1, PING, <<7>>)
Close1000 == PeerFrame(1, CLOSE, <<3, 232>>)
\* A peer that follows RFC 6455: a control frame between two fragments of
\* a TEXT message whose character is split across them, a CLOSE after a
\* message, after a PING, and between fragments.
ServerScripts ==
    { <<TextFrag, Ping, TextCont>>, <<PeerFrame(1, TEXT, <<65>>), Close1000>>,
      <<Ping, Close1000>>, <<TextFrag, Close1000>> }
\* Frames that break the rules wslay_event_recv() and the codec enforce.
BadPeerFrames ==
    { PeerFrame(1, TEXT, <<192>>), PeerFrame(1, TEXT, <<195>>), PeerFrame(1, BINARY, <<1, 2, 3>>),
      PeerFrame(1, CLOSE, <<3, 236>>), PeerFrame(0, PING, <<>>), PeerFrame(1, CONT, <<7>>),
      [PeerFrame(1, TEXT, <<65>>) EXCEPT !.rsv = 4], [PeerFrame(1, BINARY, <<1>>) EXCEPT !.enc = 16] }
\* TEXT split across frames and reads: valid, invalid at a frame boundary,
\* invalid inside one frame, and ending inside a character.
SplitTextScripts ==
    { <<TextFrag, TextCont>>, <<TextFrag, PeerFrame(1, CONT, <<65>>)>>,
      <<PeerFrame(1, TEXT, <<195, 169>>)>>, <<PeerFrame(1, TEXT, <<195, 65>>)>>,
      <<PeerFrame(1, TEXT, <<224, 169>>)>> }
BadScripts == [1..2 -> BadPeerFrames]
ErrorScripts == BadScripts \cup SplitTextScripts
ClientPeerFrames ==
    { PeerFrame(0, TEXT, <<195>>), PeerFrame(1, CONT, <<169>>), PeerFrame(1, PING, <<>>),
      PeerFrame(1, CLOSE, <<>>), [PeerFrame(1, TEXT, <<65>>) EXCEPT !.mask = TRUE] }
ClientScripts == [1..2 -> ClientPeerFrames]
\* A CLOSE whose reason is not UTF-8.
BadReasonClose == { << PeerFrame(1, CLOSE, <<3, 232, 192>>) >> }
TwoByteMsg == {[opcode |-> TEXT, data |-> <<65, 66>>]}
OneTextMsg == {[opcode |-> TEXT, data |-> <<65>>]}
OneFragMsg == {[opcode |-> BINARY, src |-> << <<1>>, <<2>> >>]}
\* A source whose last read_callback() returns 0 bytes with eof set.
EofFragMsg == {[opcode |-> BINARY, src |-> << <<1>>, <<>> >>]}
OneClose == {[code |-> 1000, reason |-> <<>>]}
=============================================================================
