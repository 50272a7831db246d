---------------------------- MODULE MCFrameErrors ----------------------------
(***************************************************************************)
(* WslayFrame's receiver facing a peer that is not a wslay codec: the     *)
(* peer puts one crafted header on the transport and the receiver parses  *)
(* it.                                                                     *)
(***************************************************************************)
EXTENDS MCWslayFrame

VARIABLE hdr   \* the header the peer sent, <<>> before it does

\* Headers at the edges of the RFC 6455 rules the receiver enforces: a
\* PING without fin, a PING of 126 bytes, 2-byte lengths 125 and 126,
\* 8-byte lengths 65535 and 65536, and a masked CLOSE.  Lengths at bit 63
\* exceed the integers TLC evaluates.
CraftedHeaders ==
    { <<9, 0>>, <<137, 126, 0, 126>>, <<130, 126, 0, 125>>, <<130, 126, 0, 126>>,
      <<130, 127, 0, 0, 0, 0, 0, 0, 255, 255>>, <<130, 127, 0, 0, 0, 0, 0, 1, 0, 0>>,
      <<136, 130, 1, 2, 3, 4>> }

PeerSendHeader ==
    /\ hdr = <<>>
    /\ \E h \in CraftedHeaders : hdr' = h /\ chan' = chan \o h
    /\ UNCHANGED <<sendVars, recvVars>>

PeerInit == Init /\ hdr = <<>>
\* The caller stops reading once wslay_frame_recv() returns
\* WSLAY_ERR_PROTO, as wslay_event_recv() does (event.c 481-489).
PeerNext == (rret # PROTO /\ Next /\ UNCHANGED hdr) \/ PeerSendHeader
PeerSpec == PeerInit /\ [][PeerNext]_<<vars, hdr>>

\* RFC 6455 section 5.2 and 5.5, written from the byte values: a control
\* frame (opcode 8 or above) must be final and at most 125 bytes long, and
\* a length must take the shortest of its three encodings.
Declared(h) ==
    LET len7 == h[2] % 128
    IN  IF len7 < 126 THEN len7
        ELSE FromBigEndian(SubSeq(h, 3, IF len7 = 126 THEN 4 ELSE 10))
Malformed(h) ==
    LET fin == h[1] >= 128
        ctrl == h[1] % 16 >= 8
        len7 == h[2] % 128
    IN  \/ ctrl /\ (~fin \/ Declared(h) > 125)
        \/ len7 = 126 /\ Declared(h) < 126
        \/ len7 = 127 /\ Declared(h) < 65536

\* wslay_frame_recv() returns WSLAY_ERR_PROTO for a header exactly when
\* RFC 6455 calls it malformed, across every split of it between reads:
\* a malformed header is never taken on to RECV_MASKKEY or RECV_PAYLOAD,
\* and a well-formed one arrives there with its declared length.
ProtoIffMalformed ==
    hdr # <<>> =>
        /\ rret = PROTO => Malformed(hdr)
        /\ istate \in {"RECV_MASKKEY", "RECV_PAYLOAD"} =>
               ~Malformed(hdr) /\ ipayloadlen = Declared(hdr)
        /\ (Malformed(hdr) /\ chan = <<>> /\ Avail = 0) => rret = PROTO
=============================================================================
