----------------------------- MODULE WslayFrame -----------------------------
(***************************************************************************)
(* The frame codec of wslay at byte level (src/wslay/frame.c, frame.h):   *)
(* a sending codec, whose wslay_frame_send() builds the header bytes into *)
(* oheader, masks the payload with omaskkey and hands both to             *)
(* send_callback, and a receiving codec, whose wslay_frame_recv() reads   *)
(* bytes into ibuf through recv_callback and parses them back.  The       *)
(* transport between them is the byte sequence chan: what send_callback   *)
(* takes is appended to it, what recv_callback gives is taken from its    *)
(* front.  Either callback may take or give any number of the bytes       *)
(* offered, or none.                                                       *)
(*                                                                         *)
(* The sending side is driven as frame.h asks and as wslay_event_send()   *)
(* does: a frame is given with its whole payload; after a call that sent  *)
(* n payload bytes the next call gives the rest of the payload.  The      *)
(* receiving side calls wslay_frame_recv() again and again.               *)
(*                                                                         *)
(* Each state segment of a codec call (PREP_HEADER, SEND_HEADER,          *)
(* SEND_PAYLOAD; RECV_HEADER1, RECV_EXT_PAYLOADLEN, RECV_MASKKEY,         *)
(* RECV_PAYLOAD) is one step: a call that falls through to the next       *)
(* segment continues in the next step of the same side.  Nothing the      *)
(* caller sees happens between two segments of one call.                  *)
(***************************************************************************)
EXTENDS Naturals, Sequences, SequencesExt, Bitwise

CONSTANTS
    Frames,        \* frames the sender may be given: [fin, rsv, opcode, mask, data]
    MaskKeys,      \* keys genmask_callback may produce: sequences of 4 bytes
    MaxFrames,     \* the number of frames the sender is given, at most
    GenmaskFails,  \* whether genmask_callback may fail
    MaxSplit,      \* a callback offered more bytes than this moves all of them
    NoFrame

ASSUME MaxFrames \in Nat /\ GenmaskFails \in BOOLEAN

VARIABLES
    \* the sending codec (struct wslay_frame_context, o* fields)
    ostate, oheader, oheadermark, opayloadlen, opayloadoff, omask, omaskkey,
    \* its caller: the frame being sent, the payload bytes sent of it, and
    \* whether a failed call made it give up
    cur, off, stopped,
    \* the transport
    chan,
    \* the receiving codec (i* fields); ibuf holds ibuf[0 .. ibuflimit)
    ibuf, ibufmark, istate, ireqread, iom, ipayloadlen, ipayloadoff, imask, imaskkey,
    \* history: the frames given to the sender, the iocbs the receiver
    \* returned, and the receiver's last return value
    sent, got, rret

sendVars == <<ostate, oheader, oheadermark, opayloadlen, opayloadoff, omask, omaskkey,
              cur, off, stopped, sent>>
recvVars == <<ibuf, ibufmark, istate, ireqread, iom, ipayloadlen, ipayloadoff,
              imask, imaskkey, got, rret>>
vars == <<sendVars, chan, recvVars>>

\* enum wslay_frame_state: the sending codec's states and the receiving
\* codec's.  RECV_PAYLOADLEN is declared but never entered.
SendStates == {"PREP_HEADER", "SEND_HEADER", "SEND_PAYLOAD"}
RecvStates == {"RECV_HEADER1", "RECV_PAYLOADLEN", "RECV_EXT_PAYLOADLEN", "RECV_MASKKEY",
               "RECV_PAYLOAD"}

\* The byte counts a callback offered n > 0 bytes may move: any, or all of
\* them when n exceeds the bound MaxSplit.
Moves(n) == IF n <= MaxSplit THEN 1..n ELSE {n}

WANT_READ == "WANT_READ"
PROTO == "PROTO"
OK == "OK"   \* a return of 0

\* wslay_is_ctrl_frame(): the opcode has bit 3 set.
IsCtrl(opcode) == (shiftR(opcode, 3) & 1) = 1

\* n as k big-endian bytes (htons, htobe64) and back (be64toh).
BigEndian(n, k) == [i \in 1..k |-> shiftR(n, 8 * (k - i)) & 255]
FromBigEndian(s) == FoldLeft(LAMBDA a, b : a * 256 + b, 0, s)

\* The payload bytes, XORed with key from payload offset o on: the masking
\* loops of wslay_frame_send() and wslay_frame_recv().
MaskFrom(d, key, o) == [i \in 1..Len(d) |-> d[i] ^^ key[((o + i - 1) % 4) + 1]]

\* The header bytes PREP_HEADER builds into oheader, key excluded.
HeaderBytes(f) ==
    LET len == Len(f.data)
        b0 == ((f.fin * 128) & 128) | ((f.rsv * 16) & 112) | (f.opcode & 15)
        m == (f.mask * 128) & 128
    IN  IF len < 126 THEN << b0, m | len >>
        ELSE IF len < 2^16 THEN << b0, m | 126 >> \o BigEndian(len, 2)
        ELSE << b0, m | 127 >> \o BigEndian(len, 8)

Init ==
    /\ ostate = "PREP_HEADER" /\ oheader = <<>> /\ oheadermark = 0
    /\ opayloadlen = 0 /\ opayloadoff = 0 /\ omask = 0 /\ omaskkey = <<0, 0, 0, 0>>
    /\ cur = NoFrame /\ off = 0 /\ stopped = FALSE
    /\ chan = <<>>
    /\ ibuf = <<>> /\ ibufmark = 0 /\ istate = "RECV_HEADER1" /\ ireqread = 2
    /\ iom = [fin |-> 0, opcode |-> 0, rsv |-> 0]
    /\ ipayloadlen = 0 /\ ipayloadoff = 0 /\ imask = 0 /\ imaskkey = <<0, 0, 0, 0>>
    /\ sent = <<>> /\ got = <<>> /\ rret = OK

-----------------------------------------------------------------------------
(* Sending (frame.c 39-167). *)

\* PREP_HEADER: the caller gives a new frame; the header is built, with a
\* fresh mask key from genmask_callback when the frame is masked.  A failing
\* genmask_callback returns WSLAY_ERR_INVALID_CALLBACK and the caller stops;
\* the 14-byte oheader was cleared and rewritten, but oheadermark and
\* oheaderlimit still delimit the previous header.
PrepHeader ==
    /\ ~stopped /\ cur = NoFrame /\ ostate = "PREP_HEADER"
    /\ Len(sent) < MaxFrames
    /\ \E f \in Frames :
          /\ \/ /\ f.mask = 1 /\ GenmaskFails
                /\ stopped' = TRUE
                /\ oheader' = SubSeq(HeaderBytes(f) \o [i \in 1..14 |-> 0], 1, Len(oheader))
                /\ UNCHANGED <<ostate, oheadermark, opayloadlen, opayloadoff, omask,
                               omaskkey, cur, off, sent>>
             \/ /\ \/ f.mask = 0 /\ oheader' = HeaderBytes(f) /\ UNCHANGED <<omask, omaskkey>>
                   \/ \E key \in MaskKeys :
                         /\ f.mask = 1
                         /\ omask' = 1 /\ omaskkey' = key
                         /\ oheader' = HeaderBytes(f) \o key
                /\ ostate' = "SEND_HEADER" /\ oheadermark' = 0
                /\ opayloadlen' = Len(f.data) /\ opayloadoff' = 0
                /\ cur' = f /\ off' = 0 /\ sent' = Append(sent, f)
                /\ UNCHANGED stopped
    /\ UNCHANGED <<chan, recvVars>>

\* SEND_HEADER: send_callback takes r of the header bytes left.  All of them
\* move on to SEND_PAYLOAD; fewer, or none, return WSLAY_ERR_WANT_WRITE.
SendHeader ==
    /\ ~stopped /\ ostate = "SEND_HEADER"
    /\ \E r \in Moves(Len(oheader) - oheadermark) :
          /\ chan' = chan \o SubSeq(oheader, oheadermark + 1, oheadermark + r)
          /\ oheadermark' = oheadermark + r
          /\ ostate' = IF oheadermark + r = Len(oheader) THEN "SEND_PAYLOAD" ELSE ostate
    /\ UNCHANGED <<oheader, opayloadlen, opayloadoff, omask, omaskkey, cur, off,
                   stopped, sent, recvVars>>

\* Seeded fault: the key index restarts at every call.
SendPayloadCallOffset ==
    /\ ~stopped /\ ostate = "SEND_PAYLOAD"
    /\ LET data == SubSeq(cur.data, off + 1, Len(cur.data))
       IN  \E t \in IF data = <<>> THEN {0} ELSE Moves(Len(data)) :
              LET out == SubSeq(data, 1, t)
              IN  /\ chan' = chan \o (IF omask = 1 THEN MaskFrom(out, omaskkey, 0) ELSE out)
                  /\ opayloadoff' = opayloadoff + t
                  /\ ostate' = IF opayloadoff + t = opayloadlen THEN "PREP_HEADER" ELSE ostate
                  /\ off' = off + t
                  /\ cur' = IF off + t = Len(cur.data) THEN NoFrame ELSE cur
    /\ UNCHANGED <<oheader, oheadermark, opayloadlen, omask, omaskkey, stopped, sent,
                   recvVars>>

\* SEND_PAYLOAD, given the rest of the payload: send_callback takes t of
\* its bytes, XORed with omaskkey from opayloadoff on when omask is set,
\* in one or more calls, and the call returns 0 with *length = t; with no
\* payload left it returns 0 with *length = 0.  A callback taking none of
\* a non-empty payload returns WSLAY_ERR_WANT_WRITE and changes nothing.
\* After the last byte the codec is back at PREP_HEADER, and the caller,
\* having sent the whole payload, is done with the frame.
SendPayload ==
    /\ ~stopped /\ ostate = "SEND_PAYLOAD"
    /\ LET data == SubSeq(cur.data, off + 1, Len(cur.data))
       IN  \E t \in IF data = <<>> THEN {0} ELSE Moves(Len(data)) :
              LET out == SubSeq(data, 1, t)
              IN  /\ chan' = chan \o (IF omask = 1 THEN MaskFrom(out, omaskkey, opayloadoff)
                                                   ELSE out)
                  /\ opayloadoff' = opayloadoff + t
                  /\ ostate' = IF opayloadoff + t = opayloadlen THEN "PREP_HEADER" ELSE ostate
                  /\ off' = off + t
                  /\ cur' = IF off + t = Len(cur.data) THEN NoFrame ELSE cur
    /\ UNCHANGED <<oheader, oheadermark, opayloadlen, omask, omaskkey, stopped, sent,
                   recvVars>>

-----------------------------------------------------------------------------
(* Receiving (frame.c 169-323). *)

Avail == Len(ibuf) - ibufmark

\* wslay_recv(): ibuf is shifted so that ibufmark is at its start, then
\* recv_callback gives r > 0 bytes of the transport, or fails.  ibuf has
\* 4096 bytes and never holds more than a header, so there is always room.
Shifted == SubSeq(ibuf, ibufmark + 1, Len(ibuf))
Filled(r) == Shifted \o SubSeq(chan, 1, r)

\* What the receiver sees after the read, if any, a segment does before
\* parsing: ibuf, ibufmark and chan, with at least need bytes available.
\* A segment that finds fewer than need bytes available reads once.
Ready(need) ==
    IF Avail >= need
      THEN {[buf |-> ibuf, mark |-> ibufmark, rest |-> chan]}
      ELSE {[buf |-> Filled(r), mark |-> 0, rest |-> SubSeq(chan, r + 1, Len(chan))] :
            r \in {r \in Moves(Len(chan)) : Avail + r >= need}}

\* Seeded fault: RECV_PAYLOAD reads whenever ibuf is empty.
NeedAlwaysRead ==
    IF istate = "RECV_PAYLOAD" THEN IF Avail = 0 THEN 1 ELSE 0 ELSE ireqread

\* The bytes a segment needs: ireqread for a header part, one byte for a
\* payload with bytes left and none in ibuf.
Need ==
    IF istate = "RECV_PAYLOAD"
      THEN IF Avail = 0 /\ ipayloadlen > ipayloadoff THEN 1 ELSE 0
      ELSE ireqread

\* A segment that finds too few bytes: wslay_recv() shifts ibuf, and
\* recv_callback fails, or gives bytes that are still too few (which
\* RECV_PAYLOAD never sees).  The call returns WSLAY_ERR_WANT_READ.
RecvShort ==
    /\ Avail < Need
    /\ ibufmark' = 0
    /\ \/ ibuf' = Shifted /\ UNCHANGED chan
       \/ \E r \in Moves(Len(chan)) :
             /\ istate # "RECV_PAYLOAD" /\ Avail + r < Need
             /\ ibuf' = Filled(r)
             /\ chan' = SubSeq(chan, r + 1, Len(chan))
    /\ rret' = WANT_READ
    /\ UNCHANGED <<istate, ireqread, iom, ipayloadlen, ipayloadoff, imask, imaskkey, got,
                   sendVars>>

\* RECV_HEADER1: the first two bytes give fin, rsv, opcode, the mask bit
\* and the 7-bit length.  A control frame longer than 125 or without fin
\* returns WSLAY_ERR_PROTO, the two bytes consumed; 126 and 127 ask for a
\* 2- or 8-byte extended length; otherwise the length is taken as it is.
RecvHeader1 ==
    /\ istate = "RECV_HEADER1" /\ Avail + Len(chan) >= ireqread
    /\ \E rd \in Ready(ireqread) :
          LET b0 == rd.buf[rd.mark + 1]
              b1 == rd.buf[rd.mark + 2]
              fin == shiftR(b0, 7) & 1
              opcode == b0 & 15
              payloadlen == b1 & 127
          IN  /\ ibuf' = rd.buf /\ ibufmark' = rd.mark + 2 /\ chan' = rd.rest
              /\ iom' = [fin |-> fin, opcode |-> opcode, rsv |-> shiftR(b0, 4) & 7]
              /\ imask' = shiftR(b1, 7) & 1
              /\ IF IsCtrl(opcode) /\ (payloadlen > 125 \/ fin = 0)
                   THEN rret' = PROTO /\ UNCHANGED <<istate, ireqread, ipayloadlen, ipayloadoff>>
                 ELSE IF payloadlen >= 126
                   THEN /\ istate' = "RECV_EXT_PAYLOADLEN"
                        /\ ireqread' = IF payloadlen = 126 THEN 2 ELSE 8
                        /\ UNCHANGED <<rret, ipayloadlen, ipayloadoff>>
                 ELSE /\ ipayloadlen' = payloadlen /\ ipayloadoff' = 0
                      /\ istate' = IF imask' = 1 THEN "RECV_MASKKEY" ELSE "RECV_PAYLOAD"
                      /\ ireqread' = IF imask' = 1 THEN 4 ELSE ireqread
                      /\ UNCHANGED rret
    /\ UNCHANGED <<imaskkey, got, sendVars>>

\* Seeded fault: a 2-byte length of 125 accepted.
RecvExtLenBelow125 ==
    /\ istate = "RECV_EXT_PAYLOADLEN" /\ Avail + Len(chan) >= ireqread
    /\ \E rd \in Ready(ireqread) :
          LET len == FromBigEndian(SubSeq(rd.buf, rd.mark + 1, rd.mark + ireqread))
              \* bit 63 of the big-endian value is bit 7 of its first byte
              bit63 == (rd.buf[rd.mark + 1] & 128) # 0
              bad == IF ireqread = 8 THEN len < 2^16 \/ bit63 ELSE len < 125
          IN  /\ ibuf' = rd.buf /\ ibufmark' = rd.mark + ireqread /\ chan' = rd.rest
              /\ ipayloadlen' = len /\ ipayloadoff' = 0
              /\ IF bad
                   THEN rret' = PROTO /\ UNCHANGED <<istate, ireqread>>
                   ELSE /\ istate' = IF imask = 1 THEN "RECV_MASKKEY" ELSE "RECV_PAYLOAD"
                        /\ ireqread' = IF imask = 1 THEN 4 ELSE ireqread
                        /\ UNCHANGED rret
    /\ UNCHANGED <<iom, imask, imaskkey, got, sendVars>>

\* RECV_EXT_PAYLOADLEN: the extended length, big-endian.  An 8-byte length
\* below 2^16 or with bit 63 set, or a 2-byte length below 126, returns
\* WSLAY_ERR_PROTO: the length must be in its shortest form.
RecvExtLen ==
    /\ istate = "RECV_EXT_PAYLOADLEN" /\ Avail + Len(chan) >= ireqread
    /\ \E rd \in Ready(ireqread) :
          LET len == FromBigEndian(SubSeq(rd.buf, rd.mark + 1, rd.mark + ireqread))
              \* bit 63 of the big-endian value is bit 7 of its first byte
              bit63 == (rd.buf[rd.mark + 1] & 128) # 0
              bad == IF ireqread = 8 THEN len < 2^16 \/ bit63 ELSE len < 126
          IN  /\ ibuf' = rd.buf /\ ibufmark' = rd.mark + ireqread /\ chan' = rd.rest
              /\ ipayloadlen' = len /\ ipayloadoff' = 0
              /\ IF bad
                   THEN rret' = PROTO /\ UNCHANGED <<istate, ireqread>>
                   ELSE /\ istate' = IF imask = 1 THEN "RECV_MASKKEY" ELSE "RECV_PAYLOAD"
                        /\ ireqread' = IF imask = 1 THEN 4 ELSE ireqread
                        /\ UNCHANGED rret
    /\ UNCHANGED <<iom, imask, imaskkey, got, sendVars>>

\* RECV_MASKKEY: the 4-byte masking key.
RecvMaskKey ==
    /\ istate = "RECV_MASKKEY" /\ Avail + Len(chan) >= 4
    /\ \E rd \in Ready(ireqread) :
          /\ ibuf' = rd.buf /\ ibufmark' = rd.mark + 4 /\ chan' = rd.rest
          /\ imaskkey' = SubSeq(rd.buf, rd.mark + 1, rd.mark + 4)
          /\ istate' = "RECV_PAYLOAD"
    /\ UNCHANGED <<ireqread, iom, ipayloadlen, ipayloadoff, imask, got, rret, sendVars>>

\* Seeded fault: RECV_PAYLOAD takes all of ibuf, not only what is left of
\* the payload.
RecvPayloadUncapped ==
    /\ istate = "RECV_PAYLOAD" /\ Avail + Len(chan) >= Need
    /\ \E rd \in Ready(Need) :
          LET n == Len(rd.buf) - rd.mark
              raw == SubSeq(rd.buf, rd.mark + 1, rd.mark + n)
              data == IF imask = 1 THEN MaskFrom(raw, imaskkey, ipayloadoff) ELSE raw
          IN  /\ ibuf' = SubSeq(rd.buf, 1, rd.mark) \o data
              /\ ibufmark' = rd.mark + n /\ chan' = rd.rest
              /\ ipayloadoff' = ipayloadoff + n
              /\ got' = Append(got, [fin |-> iom.fin, rsv |-> iom.rsv, opcode |-> iom.opcode,
                                     payload_length |-> ipayloadlen, mask |-> imask,
                                     data |-> data])
              /\ istate' = IF ipayloadoff + n = ipayloadlen THEN "RECV_HEADER1" ELSE istate
              /\ ireqread' = IF ipayloadoff + n = ipayloadlen THEN 2 ELSE ireqread
              /\ rret' = OK
    /\ UNCHANGED <<iom, ipayloadlen, imask, imaskkey, sendVars>>

\* RECV_PAYLOAD: what ibuf holds of the payload, at most what is left of
\* it, reading first when ibuf is empty and bytes are left.  Masked bytes
\* are unmasked in place with imaskkey from ipayloadoff on.  The call
\* returns 0 with an iocb of the frame's header fields and these bytes;
\* after the last byte the codec is back at RECV_HEADER1.
RecvPayload ==
    /\ istate = "RECV_PAYLOAD" /\ Avail + Len(chan) >= Need
    /\ \E rd \in Ready(Need) :
          LET n == Min({Len(rd.buf) - rd.mark, ipayloadlen - ipayloadoff})
              raw == SubSeq(rd.buf, rd.mark + 1, rd.mark + n)
              data == IF imask = 1 THEN MaskFrom(raw, imaskkey, ipayloadoff) ELSE raw
          IN  /\ ibuf' = SubSeq(rd.buf, 1, rd.mark) \o data
                         \o SubSeq(rd.buf, rd.mark + n + 1, Len(rd.buf))
              /\ ibufmark' = rd.mark + n /\ chan' = rd.rest
              /\ ipayloadoff' = ipayloadoff + n
              /\ got' = Append(got, [fin |-> iom.fin, rsv |-> iom.rsv, opcode |-> iom.opcode,
                                     payload_length |-> ipayloadlen, mask |-> imask,
                                     data |-> data])
              /\ istate' = IF ipayloadoff + n = ipayloadlen THEN "RECV_HEADER1" ELSE istate
              /\ ireqread' = IF ipayloadoff + n = ipayloadlen THEN 2 ELSE ireqread
              /\ rret' = OK
    /\ UNCHANGED <<iom, ipayloadlen, imask, imaskkey, sendVars>>

Next ==
    \/ PrepHeader \/ SendHeader \/ SendPayload
    \/ RecvShort \/ RecvHeader1 \/ RecvExtLen \/ RecvMaskKey \/ RecvPayload

Spec == Init /\ [][Next]_vars

\* The host keeps calling wslay_frame_send() on a frame it has begun and
\* wslay_frame_recv() while it wants to read, and the transport moves bytes
\* that are offered: the segments that make progress are weakly fair.
Fairness ==
    /\ WF_vars(SendHeader) /\ WF_vars(SendPayload)
    /\ WF_vars(RecvHeader1) /\ WF_vars(RecvExtLen) /\ WF_vars(RecvMaskKey)
    /\ WF_vars(RecvPayload)

FairSpec == Spec /\ Fairness

-----------------------------------------------------------------------------
\* Every field holds a value of its C type, and no pointer of the context
\* leaves its array: oheadermark stays within the at most 14 header bytes
\* PREP_HEADER wrote to oheader, ibufmark within the bytes of the 4096-byte
\* ibuf, and the payload offsets within their frames' lengths, however
\* the reads of wslay_recv() split the stream.
TypeOK ==
    /\ ostate \in SendStates /\ istate \in RecvStates
    /\ oheader \in Seq(0..255) /\ Len(oheader) <= 14 /\ oheadermark \in 0..Len(oheader)
    /\ opayloadoff \in 0..opayloadlen
    /\ omask \in {0, 1} /\ omaskkey \in [1..4 -> 0..255]
    /\ ibuf \in Seq(0..255) /\ Len(ibuf) <= 4096 /\ ibufmark \in 0..Len(ibuf)
    /\ ireqread \in {2, 4, 8}
    /\ iom \in [fin : {0, 1}, opcode : 0..15, rsv : 0..7]
    /\ ipayloadoff \in 0..ipayloadlen
    /\ imask \in {0, 1} /\ imaskkey \in [1..4 -> 0..255]

-----------------------------------------------------------------------------
\* The codec pair implements the frame stream (spec.md, round trip): every
\* iocb wslay_frame_recv() returns carries the header fields of the frame
\* the sender was given at that point of the stream and the next bytes of
\* its payload in clear, across every split of the header and payload bytes
\* between send_callback and recv_callback calls and every masking key, and
\* no frame of the sender is a protocol error.
Stream == INSTANCE FrameStream WITH frames <- sent, proto <- (rret = PROTO)
StreamRefinement == Stream!Spec

\* Every frame the sender is given is eventually returned in full by the
\* receiver, when both sides keep calling and the transport keeps moving
\* bytes.
FramesArrive == \A k \in 1..MaxFrames :
                    Len(sent) >= k ~> Stream!Position.i > k
=============================================================================
