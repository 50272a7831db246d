----------------------------- MODULE WslayEvent -----------------------------
(***************************************************************************)
(* One wslay event-based context (src/wslay/event.c, context.c) together  *)
(* with the frame codec state it drives (src/wslay/frame.c).              *)
(*                                                                         *)
(* Each iteration of the loops of wslay_event_send() and                  *)
(* wslay_event_recv() is one step: the host may call the queueing API     *)
(* from the callbacks that run inside those loops, and a loop that breaks *)
(* on WOULDBLOCK is simply called again.  The transport and the host's    *)
(* fragmented-message sources are nondeterministic.                       *)
(*                                                                         *)
(* The wire is a sequence of units: a frame header ("H") or one payload   *)
(* byte ("B").  Payload bytes are kept in clear: masking is undone by the *)
(* receiving codec and is modelled in its own module.  wire_in is read    *)
(* from position inpos, wire_out only grows, so that one context's        *)
(* wire_out can be another's wire_in.                                     *)
(***************************************************************************)
EXTENDS Integers, Sequences, SequencesExt, FiniteSets, Utf8

CONSTANTS
    Server,            \* wslay_event_context.server (wslay_server_new)
    NoBuffering,       \* WSLAY_CONFIG_NO_BUFFERING in config
    DefaultMaxRecvMsgLength, \* UINT64_MAX (context.c:90): above any message of a run
    RecvMsgLimits,     \* values the host may give set_max_recv_msg_length()
    NULL,              \* no message in flight / no frame in progress
    HostMsgs,          \* arguments [opcode, data] of wslay_event_queue_msg()
    HostFragMsgs,      \* arguments [opcode, src] of queue_fragmented_msg()
    HostCloses,        \* arguments [code, reason] of wslay_event_queue_close()
    RecvFails,         \* whether recv_callback() may fail
    SendFails,         \* whether send_callback() and read_callback() may fail
    MaxHostCalls,      \* bound on calls of the queueing and shutdown API
    AllocFails         \* whether talloc() and malloc() may fail

ASSUME {Server, NoBuffering, RecvFails, SendFails, AllocFails} \subseteq BOOLEAN
ASSUME DefaultMaxRecvMsgLength \in Nat /\ RecvMsgLimits \subseteq Nat /\ MaxHostCalls \in Nat

\* wslay.h: enum wslay_opcode, wslay_is_ctrl_frame()
CONT == 0
TEXT == 1
BINARY == 2
CLOSE == 8
PING == 9
PONG == 10
IsCtrl(op) == (op \div 8) % 2 = 1
NoOpcode == 255   \* imsg->opcode 0xff: the slot is empty

\* wslay.h: enum wslay_error
WANT_READ == -100
WANT_WRITE == -101
PROTO == -200
INVALID_CALLBACK == -301
NO_MORE_MSG == -302
CALLBACK_FAILURE == -400
WOULDBLOCK == -401
NOMEM == -500

\* wslay.h: enum wslay_status_code
PROTOCOL_ERROR == 1002
NO_STATUS_RCVD == 1005
ABNORMAL_CLOSURE == 1006
INVALID_FRAME_PAYLOAD_DATA == 1007
MESSAGE_TOO_BIG == 1009

\* The two bytes of a status code in network order, and back (htons/ntohs).
StatusBytes(code) == << code \div 256, code % 256 >>
StatusOf(msg) == msg[1] * 256 + msg[2]

Bytes == 0..255

VARIABLES
    read_enabled, write_enabled, close_status, status_code_sent,
    status_code_recv, error,
    \* receive side: the two imsg slots, the current one, the event ctx's
    \* ipayloadlen/ipayloadoff, and the codec's frame in progress
    imsgs, imsg, ipayloadlen, ipayloadoff, ifr, inpos, max_recv_msg_length,
    \* send side: the message in flight, the two queues, the counters,
    \* the fragmented-message buffer obuf and the codec's ostate
    omsg, send_queue, send_ctrl_queue, queued_msg_count, queued_msg_length,
    obuf, opayloadlen, opayloadoff, ostate,
    wire_in, wire_out,
    \* history: return values, on_msg_recv() calls, queued data messages
    recv_ret, delivered, queued_data, host_calls

ctxVars == <<read_enabled, write_enabled, close_status, status_code_sent,
             status_code_recv, error>>
rxVars == <<imsgs, imsg, ipayloadlen, ipayloadoff, ifr, inpos, max_recv_msg_length>>
txVars == <<omsg, send_queue, send_ctrl_queue, queued_msg_count,
            queued_msg_length, obuf, opayloadlen, opayloadoff, ostate>>
histVars == <<recv_ret, delivered, queued_data, host_calls>>
vars == <<ctxVars, rxVars, txVars, wire_in, wire_out, histVars>>

-----------------------------------------------------------------------------
(* Data of the context.                                                    *)

Hdr(fin, rsv, op, mask, len, enc) ==
    [t |-> "H", fin |-> fin, rsv |-> rsv, opcode |-> op, mask |-> mask,
     len |-> len, lenenc |-> enc]
Byte(b) == [t |-> "B", b |-> b]

\* frame.c wslay_frame_send(): 7-bit length, 16-bit (126) or 64-bit (127).
LenEnc(len) == IF len < 126 THEN 7 ELSE IF len < 65536 THEN 16 ELSE 64

\* struct wslay_event_omsg; type NF carries data, type FR a source of chunks.
NFMsg(op, data) == [type |-> "NF", fin |-> 1, opcode |-> op, data |-> data, src |-> <<>>]
FRMsg(op, src) == [type |-> "FR", fin |-> 0, opcode |-> op, data |-> <<>>, src |-> src]

\* struct wslay_event_imsg, without the chunk queue: msg holds the bytes
\* buffered so far and msg_length the sum of the allocated chunk lengths.
EmptyImsg == [fin |-> 0, rsv |-> 0, opcode |-> NoOpcode, utf8state |-> UTF8_ACCEPT,
              msg |-> <<>>, msg_length |-> 0]

\* wslay_event_imsg_set()
ImsgSet(m, fin, rsv, op) ==
    [m EXCEPT !.fin = fin, !.rsv = rsv, !.opcode = op, !.msg_length = 0]

\* wslay_event_imsg_reset(): declared in event.c, body not in the sources.
ImsgReset(m) == [m EXCEPT !.opcode = NoOpcode, !.utf8state = UTF8_ACCEPT,
                          !.msg = <<>>, !.msg_length = 0]

\* wslay_event_is_msg_queueable()
Queueable(cs) == write_enabled /\ "QUEUED" \notin cs

\* wslay_event_is_valid_status_code()
IsValidStatusCode(c) ==
    \/ 1000 <= c /\ c <= 1011 /\ c \notin {1004, 1005, 1006}
    \/ 3000 <= c /\ c <= 4999

\* The CLOSE message built by wslay_event_queue_close().
CloseMsg(code, reason) ==
    NFMsg(CLOSE, IF code = 0 THEN <<>> ELSE StatusBytes(code) \o reason)

-----------------------------------------------------------------------------
(* Queueing API (event.c lines 162-257) and shutdown (lines 668-676).      *)

HostCall == host_calls < MaxHostCalls /\ host_calls' = host_calls + 1

\* Appends a NON_FRAGMENTED message to its queue and counts it; the part of
\* wslay_event_queue_msg() after its checks.  cs is close_status after.
PushMsg(op, data, cs) ==
    /\ IF IsCtrl(op)
         THEN /\ send_ctrl_queue' = Append(send_ctrl_queue, NFMsg(op, data))
              /\ UNCHANGED <<send_queue, queued_data>>
         ELSE /\ send_queue' = Append(send_queue, NFMsg(op, data))
              /\ queued_data' = Append(queued_data, [opcode |-> op, bytes |-> data])
              /\ UNCHANGED send_ctrl_queue
    /\ queued_msg_count' = queued_msg_count + 1
    /\ queued_msg_length' = queued_msg_length + Len(data)
    /\ close_status' = cs

\* wslay_event_queue_msg(): NO_MORE_MSG and INVALID_ARGUMENT change nothing.
QueueMsg(m) ==
    /\ HostCall
    /\ Queueable(close_status)
    /\ ~(IsCtrl(m.opcode) /\ Len(m.data) > 125)
    /\ PushMsg(m.opcode, m.data, close_status)
    /\ UNCHANGED <<ctxVars, rxVars, omsg, obuf, opayloadlen, opayloadoff, ostate>>
    /\ UNCHANGED <<wire_in, wire_out, recv_ret, delivered>>

\* wslay_event_queue_fragmented_msg()
QueueFragmentedMsg(m) ==
    /\ HostCall
    /\ Queueable(close_status)
    /\ ~IsCtrl(m.opcode)
    /\ send_queue' = Append(send_queue, FRMsg(m.opcode, m.src))
    /\ queued_data' = Append(queued_data, [opcode |-> m.opcode, bytes |-> FlattenSeq(m.src)])
    /\ queued_msg_count' = queued_msg_count + 1
    /\ UNCHANGED <<ctxVars, rxVars, omsg, send_ctrl_queue, queued_msg_length>>
    /\ UNCHANGED <<obuf, opayloadlen, opayloadoff, ostate>>
    /\ UNCHANGED <<wire_in, wire_out, recv_ret, delivered>>

\* wslay_event_queue_close(): the CLOSE is pushed and CLOSE_QUEUED is set.
QueueCloseEffect(code, reason, cs) ==
    LET c == CloseMsg(code, reason) IN
    PushMsg(CLOSE, c.data, cs \cup {"QUEUED"})

\* wslay_event_queue_close() called by the host.
QueueClose(c) ==
    /\ HostCall
    /\ Queueable(close_status)
    /\ Len(c.reason) <= 123
    /\ QueueCloseEffect(c.code, c.reason, close_status)
    /\ UNCHANGED <<read_enabled, write_enabled, status_code_sent, status_code_recv, error>>
    /\ UNCHANGED <<rxVars, omsg, obuf, opayloadlen, opayloadoff, ostate>>
    /\ UNCHANGED <<wire_in, wire_out, recv_ret, delivered>>

\* The outcomes of wslay_event_queue_close_wrapper() with close_status cs:
\* whether the CLOSE was queued, and the value returned.  queue_close()
\* reports "not queueable" as 1, not as WSLAY_ERR_NO_MORE_MSG, so the
\* wrapper passes it on; so it does with the -1 of a failed talloc() in
\* wslay_event_omsg_non_fragmented_new() and the 1 of a failed malloc() in
\* wslay_queue_push().  Reasons here come from a control frame and are
\* <= 123 bytes.
WrapperResults(cs) ==
    IF ~Queueable(cs) THEN {[queued |-> FALSE, ret |-> 1]}
    ELSE {[queued |-> TRUE, ret |-> 0]}
         \cup IF AllocFails THEN {[queued |-> FALSE, ret |-> -1], [queued |-> FALSE, ret |-> 1]}
               ELSE {}

\* Seeded fault: no CLOSE is queued once the peer's CLOSE has arrived.
CloseWrapperNoEcho(code, reason, cs, w) ==
    /\ read_enabled' = FALSE
    /\ IF w.queued /\ "RECEIVED" \notin cs
         THEN QueueCloseEffect(code, reason, cs)
         ELSE /\ close_status' = cs
              /\ UNCHANGED <<send_queue, send_ctrl_queue, queued_data,
                             queued_msg_count, queued_msg_length>>

\* wslay_event_queue_close_wrapper(), called from wslay_event_recv() with
\* close_status cs and outcome w: clear read_enabled, then queue the CLOSE.
CloseWrapper(code, reason, cs, w) ==
    /\ read_enabled' = FALSE
    /\ IF w.queued
         THEN QueueCloseEffect(code, reason, cs)
         ELSE /\ close_status' = cs
              /\ UNCHANGED <<send_queue, send_ctrl_queue, queued_data,
                             queued_msg_count, queued_msg_length>>

\* The wrapper called with code and no reason, as on each error path of
\* wslay_event_recv(): a non-zero value is returned, 0 breaks the loop.
RecvCloseWith(code) ==
    \E w \in WrapperResults(close_status) :
        CloseWrapper(code, <<>>, close_status, w) /\ recv_ret' = w.ret

\* wslay_event_config_set_max_recv_msg_length(): the host may call it at
\* any time; the next frame wslay_event_recv() takes up is checked against
\* the new value.
SetMaxRecvMsgLength(v) ==
    /\ max_recv_msg_length' = v
    /\ UNCHANGED <<ctxVars, imsgs, imsg, ipayloadlen, ipayloadoff, ifr, inpos>>
    /\ UNCHANGED <<txVars, wire_in, wire_out, histVars>>

ShutdownRead ==
    /\ HostCall
    /\ read_enabled' = FALSE
    /\ UNCHANGED <<write_enabled, close_status, status_code_sent, status_code_recv, error>>
    /\ UNCHANGED <<rxVars, txVars, wire_in, wire_out, recv_ret, delivered, queued_data>>

ShutdownWrite ==
    /\ HostCall
    /\ write_enabled' = FALSE
    /\ UNCHANGED <<read_enabled, close_status, status_code_sent, status_code_recv, error>>
    /\ UNCHANGED <<rxVars, txVars, wire_in, wire_out, recv_ret, delivered, queued_data>>

-----------------------------------------------------------------------------
(* Receive path: wslay_frame_recv() (frame.c 196-323) as seen by one       *)
(* iteration of wslay_event_recv() (event.c 300-492).                      *)

\* Seeded fault: the last byte in the buffer is not counted as available.
AvailShort(p) ==
    LET hs == {j \in p..Len(wire_in) : wire_in[j].t = "H"}
    IN  IF hs = {} THEN Len(wire_in) - p ELSE Min(hs) - p

\* Number of payload bytes that have arrived, from wire_in position p on.
Avail(p) ==
    LET hs == {j \in p..Len(wire_in) : wire_in[j].t = "H"}
    IN  IF hs = {} THEN Len(wire_in) - p + 1 ELSE Min(hs) - p

BytesAt(p, k) == [i \in 1..k |-> wire_in[p + i - 1].b]

\* The header checks of RECV_HEADER1 and RECV_EXT_PAYLOADLEN.
CodecProto(h) ==
    \/ IsCtrl(h.opcode) /\ (h.len > 125 \/ h.fin = 0)
    \/ h.lenenc = 16 /\ h.len < 126
    \/ h.lenenc = 64 /\ h.len < 65536

\* The iocbs one call of wslay_frame_recv() can return: the next k payload
\* bytes of the frame in progress, or of the frame whose header is next.
\* A frame with payload is only reported once one payload byte has come.
Chunks ==
    IF ifr = NULL
      THEN IF inpos <= Len(wire_in) /\ wire_in[inpos].t = "H"
                /\ ~CodecProto(wire_in[inpos])
             THEN LET h == wire_in[inpos] IN
                  { [fin |-> h.fin, rsv |-> h.rsv, opcode |-> h.opcode,
                     mask |-> h.mask, payload_length |-> h.len, off |-> 0,
                     data |-> BytesAt(inpos + 1, k), skip |-> 1 + k] :
                    k \in IF h.len = 0 THEN {0}
                          ELSE 1..Min({h.len, Avail(inpos + 1)}) }
             ELSE {}
      ELSE { [fin |-> ifr.fin, rsv |-> ifr.rsv, opcode |-> ifr.opcode,
              mask |-> ifr.mask, payload_length |-> ifr.len, off |-> ifr.off,
              data |-> BytesAt(inpos, k), skip |-> k] :
             k \in 1..Min({ifr.len - ifr.off, Avail(inpos)}) }

\* The codec's state after returning chunk c.
FrameRecv(c) ==
    /\ inpos' = inpos + c.skip
    /\ ifr' = IF c.off + Len(c.data) = c.payload_length THEN NULL
              ELSE [fin |-> c.fin, rsv |-> c.rsv, opcode |-> c.opcode, mask |-> c.mask,
                    len |-> c.payload_length, off |-> c.off + Len(c.data)]

\* Seeded fault: the reserved bits are not checked.
BadHeaderMaskOnly(c) == (Server /\ ~c.mask) \/ (~Server /\ c.mask)

\* Line 311: reserved bits set, or a mask bit the role forbids.
BadHeader(c) == c.rsv # 0 \/ (Server /\ ~c.mask) \/ (~Server /\ c.mask)

\* Seeded fault: a CONTINUATION frame may begin a message.
FirstFrameAnyOpcode(c) ==
    [ok |-> TRUE, new |-> TRUE, imsg |-> imsg,
     imsgs |-> [imsgs EXCEPT ![imsg] = ImsgSet(@, c.fin, c.rsv, c.opcode)]]

\* Lines 317-332: the first frame of a message, in the empty slot.  ok is
\* FALSE where the code queues CLOSE(PROTOCOL_ERROR); new is new_frame.
FirstFrame(c) ==
    [ok |-> c.opcode \in {TEXT, BINARY, CLOSE, PING, PONG}, new |-> TRUE, imsg |-> imsg,
     imsgs |-> [imsgs EXCEPT ![imsg] = ImsgSet(@, c.fin, c.rsv, c.opcode)]]

\* Seeded fault: a control frame between fragments reuses the current slot.
NextFrameInPlace(c) ==
    IF c.opcode = CONT
      THEN [ok |-> TRUE, new |-> TRUE, imsg |-> imsg, imsgs |-> [imsgs EXCEPT ![imsg].fin = c.fin]]
      ELSE [ok |-> c.opcode \in {CLOSE, PING, PONG}, new |-> TRUE, imsg |-> imsg,
            imsgs |-> [imsgs EXCEPT ![imsg] = ImsgSet(@, c.fin, c.rsv, c.opcode)]]

\* Lines 333-350: a frame after a complete frame of an unfinished message:
\* a CONTINUATION, or a control frame, which goes to imsgs[1].
NextFrame(c) ==
    IF c.opcode = CONT
      THEN [ok |-> TRUE, new |-> TRUE, imsg |-> imsg, imsgs |-> [imsgs EXCEPT ![imsg].fin = c.fin]]
      ELSE [ok |-> c.opcode \in {CLOSE, PING, PONG}, new |-> TRUE, imsg |-> 1,
            imsgs |-> [imsgs EXCEPT ![1] = ImsgSet(@, c.fin, c.rsv, c.opcode)]]

\* Lines 317-350: the slot the chunk goes to.
Slot(c) ==
    CASE imsgs[imsg].opcode = NoOpcode -> FirstFrame(c)
      [] ipayloadlen = 0 /\ ipayloadoff = 0 -> NextFrame(c)
      [] OTHER -> [ok |-> TRUE, new |-> FALSE, imsg |-> imsg, imsgs |-> imsgs]

\* Line 352: the frame would make the message longer than allowed.
TooBig(c, s) == s.new /\ s.imsgs[s.imsg].msg_length + c.payload_length > max_recv_msg_length

\* Whether the payload of frame c is kept (lines 360, 389, 414).
Buffered(c) == ~NoBuffering \/ IsCtrl(c.opcode)

\* Lines 358-395 for an accepted chunk: the slot after the chunk is
\* allocated on a new frame and the UTF-8 state advanced (checked), then
\* after the bytes are copied (imsgs), and the event ctx's ipayloadlen and
\* ipayloadoff.  The validator skips the first two bytes of every chunk of
\* a CLOSE frame (line 370).
Absorb(c, s) ==
    LET m0 == s.imsgs[s.imsg]
        m1 == IF s.new /\ Buffered(c) THEN [m0 EXCEPT !.msg_length = @ + c.payload_length] ELSE m0
        from == IF m1.opcode = CLOSE THEN 2 ELSE 0
        m2 == IF m1.opcode \in {TEXT, CLOSE}
                THEN [m1 EXCEPT !.utf8state = Utf8Run(@, SubSeq(c.data, from + 1, Len(c.data)))]
                ELSE m1
        m3 == IF Buffered(c) THEN [m2 EXCEPT !.msg = @ \o c.data] ELSE m2
    IN  [checked |-> [s.imsgs EXCEPT ![s.imsg] = m2],
         imsgs |-> [s.imsgs EXCEPT ![s.imsg] = m3], imsg |-> s.imsg,
         ipayloadlen |-> IF s.new THEN c.payload_length ELSE ipayloadlen,
         ipayloadoff |-> ipayloadoff + Len(c.data)]

RecvUnchanged ==
    UNCHANGED <<max_recv_msg_length, write_enabled, status_code_sent, omsg, send_queue, obuf, opayloadlen,
                opayloadoff, ostate, wire_in, wire_out, queued_data, host_calls>>
NoCloseQueued ==
    UNCHANGED <<read_enabled, close_status, send_ctrl_queue, queued_msg_count, queued_msg_length>>

\* The chunk passed the checks of lines 311-357 with slot choice s.
Admitted(c, s) == ~BadHeader(c) /\ s.ok /\ ~TooBig(c, s)

\* Lines 311-350: wrong rsv or mask bit, a CONTINUATION with no message, or
\* a data frame inside a message: CLOSE(PROTOCOL_ERROR) and stop reading.
RecvProtocolViolation ==
    /\ read_enabled
    /\ \E c \in Chunks :
          /\ BadHeader(c) \/ ~Slot(c).ok
          /\ FrameRecv(c)
          /\ RecvCloseWith(PROTOCOL_ERROR)
    /\ UNCHANGED <<imsgs, imsg, ipayloadlen, ipayloadoff, error, status_code_recv, delivered>>
    /\ RecvUnchanged

\* Lines 352-357: CLOSE(MESSAGE_TOO_BIG).
RecvTooBig ==
    /\ read_enabled
    /\ \E c \in Chunks :
          LET s == Slot(c) IN
          /\ ~BadHeader(c) /\ s.ok /\ TooBig(c, s)
          /\ FrameRecv(c)
          /\ imsgs' = s.imsgs /\ imsg' = s.imsg
          /\ RecvCloseWith(MESSAGE_TOO_BIG)
    /\ UNCHANGED <<ipayloadlen, ipayloadoff, error, status_code_recv, delivered>>
    /\ RecvUnchanged

\* Lines 367-386: a byte of a TEXT message or a CLOSE reason is not UTF-8.
RecvUtf8Reject ==
    /\ read_enabled
    /\ \E c \in Chunks :
          LET s == Slot(c)
              a == Absorb(c, s)
          IN  /\ Admitted(c, s)
              /\ a.checked[a.imsg].utf8state = UTF8_REJECT
              /\ FrameRecv(c)
              /\ imsgs' = a.checked /\ imsg' = a.imsg /\ ipayloadlen' = a.ipayloadlen
              /\ RecvCloseWith(INVALID_FRAME_PAYLOAD_DATA)
    /\ UNCHANGED <<ipayloadoff, error, status_code_recv, delivered>>
    /\ RecvUnchanged

\* A chunk that is absorbed; last says whether it ends its frame.
Absorbed(c, last) ==
    LET s == Slot(c)
        a == Absorb(c, s)
    IN  /\ Admitted(c, s)
        /\ a.checked[a.imsg].utf8state # UTF8_REJECT
        /\ (a.ipayloadoff = a.ipayloadlen) = last
        /\ FrameRecv(c)

\* Lines 387-395: a chunk in the middle of a frame.
RecvChunk ==
    /\ read_enabled
    /\ \E c \in Chunks :
          LET a == Absorb(c, Slot(c)) IN
          /\ Absorbed(c, FALSE)
          /\ imsgs' = a.imsgs /\ imsg' = a.imsg
          /\ ipayloadlen' = a.ipayloadlen /\ ipayloadoff' = a.ipayloadoff
    /\ NoCloseQueued
    /\ UNCHANGED <<error, status_code_recv, delivered, recv_ret>>
    /\ RecvUnchanged

\* Lines 396-406: the last frame of a TEXT message, or a CLOSE frame, ends
\* inside a UTF-8 sequence.
RecvUtf8Incomplete ==
    /\ read_enabled
    /\ \E c \in Chunks :
          LET a == Absorb(c, Slot(c))
              m == a.imsgs[a.imsg]
          IN  /\ Absorbed(c, TRUE)
              /\ m.fin = 1 /\ m.opcode \in {TEXT, CLOSE} /\ m.utf8state # UTF8_ACCEPT
              /\ imsgs' = a.imsgs /\ imsg' = a.imsg
              /\ ipayloadlen' = a.ipayloadlen /\ ipayloadoff' = a.ipayloadoff
              /\ RecvCloseWith(INVALID_FRAME_PAYLOAD_DATA)
    /\ UNCHANGED <<error, status_code_recv, delivered>>
    /\ RecvUnchanged

\* Lines 407, 479: the end of a frame that is not the last of its message.
RecvFrameEnd ==
    /\ read_enabled
    /\ \E c \in Chunks :
          LET a == Absorb(c, Slot(c)) IN
          /\ Absorbed(c, TRUE)
          /\ a.imsgs[a.imsg].fin = 0
          /\ imsgs' = a.imsgs /\ imsg' = a.imsg
          /\ ipayloadlen' = 0 /\ ipayloadoff' = 0
    /\ NoCloseQueued
    /\ UNCHANGED <<error, status_code_recv, delivered, recv_ret>>
    /\ RecvUnchanged

Completed(c) ==
    LET a == Absorb(c, Slot(c))
        m == a.imsgs[a.imsg]
    IN  /\ Absorbed(c, TRUE)
        /\ m.fin = 1
        /\ m.opcode \in {TEXT, CLOSE} => m.utf8state = UTF8_ACCEPT

\* Seeded fault: ipayloadoff is not cleared after a message.
DeliverKeepsOffset(a, msg, code) ==
    LET m == a.imsgs[a.imsg] IN
    /\ delivered' = Append(delivered, [opcode |-> m.opcode, rsv |-> m.rsv,
                                       msg |-> msg, status |-> code])
    /\ error' = 0
    /\ imsgs' = [a.imsgs EXCEPT ![a.imsg] = ImsgReset(@)]
    /\ imsg' = 0
    /\ ipayloadlen' = 0 /\ ipayloadoff' = a.ipayloadoff

\* Seeded fault: imsg stays on the slot just delivered.
DeliverStaysInSlot(a, msg, code) ==
    LET m == a.imsgs[a.imsg] IN
    /\ delivered' = Append(delivered, [opcode |-> m.opcode, rsv |-> m.rsv,
                                       msg |-> msg, status |-> code])
    /\ error' = 0
    /\ imsgs' = [a.imsgs EXCEPT ![a.imsg] = ImsgReset(@)]
    /\ imsg' = a.imsg
    /\ ipayloadlen' = 0 /\ ipayloadoff' = 0

\* Lines 463-479: on_msg_recv() with error reset, then the slot is reset and
\* imsg goes back to imsgs[0]; ipayloadlen and ipayloadoff are cleared.
Deliver(a, msg, code) ==
    LET m == a.imsgs[a.imsg] IN
    /\ delivered' = Append(delivered, [opcode |-> m.opcode, rsv |-> m.rsv,
                                       msg |-> msg, status |-> code])
    /\ error' = 0
    /\ imsgs' = [a.imsgs EXCEPT ![a.imsg] = ImsgReset(@)]
    /\ imsg' = 0
    /\ ipayloadlen' = 0 /\ ipayloadoff' = 0

\* The slot as it is when wslay_event_recv() returns in the middle of
\* lines 407-479.
KeepSlot(a) ==
    /\ imsgs' = a.imsgs /\ imsg' = a.imsg
    /\ ipayloadlen' = a.ipayloadlen /\ ipayloadoff' = a.ipayloadoff

\* Lines 425-434: a CLOSE whose status code is not valid.
RecvBadCloseCode ==
    /\ read_enabled
    /\ \E c \in Chunks :
          LET a == Absorb(c, Slot(c))
              m == a.imsgs[a.imsg]
          IN  /\ Completed(c)
              /\ m.opcode = CLOSE /\ m.msg_length >= 2
              /\ ~IsValidStatusCode(StatusOf(m.msg))
              /\ KeepSlot(a)
              /\ RecvCloseWith(PROTOCOL_ERROR)
    /\ UNCHANGED <<error, status_code_recv, delivered>>
    /\ RecvUnchanged

\* Lines 422-450: the peer's CLOSE.  CLOSE_RECEIVED is set and the CLOSE is
\* echoed with the peer's code and reason.  When the echo cannot be queued
\* the wrapper's 1 is returned before on_msg_recv() and the slot reset.
RecvClose ==
    /\ read_enabled
    /\ \E c \in Chunks :
          LET a == Absorb(c, Slot(c))
              m == a.imsgs[a.imsg]
              code == IF m.msg_length >= 2 THEN StatusOf(m.msg) ELSE 0
              reason == IF m.msg_length >= 2 THEN SubSeq(m.msg, 3, Len(m.msg)) ELSE <<>>
              cs == close_status \cup {"RECEIVED"}
          IN  /\ Completed(c)
              /\ m.opcode = CLOSE
              /\ m.msg_length >= 2 => IsValidStatusCode(code)
              /\ status_code_recv' = IF code = 0 THEN NO_STATUS_RCVD ELSE code
              /\ \E w \in WrapperResults(cs) :
                    /\ CloseWrapper(code, reason, cs, w)
                    /\ recv_ret' = w.ret
                    /\ IF w.ret = 0
                         THEN Deliver(a, m.msg, code)
                         ELSE KeepSlot(a) /\ UNCHANGED <<delivered, error>>
    /\ RecvUnchanged

\* Lines 451-462: a PING is answered by a PONG with its payload;
\* WSLAY_ERR_NO_MORE_MSG is ignored.
RecvPing ==
    /\ read_enabled
    /\ \E c \in Chunks :
          LET a == Absorb(c, Slot(c))
              m == a.imsgs[a.imsg]
          IN  /\ Completed(c)
              /\ m.opcode = PING
              /\ IF Queueable(close_status)
                   THEN PushMsg(PONG, m.msg, close_status)
                   ELSE UNCHANGED <<close_status, send_ctrl_queue, queued_msg_count,
                                    queued_msg_length, queued_data, send_queue>>
              /\ Deliver(a, m.msg, 0)
    /\ UNCHANGED <<read_enabled, status_code_recv, recv_ret>>
    /\ RecvUnchanged

\* Lines 463-471: a TEXT, BINARY or PONG message is passed to on_msg_recv();
\* without buffering a data message arrives as NULL.
RecvMsg ==
    /\ read_enabled
    /\ \E c \in Chunks :
          LET a == Absorb(c, Slot(c))
              m == a.imsgs[a.imsg]
          IN  /\ Completed(c)
              /\ m.opcode \notin {CLOSE, PING}
              /\ Deliver(a, IF Buffered(c) THEN m.msg ELSE <<>>, 0)
    /\ NoCloseQueued
    /\ UNCHANGED <<status_code_recv, recv_ret>>
    /\ RecvUnchanged

\* Unchanged by a step of wslay_event_recv() that fails to allocate.
NoMemUnchanged ==
    UNCHANGED <<error, status_code_recv, delivered, close_status, send_ctrl_queue,
                queued_msg_count, queued_msg_length>>

\* Lines 360-363: wslay_event_imsg_append_chunk() (lines 49-76) cannot
\* allocate, or push, the chunk of a new buffered frame: reading is
\* disabled and -1 returned, with the frame's header consumed, the slot
\* chosen and msg_length not increased.  An empty frame allocates nothing.
RecvChunkNoMem ==
    /\ AllocFails /\ read_enabled
    /\ \E c \in Chunks :
          LET s == Slot(c) IN
          /\ Admitted(c, s) /\ s.new /\ Buffered(c) /\ c.payload_length > 0
          /\ FrameRecv(c)
          /\ imsgs' = s.imsgs /\ imsg' = s.imsg /\ ipayloadlen' = c.payload_length
    /\ read_enabled' = FALSE /\ recv_ret' = -1
    /\ UNCHANGED ipayloadoff
    /\ NoMemUnchanged /\ RecvUnchanged

\* Lines 412-417: wslay_event_flatten_queue() (lines 131-160) cannot
\* allocate the buffer of a complete message with payload: reading is
\* disabled and WSLAY_ERR_NOMEM returned; nothing is delivered.
RecvFlattenNoMem ==
    /\ AllocFails /\ read_enabled
    /\ \E c \in Chunks :
          LET a == Absorb(c, Slot(c)) IN
          /\ Completed(c)
          /\ Buffered(c) /\ a.imsgs[a.imsg].msg_length > 0
          /\ KeepSlot(a)
    /\ read_enabled' = FALSE /\ recv_ret' = NOMEM
    /\ NoMemUnchanged /\ RecvUnchanged

\* Lines 452-461: queueing the PONG fails in
\* wslay_event_omsg_non_fragmented_new() (-1) or in wslay_queue_push() (1):
\* reading is disabled and that value returned, the PING neither answered
\* nor delivered.
RecvPingNoMem ==
    /\ AllocFails /\ read_enabled
    /\ Queueable(close_status)
    /\ \E c \in Chunks :
          LET a == Absorb(c, Slot(c)) IN
          /\ Completed(c)
          /\ a.imsgs[a.imsg].opcode = PING
          /\ KeepSlot(a)
    /\ read_enabled' = FALSE /\ recv_ret' \in {-1, 1}
    /\ NoMemUnchanged /\ RecvUnchanged

\* Lines 481-487: any codec result but WANT_READ, or WANT_READ after a
\* callback failed, queues an empty CLOSE and fails the call.
RecvFatal ==
    \E w \in WrapperResults(close_status) :
        /\ CloseWrapper(0, <<>>, close_status, w)
        /\ recv_ret' = IF w.ret = 0 THEN CALLBACK_FAILURE ELSE w.ret

\* A header is next and the codec has not started a frame.
HeaderNext == ifr = NULL /\ inpos <= Len(wire_in) /\ wire_in[inpos].t = "H"

\* recv_callback() sets WOULDBLOCK and returns -1: nothing to read.
RecvWouldBlock ==
    /\ read_enabled
    /\ Chunks = {} /\ ~HeaderNext
    /\ error' = WOULDBLOCK
    /\ recv_ret' = 0
    /\ UNCHANGED <<rxVars, txVars, wire_in, wire_out>>
    /\ UNCHANGED <<delivered, queued_data, host_calls>>
    /\ UNCHANGED <<read_enabled, write_enabled, close_status, status_code_sent, status_code_recv>>

\* frame.c 206, 245, 274: recv_callback() returned part of a header, so the
\* codec says WANT_READ without a callback error; line 482 judges it by
\* whatever ctx->error holds.
RecvShortRead ==
    /\ read_enabled
    /\ HeaderNext
    /\ IF error \in {0, WOULDBLOCK}
         THEN recv_ret' = 0 /\ UNCHANGED <<read_enabled, close_status, send_ctrl_queue,
                                           queued_msg_count, queued_msg_length>>
         ELSE RecvFatal
    /\ UNCHANGED <<error, status_code_recv, rxVars, delivered>>
    /\ RecvUnchanged

\* recv_callback() sets CALLBACK_FAILURE and returns -1.
RecvCallbackFail ==
    /\ RecvFails
    /\ read_enabled
    /\ error' = CALLBACK_FAILURE
    /\ RecvFatal
    /\ UNCHANGED <<status_code_recv, rxVars, delivered>>
    /\ RecvUnchanged

\* frame.c 219-220, 255-260: WSLAY_ERR_PROTO from the header checks.
RecvProto ==
    /\ read_enabled
    /\ HeaderNext /\ CodecProto(wire_in[inpos])
    /\ inpos' = inpos + 1
    /\ RecvFatal
    /\ UNCHANGED <<error, status_code_recv, imsgs, imsg, ipayloadlen, ipayloadoff, ifr, delivered>>
    /\ RecvUnchanged

-----------------------------------------------------------------------------
(* Send path: one iteration of the loop of wslay_event_send() (event.c    *)
(* 525-649) with the call of wslay_frame_send() it makes (frame.c 39-167). *)
(* ostate is the codec's PREP_HEADER, SEND_HEADER or SEND_PAYLOAD.         *)

SendUnchanged ==
    UNCHANGED <<read_enabled, status_code_recv, rxVars, wire_in, recv_ret,
                delivered, queued_data, host_calls>>

\* Seeded fault: the loop condition forgets the message in flight.
WantWriteQueuesOnly ==
    write_enabled /\ (send_queue # <<>> \/ send_ctrl_queue # <<>>)

\* The loop condition of line 529.
WantWrite ==
    write_enabled /\ (send_queue # <<>> \/ send_ctrl_queue # <<>> \/ omsg # NULL)

\* wslay_event_send_ctrl_queue_pop(): with CLOSE_QUEUED, control messages
\* ahead of the CLOSE are popped and freed, and not uncounted.
CtrlPop(q) ==
    IF "QUEUED" \in close_status
      THEN LET cl == {i \in 1..Len(q) : q[i].opcode = CLOSE} IN
           IF cl = {} THEN [m |-> NULL, q |-> <<>>]
           ELSE [m |-> q[Min(cl)], q |-> SubSeq(q, Min(cl) + 1, Len(q))]
      ELSE [m |-> Head(q), q |-> Tail(q)]

\* Lines 532-558: the message to send and the queues after choosing it.  A
\* data message waiting at PREP_HEADER is put back at the front of
\* send_queue when a control message is queued.
Preempt ==
    omsg # NULL /\ ~IsCtrl(omsg.opcode) /\ ostate = "PREP" /\ send_ctrl_queue # <<>>
\* Seeded fault: the preempted message goes to the back of send_queue.
PickPreemptBack ==
    LET c == CtrlPop(send_ctrl_queue) IN
    CASE omsg = NULL /\ send_ctrl_queue = <<>> ->
             [m |-> Head(send_queue), sq |-> Tail(send_queue), cq |-> send_ctrl_queue]
      [] omsg = NULL -> [m |-> c.m, sq |-> send_queue, cq |-> c.q]
      [] Preempt -> [m |-> c.m, sq |-> Append(send_queue, omsg), cq |-> c.q]
      [] OTHER -> [m |-> omsg, sq |-> send_queue, cq |-> send_ctrl_queue]

Pick ==
    LET c == CtrlPop(send_ctrl_queue) IN
    CASE omsg = NULL /\ send_ctrl_queue = <<>> ->
             [m |-> Head(send_queue), sq |-> Tail(send_queue), cq |-> send_ctrl_queue]
      [] omsg = NULL -> [m |-> c.m, sq |-> send_queue, cq |-> c.q]
      [] Preempt -> [m |-> c.m, sq |-> <<omsg>> \o send_queue, cq |-> c.q]
      [] OTHER -> [m |-> omsg, sq |-> send_queue, cq |-> send_ctrl_queue]

\* Whether the fragmented message must call read_callback() (line 598).
NeedsRead(m) == m.type = "FR" /\ m.fin = 0 /\ obuf = <<>>

\* Seeded fault: iocb.data without the offset already sent.
NFIocbFromStart(m, len, off) ==
    [m |-> m, fin |-> 1, len |-> len, off |-> off, d |-> SubSeq(m.data, 1, len - off), buf |-> obuf]

\* Lines 560-566: the iocb of a NON_FRAGMENTED message.
NFIocb(m, len, off) ==
    [m |-> m, fin |-> 1, len |-> len, off |-> off, d |-> SubSeq(m.data, off + 1, len), buf |-> obuf]

\* The frame to send (the iocb of lines 560-566 or 616-622): the message
\* in flight, iocb.fin, payload_length, the offset sent so far, the bytes
\* iocb.data still to send, and obuf.  wslay_event_on_non_fragmented_msg_popped()
\* sets the lengths of a message just popped; read_callback() gives a
\* fragmented message its next chunk, and sets fin with eof on the last one.
\* An empty chunk is a read_callback() that returns 0 with eof set: line 603
\* takes it, like any 0, as no data yet.
Staged ==
    LET p == Pick
        m == p.m
        popped == omsg = NULL \/ Preempt
        len == IF popped THEN Len(m.data) ELSE opayloadlen
        off == IF popped THEN 0 ELSE opayloadoff
        m2 == [m EXCEPT !.src = Tail(@), !.fin = IF Len(m.src) = 1 THEN 1 ELSE 0]
    IN  IF m = NULL THEN {}
        ELSE IF m.type = "NF" THEN {NFIocb(m, len, off)}
        ELSE IF ~NeedsRead(m)
          THEN {[m |-> m, fin |-> m.fin, len |-> opayloadlen, off |-> opayloadoff,
                 d |-> obuf, buf |-> obuf]}
        ELSE IF m.src = <<>> \/ Head(m.src) = <<>> THEN {}
        ELSE {[m |-> m2, fin |-> m2.fin, len |-> Len(Head(m.src)), off |-> 0,
               d |-> Head(m.src), buf |-> Head(m.src)]}

\* ctx->error after a send_callback() that wrote nothing.
SendErrors == {WOULDBLOCK} \cup IF SendFails THEN {CALLBACK_FAILURE} ELSE {}

\* Seeded fault: the codec leaves SEND_PAYLOAD one byte early.
FrameSendEarlyPrep(s) ==
    LET hdr == ostate \in {"PREP", "HDR"}
        n == Len(s.d)
    IN  {[res |-> 0, k |-> k, hdr |-> hdr, os |-> IF k + 1 >= n THEN "PREP" ELSE "PAY",
          err |-> error] : k \in IF n = 0 THEN {0} ELSE 1..n}

\* The results of wslay_frame_send() on frame s: result, bytes of payload
\* written, whether the header was completed, ostate and ctx->error after.
\* A client masks (frame.c 74-82): genmask_callback() may fail at
\* PREP_HEADER, and the masked payload loop (119-144) returns 0 after a
\* partial write with the error of the send_callback() that stopped it.
FrameSend(s) ==
    LET hdr == ostate \in {"PREP", "HDR"}
        n == Len(s.d)
    IN  {[res |-> INVALID_CALLBACK, k |-> 0, hdr |-> FALSE, os |-> "PREP", err |-> error] :
            x \in IF ostate = "PREP" /\ ~Server THEN {1} ELSE {}}
        \cup
        {[res |-> WANT_WRITE, k |-> 0, hdr |-> FALSE, os |-> "HDR", err |-> e] :
            e \in IF hdr THEN {error} \cup SendErrors ELSE {}}
        \cup
        {[res |-> WANT_WRITE, k |-> 0, hdr |-> hdr, os |-> "PAY", err |-> e] :
            e \in IF n > 0 THEN SendErrors ELSE {}}
        \cup
        UNION {{[res |-> 0, k |-> k, hdr |-> hdr, os |-> IF k = n THEN "PREP" ELSE "PAY",
                 err |-> e] :
                   e \in IF ~Server /\ k < n THEN SendErrors ELSE {error}} :
                k \in IF n = 0 THEN {0} ELSE 1..n}

\* What frame s puts on the wire: the header once complete, then k bytes.
Emit(s, o) ==
    (IF o.hdr THEN << Hdr(s.fin, 0, s.m.opcode, ~Server, s.len, LenEnc(s.len)) >> ELSE <<>>)
    \o [i \in 1..o.k |-> Byte(s.d[i])]

\* The common part of an iteration that called wslay_frame_send().
SentFrame(s, o) ==
    /\ wire_out' = wire_out \o Emit(s, o)
    /\ ostate' = o.os
    /\ error' = o.err
    /\ send_queue' = Pick.sq
    /\ send_ctrl_queue' = Pick.cq
    /\ opayloadlen' = s.len

\* Seeded fault: a sent CLOSE leaves writing enabled.
MsgSentKeepsWriting(m) == UNCHANGED <<write_enabled, close_status, status_code_sent>>

\* Lines 571-586: a message is out; a CLOSE disables writing and records the
\* code it carried.
MsgSent(m) ==
    LET sc == IF Len(m.data) >= 2 THEN StatusOf(m.data) ELSE 0 IN
    IF m.opcode = CLOSE
      THEN /\ write_enabled' = FALSE
           /\ close_status' = close_status \cup {"SENT"}
           /\ status_code_sent' = IF sc = 0 THEN NO_STATUS_RCVD ELSE sc
      ELSE UNCHANGED <<write_enabled, close_status, status_code_sent>>

\* Lines 567-596: wslay_frame_send() returned 0 for a message with data.
\* Once all of it is written the message is uncounted and freed; a CLOSE
\* disables writing and records the code it carried.
SendMsgProgress ==
    /\ WantWrite
    /\ \E s \in Staged : \E o \in FrameSend(s) :
          LET done == s.off + o.k = s.len IN
              /\ s.m.type = "NF" /\ o.res = 0
              /\ SentFrame(s, o)
              /\ opayloadoff' = s.off + o.k
              /\ omsg' = IF done THEN NULL ELSE s.m
              /\ queued_msg_count' = IF done THEN queued_msg_count - 1 ELSE queued_msg_count
              /\ queued_msg_length' = IF done THEN queued_msg_length - Len(s.m.data)
                                      ELSE queued_msg_length
              /\ IF done THEN MsgSent(s.m)
                 ELSE UNCHANGED <<write_enabled, close_status, status_code_sent>>
    /\ UNCHANGED obuf
    /\ SendUnchanged

\* Lines 625-638: wslay_frame_send() returned 0 for a fragmented message.
\* When obuf is drained the message is freed after its last chunk, or goes
\* on as CONTINUATION frames.
SendFragmentProgress ==
    /\ WantWrite
    /\ \E s \in Staged : \E o \in FrameSend(s) :
          LET rest == SubSeq(s.buf, o.k + 1, Len(s.buf)) IN
          /\ s.m.type = "FR" /\ o.res = 0
          /\ SentFrame(s, o)
          /\ opayloadoff' = s.off
          /\ obuf' = rest
          /\ omsg' = CASE rest # <<>> -> s.m
                       [] s.fin = 1 -> NULL
                       [] OTHER -> [s.m EXCEPT !.opcode = CONT]
          /\ queued_msg_count' = IF rest = <<>> /\ s.fin = 1 THEN queued_msg_count - 1
                                 ELSE queued_msg_count
    /\ UNCHANGED <<write_enabled, close_status, status_code_sent, queued_msg_length>>
    /\ SendUnchanged

\* Lines 590-596 and 639-645: a result of wslay_frame_send() that stops
\* the loop is fatal unless it is WANT_WRITE and ctx->error is 0 or
\* WOULDBLOCK at that moment.
Benign(o) == o.res = WANT_WRITE /\ o.err \in {0, WOULDBLOCK}

Stalled(s, o) ==
    /\ o.res < 0
    /\ SentFrame(s, o)
    /\ omsg' = s.m
    /\ opayloadoff' = s.off
    /\ obuf' = s.buf
    /\ UNCHANGED <<queued_msg_count, queued_msg_length, close_status, status_code_sent>>

SendBlocked ==
    /\ WantWrite
    /\ \E s \in Staged : \E o \in FrameSend(s) : Benign(o) /\ Stalled(s, o)
    /\ UNCHANGED write_enabled
    /\ SendUnchanged

SendFail ==
    /\ WantWrite
    /\ \E s \in Staged : \E o \in FrameSend(s) : ~Benign(o) /\ Stalled(s, o)
    /\ write_enabled' = FALSE
    /\ SendUnchanged

\* Lines 548-551: wslay_queue_push_front() cannot allocate the cell that
\* puts the preempted data message back: writing is disabled and 1
\* returned, with the message left in flight.
SendPreemptNoMem ==
    /\ AllocFails /\ WantWrite /\ Preempt
    /\ write_enabled' = FALSE
    /\ UNCHANGED <<close_status, status_code_sent, error, txVars, wire_out>>
    /\ SendUnchanged

\* Lines 598-608: read_callback() of a fragmented message returns 0 (no
\* data now; eof is not looked at) or fails.
SourceStep(fail) ==
    /\ WantWrite
    /\ Pick.m # NULL /\ NeedsRead(Pick.m)
    /\ omsg' = Pick.m
    /\ send_queue' = Pick.sq /\ send_ctrl_queue' = Pick.cq
    /\ write_enabled' = ~fail
    /\ UNCHANGED <<close_status, status_code_sent, error, queued_msg_count, queued_msg_length,
                   obuf, opayloadlen, opayloadoff, ostate, wire_out>>
    /\ SendUnchanged

SendSourceEmpty == SourceStep(FALSE)
SendSourceFail == SendFails /\ SourceStep(TRUE)

-----------------------------------------------------------------------------
(* The context.                                                            *)

\* wslay_event_context_new() on a talloc_zero'ed context, and
\* wslay_frame_context_new() (not in the sources) in its first states.
Init ==
    /\ read_enabled = TRUE /\ write_enabled = TRUE
    /\ close_status = {}
    /\ status_code_sent = ABNORMAL_CLOSURE /\ status_code_recv = ABNORMAL_CLOSURE
    /\ error = 0
    /\ imsgs = [i \in {0, 1} |-> EmptyImsg] /\ imsg = 0
    /\ ipayloadlen = 0 /\ ipayloadoff = 0
    /\ ifr = NULL /\ inpos = 1 /\ max_recv_msg_length = DefaultMaxRecvMsgLength
    /\ omsg = NULL /\ send_queue = <<>> /\ send_ctrl_queue = <<>>
    /\ queued_msg_count = 0 /\ queued_msg_length = 0
    /\ obuf = <<>> /\ opayloadlen = 0 /\ opayloadoff = 0 /\ ostate = "PREP"
    /\ wire_in = <<>> /\ wire_out = <<>>
    /\ recv_ret = 0 /\ delivered = <<>> /\ queued_data = <<>> /\ host_calls = 0

\* The host's calls of the queueing and shutdown API.
HostNext ==
    \/ \E m \in HostMsgs : QueueMsg(m)
    \/ \E m \in HostFragMsgs : QueueFragmentedMsg(m)
    \/ \E c \in HostCloses : QueueClose(c)
    \/ ShutdownRead
    \/ ShutdownWrite
    \/ \E v \in RecvMsgLimits : SetMaxRecvMsgLength(v)

\* One iteration of the loop of wslay_event_recv().
RecvNext ==
    \/ RecvProtocolViolation \/ RecvTooBig \/ RecvUtf8Reject \/ RecvChunk
    \/ RecvUtf8Incomplete \/ RecvFrameEnd \/ RecvBadCloseCode \/ RecvClose
    \/ RecvPing \/ RecvMsg \/ RecvWouldBlock \/ RecvShortRead
    \/ RecvCallbackFail \/ RecvProto
    \/ RecvChunkNoMem \/ RecvFlattenNoMem \/ RecvPingNoMem

\* One iteration of the loop of wslay_event_send().
SendNext ==
    \/ SendMsgProgress \/ SendFragmentProgress \/ SendBlocked \/ SendFail
    \/ SendSourceEmpty \/ SendSourceFail \/ SendPreemptNoMem

Next == HostNext \/ RecvNext \/ SendNext

Spec == Init /\ [][Next]_vars

-----------------------------------------------------------------------------
(* Properties.                                                             *)

Units == {Byte(b) : b \in Bytes}
    \cup {Hdr(f, r, o, m, l, e) : f \in {0, 1}, r \in 0..7, o \in 0..15, m \in BOOLEAN,
                                   l \in 0..125, e \in {7, 16, 64}}
Imsg == [fin : {0, 1}, rsv : 0..7, opcode : 0..15 \cup {NoOpcode}, utf8state : Utf8States,
         msg : Seq(Bytes), msg_length : Nat]
OMsg == [type : {"NF", "FR"}, fin : {0, 1}, opcode : 0..15, data : Seq(Bytes),
         src : Seq(Seq(Bytes))]

\* Every variable holds a value of its C type.
TypeOK ==
    /\ read_enabled \in BOOLEAN /\ write_enabled \in BOOLEAN
    /\ close_status \subseteq {"RECEIVED", "QUEUED", "SENT"}
    /\ error \in {0, WOULDBLOCK, CALLBACK_FAILURE}
    /\ imsgs \in [{0, 1} -> Imsg] /\ imsg \in {0, 1}
    /\ ipayloadlen \in Nat /\ ipayloadoff \in 0..ipayloadlen
    /\ inpos \in 1..Len(wire_in) + 1
    /\ omsg \in OMsg \cup {NULL}
    /\ send_queue \in Seq(OMsg) /\ send_ctrl_queue \in Seq(OMsg)
    /\ queued_msg_count \in Int /\ queued_msg_length \in Int
    /\ obuf \in Seq(Bytes) /\ opayloadoff \in 0..opayloadlen
    /\ ostate \in {"PREP", "HDR", "PAY"}
    /\ wire_out \in Seq(Units) /\ wire_in \in Seq(Units)
    /\ recv_ret \in {0, 1, -1, CALLBACK_FAILURE, NOMEM}

-----------------------------------------------------------------------------
(* Frames and messages on a wire.                                          *)

HeaderPositions(w) == {i \in DOMAIN w : w[i].t = "H"}

\* Payload units that follow the header at position i.
PayloadCount(w, i) ==
    LET later == {j \in HeaderPositions(w) : j > i}
    IN  (IF later = {} THEN Len(w) + 1 ELSE Min(later)) - i - 1

\* The last frame on w still misses payload bytes.
LastFrameOpen(w) ==
    HeaderPositions(w) # {} /\
    LET i == Max(HeaderPositions(w)) IN PayloadCount(w, i) < w[i].len

\* Reassembly of the data messages of w, frame by frame: msgs are the
\* messages begun, data whether payload bytes belong to a data frame, open
\* whether a message waits for its last frame, ok whether every frame fitted.
DataStep(acc, u) ==
    CASE u.t = "B" /\ acc.data ->
             [acc EXCEPT !.msgs[Len(acc.msgs)].bytes = Append(@, u.b)]
      [] u.t = "B" -> acc
      [] IsCtrl(u.opcode) -> [acc EXCEPT !.data = FALSE]
      [] u.opcode = CONT -> [acc EXCEPT !.data = TRUE, !.ok = @ /\ acc.open, !.open = (u.fin = 0)]
      [] OTHER -> [acc EXCEPT !.data = TRUE, !.ok = @ /\ ~acc.open, !.open = (u.fin = 0),
                              !.msgs = Append(@, [opcode |-> u.opcode, bytes |-> <<>>])]
DataMessages(w) ==
    FoldLeft(DataStep, [msgs |-> <<>>, data |-> FALSE, open |-> FALSE, ok |-> TRUE], w)

\* RFC 6455 reference for the receiving side, written from the RFC and not
\* from event.c: whether header u may come next when the data message
\* being built has opcode curop (NoOpcode: none).  Reserved bits must be
\* 0, a client masks and a server does not (5.1-5.3), the opcode must be
\* known, a control frame final and at most 125 bytes (5.5), the length in
\* its shortest encoding (5.2), and a CONTINUATION must continue a message
\* and a data frame must not interrupt one (5.4).
Conforms(u, curop) ==
    /\ u.rsv = 0 /\ u.mask = Server
    /\ u.opcode \in {CONT, TEXT, BINARY, CLOSE, PING, PONG}
    /\ IsCtrl(u.opcode) => u.fin = 1 /\ u.len <= 125
    /\ u.lenenc = LenEnc(u.len)
    /\ u.opcode = CONT => curop # NoOpcode
    /\ u.opcode \in {TEXT, BINARY} => curop = NoOpcode

\* A complete message the RFC accepts: TEXT is UTF-8 (8.1), a CLOSE body
\* has a valid status code and a UTF-8 reason (5.5.1, 7.4).  The size limit
\* is the host's policy, not a rule of the RFC, and is not judged here.
ValidMessage(op, m) ==
    /\ op = TEXT => WellFormed(m)
    /\ op = CLOSE /\ Len(m) >= 2 =>
          IsValidStatusCode(StatusOf(m)) /\ WellFormed(SubSeq(m, 3, Len(m)))

\* Reassembly of the messages of w in the order they complete: fop, ffin,
\* left and fbuf describe the frame being read, cur and curop the data
\* message being built.  At the first frame or message the RFC rejects
\* the connection fails (dead) and nothing after it is a message.
FrameDone(a) ==
    LET op == IF a.fop = CONT THEN a.curop ELSE a.fop
        m == IF a.fop = CONT THEN a.cur \o a.fbuf ELSE a.fbuf
    IN  CASE ~IsCtrl(op) /\ a.ffin = 0 -> [a EXCEPT !.cur = m, !.curop = op]
          [] ~ValidMessage(op, m) -> [a EXCEPT !.dead = TRUE]
          [] IsCtrl(op) -> [a EXCEPT !.msgs = Append(@, [opcode |-> op, msg |-> m])]
          [] OTHER -> [a EXCEPT !.msgs = Append(@, [opcode |-> op, msg |-> m]),
                                !.cur = <<>>, !.curop = NoOpcode]
MsgStep(a, u) ==
    CASE a.dead -> a
      [] u.t = "H" /\ ~Conforms(u, a.curop) -> [a EXCEPT !.dead = TRUE]
      [] u.t = "H" ->
           LET b == [a EXCEPT !.fop = u.opcode, !.ffin = u.fin, !.left = u.len, !.fbuf = <<>>]
           IN  IF u.len = 0 THEN FrameDone(b) ELSE b
      [] OTHER ->
           LET b == [a EXCEPT !.fbuf = Append(@, u.b), !.left = @ - 1]
           IN  IF b.left = 0 THEN FrameDone(b) ELSE b
Messages(w) ==
    FoldLeft(MsgStep, [msgs |-> <<>>, fop |-> CONT, ffin |-> 0, left |-> 0, fbuf |-> <<>>,
                       cur |-> <<>>, curop |-> NoOpcode, dead |-> FALSE], w).msgs

-----------------------------------------------------------------------------
(* Properties.                                                             *)

\* wire_out is a sequence of frames, each with as many payload bytes as its
\* header announces, and only the frame the codec is in SEND_PAYLOAD for is
\* incomplete: wslay_frame_send() never starts a header before the previous
\* payload is out, whatever the send loop does between calls.
FramesOnWire ==
    /\ wire_out # <<>> => wire_out[1].t = "H"
    /\ \A i \in HeaderPositions(wire_out) :
          \/ PayloadCount(wire_out, i) = wire_out[i].len
          \/ i = Max(HeaderPositions(wire_out)) /\ PayloadCount(wire_out, i) < wire_out[i].len
    /\ LastFrameOpen(wire_out) <=> ostate = "PAY"

\* The data frames on wire_out form the queued data messages, in the order
\* they were queued, fragments of one message never interleaved with
\* another: preemption by control frames (event.c 545-558) and the
\* CONTINUATION switch of fragmented messages (line 634) keep messages whole.
SentDataIsQueuedData ==
    LET r == DataMessages(wire_out) IN
    /\ r.ok
    /\ Len(r.msgs) <= Len(queued_data)
    /\ \A i \in 1..Len(r.msgs) :
          /\ r.msgs[i].opcode = queued_data[i].opcode
          /\ IF i < Len(r.msgs) THEN r.msgs[i].bytes = queued_data[i].bytes
             ELSE IsPrefix(r.msgs[i].bytes, queued_data[i].bytes)

\* At most one CLOSE frame is written and nothing follows it: sending a
\* CLOSE disables writing (line 576), and CLOSE_SENT is set exactly when
\* the whole CLOSE frame is out.
CloseIsLastFrame ==
    LET cs == {i \in HeaderPositions(wire_out) : wire_out[i].opcode = CLOSE} IN
    /\ cs = {} \/ (Cardinality(cs) = 1 /\ Max(cs) = Max(HeaderPositions(wire_out)))
    /\ ("SENT" \in close_status) <=> (cs # {} /\ ~LastFrameOpen(wire_out))

\* on_msg_recv() is called only with the messages the peer sent that RFC
\* 6455 accepts, in order, each with the payload of its frames (NULL for
\* data messages when buffering is off): a frame or message the RFC
\* rejects, and anything after it, never reaches on_msg_recv(), and the two
\* imsg slots keep a control frame between fragments apart.
DeliveredMatchesWire ==
    LET ms == Messages(SubSeq(wire_in, 1, inpos - 1)) IN
    /\ Len(delivered) <= Len(ms)
    /\ \A i \in 1..Len(delivered) :
          /\ delivered[i].opcode = ms[i].opcode
          /\ delivered[i].msg = IF Buffered([opcode |-> ms[i].opcode]) THEN ms[i].msg ELSE <<>>

FailureCodes == {PROTOCOL_ERROR, INVALID_FRAME_PAYLOAD_DATA, MESSAGE_TOO_BIG}

\* A peer that follows RFC 6455 is never failed: no CLOSE with a failure
\* code is queued, in flight or sent, however its fragments, interleaved
\* control frames and reads fall.  Each message of such a peer must pass
\* the slot choice of lines 317-350, the switch back to imsgs[0] after a
\* control frame (475-477), the size check (352) and the UTF-8 state carried
\* across fragments (367-406).
ConformingPeerNeverFailed ==
    /\ \A m \in Range(send_ctrl_queue) \cup (IF omsg = NULL THEN {} ELSE {omsg}) :
          m.opcode = CLOSE /\ Len(m.data) >= 2 => StatusOf(m.data) \notin FailureCodes
    /\ status_code_sent \notin FailureCodes

\* Once the peer's CLOSE is received, a CLOSE is eventually sent, unless
\* writing stops: the echo queued by line 447 is sent ahead of data.
CloseEchoed ==
    ("RECEIVED" \in close_status) ~> ("SENT" \in close_status \/ ~write_enabled)

\* The host keeps calling wslay_event_send() while it wants to write, and
\* the transport eventually takes bytes.
Fairness == WF_vars(SendMsgProgress) /\ WF_vars(SendFragmentProgress)

\* The host keeps calling wslay_event_recv() while wslay_event_want_read()
\* holds (event.c 656-659): a call that finds bytes on the transport reads
\* them, and one that finds none returns 0 after WOULDBLOCK.
RecvFairness == WF_vars(RecvNext)

\* The receiver never wedges: whatever the peer writes, well formed or
\* not, every complete message on the wire is eventually given to
\* on_msg_recv(), unless reading stops (a CLOSE queued, an allocation or
\* a callback failed).  No frame split, slot choice or error path leaves
\* bytes that every later wslay_event_recv() call skips.
PeerMessagesDelivered ==
    []<>(~read_enabled \/ Len(delivered) = Len(Messages(wire_in)))

\* A message wslay_event_send() has taken up is eventually sent in full,
\* unless writing stops, when the host keeps calling it and the transport
\* and the message's source eventually take and give bytes: no message
\* stays in flight for ever, holding up everything queued behind it.
MessageInFlightCompletes == omsg # NULL ~> (omsg = NULL \/ ~write_enabled)

-----------------------------------------------------------------------------
(* What event.h and the design notes say, checked against the code.        *)

\* event.h: wslay_event_recv() returns 0, or a negative error code
\* (CALLBACK_FAILURE, NOMEM).
RecvReturnsDocumented == recv_ret \in {0, CALLBACK_FAILURE, NOMEM}

\* The reason of a CLOSE passed to on_msg_recv() is UTF-8 (the check of
\* lines 367-383 covers CLOSE frames after their status code).
CloseReasonIsUtf8 ==
    \A i \in 1..Len(delivered) :
        delivered[i].opcode = CLOSE /\ Len(delivered[i].msg) > 2
            => WellFormed(SubSeq(delivered[i].msg, 3, Len(delivered[i].msg)))

\* A frame the codec rejects with WSLAY_ERR_PROTO is answered by
\* CLOSE(1002 PROTOCOL_ERROR), the design notes' scenario of an oversize
\* or fragmented control frame.
ProtoErrorClosesWith1002 ==
    [][ /\ HeaderNext /\ CodecProto(wire_in[inpos]) /\ inpos' = inpos + 1
        /\ Len(send_ctrl_queue') > Len(send_ctrl_queue)
        => Last(send_ctrl_queue').data = StatusBytes(PROTOCOL_ERROR) ]_vars

\* event.h: queued_msg_count is the size of send_queue plus the size of
\* send_ctrl_queue (with the message being sent).
QueuedMsgCountExact ==
    queued_msg_count = Len(send_queue) + Len(send_ctrl_queue) + IF omsg = NULL THEN 0 ELSE 1

\* WANT_READ unwinds cooperatively: a read that returns part of a header
\* leaves reading on and wslay_event_recv() returns 0.  This is asked of a
\* host that keeps to event.h: writing is still enabled, so no
\* wslay_event_send() has failed, and the last one returned with nothing
\* left to send.
ShortReadIsNotFatal ==
    [][RecvShortRead /\ write_enabled /\ ~WantWrite => read_enabled' /\ recv_ret' = 0]_vars

\* With a send_callback() that never fails and a host that never shuts
\* writing down, wslay_event_send() stops writing only once its CLOSE is
\* out (line 576): a send_callback() that takes part of a frame header
\* makes wslay_frame_send() return WANT_WRITE without a callback error,
\* which lines 591 and 640 must treat as would-block.
WriteStopsOnlyAfterClose == ~write_enabled => "SENT" \in close_status
====
