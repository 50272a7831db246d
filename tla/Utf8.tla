-------------------------------- MODULE Utf8 --------------------------------
(***************************************************************************)
(* The streaming UTF-8 validator of wslay (src/wslay/utf8.h, decode()).   *)
(*                                                                         *)
(* decode() advances a DFA by one byte through the table wslay_utf8d[],   *)
(* which is declared extern and not part of the sources.  The table is    *)
(* the byte classes of RFC 3629, so Utf8Decode computes the same state    *)
(* change from the well-formed byte sequences of RFC 3629: a state is     *)
(* UTF8_ACCEPT, UTF8_REJECT, or "need n more continuation bytes, the next *)
(* one in lo..hi".  The code point (codep) is not used by wslay and is    *)
(* left out.                                                               *)
(***************************************************************************)
EXTENDS Integers, Sequences, SequencesExt

\* A state: n continuation bytes missing, the next one in lo..hi.
Need(n, lo, hi) == [need |-> n, lo |-> lo, hi |-> hi]

\* utf8.h: #define UTF8_ACCEPT 0, #define UTF8_REJECT 12
UTF8_ACCEPT == Need(0, 0, 255)
UTF8_REJECT == Need(-1, 0, 0)

Utf8States ==
    {UTF8_ACCEPT, UTF8_REJECT}
      \cup {Need(n, lo, hi) : n \in 1..3, lo \in {128, 144, 160}, hi \in {143, 159, 191}}

In(b, lo, hi) == lo <= b /\ b <= hi

\* Seeded fault: E0 takes any continuation byte (overlong forms).
LeadStateOverlong(b) ==
    IF b = 224 THEN Need(2, 128, 191) ELSE
    CASE In(b, 0, 127)     -> UTF8_ACCEPT
      [] In(b, 194, 223)   -> Need(1, 128, 191)
      [] In(b, 225, 236)   -> Need(2, 128, 191)
      [] b = 237           -> Need(2, 128, 159)
      [] In(b, 238, 239)   -> Need(2, 128, 191)
      [] b = 240           -> Need(3, 144, 191)
      [] In(b, 241, 243)   -> Need(3, 128, 191)
      [] b = 244           -> Need(3, 128, 143)
      [] OTHER             -> UTF8_REJECT

\* The state after a lead byte b, read in state UTF8_ACCEPT.
LeadState(b) ==
    CASE In(b, 0, 127)     -> UTF8_ACCEPT
      [] In(b, 194, 223)   -> Need(1, 128, 191)
      [] b = 224           -> Need(2, 160, 191)
      [] In(b, 225, 236)   -> Need(2, 128, 191)
      [] b = 237           -> Need(2, 128, 159)
      [] In(b, 238, 239)   -> Need(2, 128, 191)
      [] b = 240           -> Need(3, 144, 191)
      [] In(b, 241, 243)   -> Need(3, 128, 191)
      [] b = 244           -> Need(3, 128, 143)
      [] OTHER             -> UTF8_REJECT

\* Seeded fault: UTF8_REJECT is left on the next byte.
Utf8DecodeNoSink(state, b) ==
    IF state = UTF8_ACCEPT \/ state = UTF8_REJECT THEN LeadState(b)
    ELSE IF ~In(b, state.lo, state.hi) THEN UTF8_REJECT
    ELSE IF state.need = 1 THEN UTF8_ACCEPT
    ELSE Need(state.need - 1, 128, 191)

\* decode(): *state_ptr = wslay_utf8d[256 + state + type]; REJECT is a sink.
Utf8Decode(state, b) ==
    IF state = UTF8_ACCEPT THEN LeadState(b)
    ELSE IF state = UTF8_REJECT THEN UTF8_REJECT
    ELSE IF ~In(b, state.lo, state.hi) THEN UTF8_REJECT
    ELSE IF state.need = 1 THEN UTF8_ACCEPT
    ELSE Need(state.need - 1, 128, 191)

\* The state after feeding every byte of s, starting in state st.
Utf8Run(st, s) == FoldLeft(Utf8Decode, st, s)

-----------------------------------------------------------------------------
(***************************************************************************)
(* Reference definition: the well-formed byte sequences of RFC 3629,      *)
(* Table 3-7, written as the list of byte ranges of each form.            *)
(***************************************************************************)
Forms ==
    { << <<0, 127>> >>,
      << <<194, 223>>, <<128, 191>> >>,
      << <<224, 224>>, <<160, 191>>, <<128, 191>> >>,
      << <<225, 236>>, <<128, 191>>, <<128, 191>> >>,
      << <<237, 237>>, <<128, 159>>, <<128, 191>> >>,
      << <<238, 239>>, <<128, 191>>, <<128, 191>> >>,
      << <<240, 240>>, <<144, 191>>, <<128, 191>>, <<128, 191>> >>,
      << <<241, 243>>, <<128, 191>>, <<128, 191>>, <<128, 191>> >>,
      << <<244, 244>>, <<128, 143>>, <<128, 191>>, <<128, 191>> >> }

\* The first k bytes of s lie in the first k ranges of form f.
MatchesForm(f, s, k) == \A i \in 1..k : In(s[i], f[i][1], f[i][2])

RECURSIVE WellFormed(_)
WellFormed(s) ==
    \/ s = <<>>
    \/ \E f \in Forms :
          /\ Len(f) <= Len(s)
          /\ MatchesForm(f, s, Len(f))
          /\ WellFormed(SubSeq(s, Len(f) + 1, Len(s)))

\* s can still be extended to a well-formed sequence.
RECURSIVE ValidPrefix(_)
ValidPrefix(s) ==
    \/ s = <<>>
    \/ \E f \in Forms :
          \/ /\ Len(f) <= Len(s)
             /\ MatchesForm(f, s, Len(f))
             /\ ValidPrefix(SubSeq(s, Len(f) + 1, Len(s)))
          \/ /\ Len(s) < Len(f)
             /\ MatchesForm(f, s, Len(s))
=============================================================================
