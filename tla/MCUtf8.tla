------------------------------- MODULE MCUtf8 -------------------------------
(***************************************************************************)
(* Feeds the validator one byte at a time, as wslay_event_recv() does     *)
(* across chunks, and compares its state with the RFC 3629 reference.     *)
(***************************************************************************)
EXTENDS Utf8

CONSTANTS
    TestBytes,  \* both ends of every byte range of Forms
    MaxInput    \* length bound of the fed input

ASSUME TestBytes \subseteq 0..255 /\ MaxInput \in Nat

VARIABLES input, utf8state

vars == <<input, utf8state>>

Init == input = <<>> /\ utf8state = UTF8_ACCEPT

Feed == /\ Len(input) < MaxInput
        /\ \E b \in TestBytes :
              /\ input' = Append(input, b)
              /\ utf8state' = Utf8Decode(utf8state, b)

Spec == Init /\ [][Feed]_vars

\* The validator is in UTF8_ACCEPT exactly when the bytes fed so far are
\* well-formed UTF-8: the test wslay_event_recv() applies at the end of a
\* fin TEXT frame and of a CLOSE frame.
AcceptIffWellFormed == (utf8state = UTF8_ACCEPT) <=> WellFormed(input)

\* The validator rejects exactly when no continuation of the bytes fed so
\* far can be well-formed, so wslay_event_recv() may fail a TEXT message
\* at the first REJECT without waiting for its end.
RejectIffNoValidExtension == (utf8state = UTF8_REJECT) <=> ~ValidPrefix(input)
=============================================================================
