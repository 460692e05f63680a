----------------------------- MODULE RingBuffer -----------------------------
(***************************************************************************)
(* agent/ringbuffer.go: the bounded buffer that keeps the end of a         *)
(* process's output.  A buffer is a record of the bytes it retains, oldest *)
(* first, and of the logical offset of the first of them.  Each operator   *)
(* is one method, atomic under the buffer's mutex.                         *)
(***************************************************************************)
EXTENDS Integers, Sequences

NewRingBuffer == [buf |-> <<>>, start |-> 0]

\* Mutant of RingWrite: start is not advanced when bytes are dropped.
RingWriteKeepsStart(cap, r, p) ==
    LET b == r.buf \o p
        over == IF Len(b) > cap THEN Len(b) - cap ELSE 0
    IN  [buf |-> SubSeq(b, over + 1, Len(b)), start |-> r.start]

\* Write: append, then drop the oldest bytes above the capacity.
RingWrite(cap, r, p) ==
    LET b == r.buf \o p
        over == IF Len(b) > cap THEN Len(b) - cap ELSE 0
    IN  [buf |-> SubSeq(b, over + 1, Len(b)), start |-> r.start + over]

\* Len: the number of bytes ever written.
RingLen(r) == r.start + Len(r.buf)

\* Mutant of ReadFrom: dropped bytes are not reported.
ReadFromSilent(r, offset, maxBytes) ==
    LET from == IF offset < r.start THEN r.start ELSE offset
        rel == from - r.start
        end == IF maxBytes > 0 /\ rel + maxBytes < Len(r.buf) THEN rel + maxBytes ELSE Len(r.buf)
        some == rel < Len(r.buf)
    IN  [data |-> IF some THEN SubSeq(r.buf, rel + 1, end) ELSE <<>>,
         next |-> IF some THEN r.start + end ELSE from,
         truncatedBefore |-> FALSE]

\* ReadFrom: at most maxBytes bytes (no limit when it is 0) from offset on, or from the
\* oldest byte retained when offset was already dropped.
ReadFrom(r, offset, maxBytes) ==
    LET from == IF offset < r.start THEN r.start ELSE offset
        rel == from - r.start
        end == IF maxBytes > 0 /\ rel + maxBytes < Len(r.buf) THEN rel + maxBytes ELSE Len(r.buf)
        some == rel < Len(r.buf)
    IN  [data |-> IF some THEN SubSeq(r.buf, rel + 1, end) ELSE <<>>,
         next |-> IF some THEN r.start + end ELSE from,
         truncatedBefore |-> offset < r.start]
=============================================================================
