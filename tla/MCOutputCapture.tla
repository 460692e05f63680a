--------------------------- MODULE MCOutputCapture ---------------------------
(* Instances of OutputCapture for TLC. *)
EXTENDS OutputCapture

\* One stream overflows the buffer, the other only has to be waited for.
LongAndShort == [s \in Streams |-> IF s = "stdout" THEN 4 ELSE 1]
=============================================================================
