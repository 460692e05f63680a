---------------------------- MODULE AtomicUpdate ----------------------------
(***************************************************************************)
(* What internal/selfupdate promises about the Agent's binary: the file at *)
(* destPath is only ever replaced as a whole, by a binary the publisher    *)
(* offered for this machine, and the process image is only ever replaced   *)
(* by what that file holds.                                                *)
(***************************************************************************)
EXTENDS FiniteSets

VARIABLES
    offered,        \* the binaries published so far for this architecture
    dest,           \* the binary at destPath
    running         \* the binary whose image runs, or ran last

auVars == <<offered, dest, running>>

Init ==
    /\ dest = running
    /\ dest \in offered

\* The publisher's side: nothing that was offered is taken back.
Offer ==
    /\ offered \subseteq offered'
    /\ UNCHANGED <<dest, running>>

Replace ==
    /\ dest' \in offered
    /\ UNCHANGED <<offered, running>>

\* A start or a re-exec.
Boot ==
    /\ running' = dest
    /\ UNCHANGED <<offered, dest>>

Next == Offer \/ Replace \/ Boot

Spec == Init /\ [][Next]_auVars
=============================================================================
