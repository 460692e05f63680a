---------------------------- MODULE ExecutionLog ----------------------------
(***************************************************************************)
(* What the execution history promises: each execution has at most one row,*)
(* which is opened, completed once, and deleted.  The code it shows is set *)
(* when it is completed and never changes; an outcome that could not be    *)
(* observed leaves it NULL.                                                *)
(***************************************************************************)
CONSTANTS Execs

VARIABLES
    log,            \* log[e]: none, open, ended or gone
    code            \* code[e]: the exit code its row shows

Init ==
    /\ log = [e \in Execs |-> "none"]
    /\ code = [e \in Execs |-> "nil"]

\* The row of e is written, or never will be.
Open(e) == log[e] = "none" /\ log'[e] \in {"open", "gone"} /\ code'[e] = "nil"

\* Its end is recorded, with or without a code.
End(e) == log[e] = "open" /\ log'[e] = "ended"

\* It is deleted.
Purge(e) == log[e] \in {"open", "ended"} /\ log'[e] = "gone" /\ code'[e] = "nil"

Keep(e) == log'[e] = log[e] /\ code'[e] = code[e]

\* A purge, and the end of the Agent, concern several executions at once.
Next == \A e \in Execs : Open(e) \/ End(e) \/ Purge(e) \/ Keep(e)

Spec == Init /\ [][Next]_<<log, code>>
=============================================================================
