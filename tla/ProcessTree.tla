---------------------------- MODULE ProcessTree ----------------------------
(***************************************************************************)
(* The operating system's side of the processes the Agent starts, as       *)
(* internal/backend uses it: each started process leads a process group of *)
(* its own (Setpgid), may fork children into the group, and a child may    *)
(* leave it (setsid).  A group is signalled by number, and the kernel may  *)
(* give a number to a new group once the old group is gone and its leader  *)
(* was waited for.                                                         *)
(***************************************************************************)
EXTENDS Integers, FiniteSets

CONSTANTS
    Procs,          \* the processes the Agent may start
    Pids,           \* process numbers
    NoPid,          \* no number: not started
    Endings,        \* the ways leaders end by themselves
    Foreign         \* processes that change their user: kill answers EPERM

\* "denied": an exit with code 1 after the sandbox refused a write.  "setup": the sandbox
\* wrapper failed before it became the command, and left with code 111.
ASSUME TreeAssumption ==
    /\ NoPid \notin Pids
    /\ Foreign \subseteq Procs
    /\ Endings \subseteq {"exit0", "exit1", "exit111", "denied", "setup"}

VARIABLES
    pid,            \* pid[p]: the number of p, and of its group
    alive,          \* alive[p]: who lives of p's tree: the leader, a child, a detached child
    status,         \* status[p]: how the leader ended
    reaped          \* reaped[p]: it was waited for

treeVars == <<pid, alive, status, reaped>>

Members == {"leader", "child", "detached"}

TreeTypeOK ==
    /\ pid \in [Procs -> Pids \cup {NoPid}]
    /\ alive \in [Procs -> SUBSET Members]
    /\ status \in [Procs -> Endings \cup {"none", "signal"}]
    /\ reaped \in [Procs -> BOOLEAN]

TreeInit ==
    /\ pid = [p \in Procs |-> NoPid]
    /\ alive = [p \in Procs |-> {}]
    /\ status = [p \in Procs |-> "none"]
    /\ reaped = [p \in Procs |-> FALSE]

InGroup(p) == alive[p] \cap {"leader", "child"}

Zombie(p) == pid[p] # NoPid /\ "leader" \notin alive[p] /\ ~reaped[p]

\* The processes whose group has number g: kill(-g) answers ESRCH when there is none.
GroupOf(g) == {p \in Procs : pid[p] = g /\ (InGroup(p) # {} \/ Zombie(p))}

FreePids == {g \in Pids : GroupOf(g) = {}}

\* fork and exec.
Exec(p) ==
    /\ \E g \in FreePids : pid' = [pid EXCEPT ![p] = g]
    /\ alive' = [alive EXCEPT ![p] = {"leader"}]
    /\ UNCHANGED <<status, reaped>>

LeaderExit(p, how) ==
    /\ "leader" \in alive[p]
    /\ alive' = [alive EXCEPT ![p] = @ \ {"leader"}]
    /\ status' = [status EXCEPT ![p] = how]
    /\ UNCHANGED <<pid, reaped>>

Fork(p) ==
    /\ "leader" \in alive[p]
    /\ "child" \notin alive[p]
    /\ alive' = [alive EXCEPT ![p] = @ \cup {"child"}]
    /\ UNCHANGED <<pid, status, reaped>>

Detach(p) ==
    /\ "child" \in alive[p]
    /\ alive' = [alive EXCEPT ![p] = (@ \ {"child"}) \cup {"detached"}]
    /\ UNCHANGED <<pid, status, reaped>>

ChildExit(p) ==
    /\ \E m \in alive[p] \ {"leader"} : alive' = [alive EXCEPT ![p] = @ \ {m}]
    /\ UNCHANGED <<pid, status, reaped>>

\* kill(-pid, sig), allowed, on p's group: the members in keep survive it.
Signal(p, keep) ==
    LET T == GroupOf(pid[p])
        dead == {"leader", "child"} \ keep
    IN  /\ T \cap Foreign = {}
        /\ alive' = [q \in Procs |-> IF q \in T THEN alive[q] \ dead ELSE alive[q]]
        /\ status' = [q \in Procs |-> IF q \in T /\ "leader" \in alive[q] \cap dead
                                      THEN "signal" ELSE status[q]]
        /\ UNCHANGED <<pid, reaped>>

\* kill(-pid, sig) answers EPERM.
SignalRefused(p) == GroupOf(pid[p]) \cap Foreign # {}

\* wait4: the leader's number becomes free once its group is gone.
Waited(p) ==
    /\ Zombie(p)
    /\ reaped' = [reaped EXCEPT ![p] = TRUE]
    /\ UNCHANGED <<pid, alive, status>>
=============================================================================
