--------------------------- MODULE ProcessManager ---------------------------
(***************************************************************************)
(* agent/processmgr.go and the two backends under internal/backend: the    *)
(* records of the processes an Agent started, the goroutine that waits for *)
(* each of them, the collection of finished records, and the termination   *)
(* of a process group.  OutputCapture has the pipes and the buffers; here  *)
(* the wait for the copies is one step that may take any time.             *)
(***************************************************************************)
EXTENDS ProcessTree

CONSTANTS
    Unobservable,   \* processes that somebody else may reap: Process.Wait may fail
    Undeletable     \* processes whose scratch directory os.RemoveAll may fail to remove

ASSUME ManagerAssumption == Unobservable \subseteq Procs /\ Undeletable \subseteq Procs

VARIABLES
    rec,            \* rec[p]: where the exit-wait goroutine is with p
    sandboxed,      \* sandboxed[p]: p is sandboxMgr's, not mgr's
    listed,         \* listed[p]: p is in its Manager's procs
    exitCode,       \* exitCode[p]: its exitCode
    setupFailed,    \* setupFailed[p]: its sandboxSetupFailed
    waitErr,        \* waitErr[p]: h.Wait failed (res.Err, published as exitErr)
    scratch         \* scratch[p]: its scratch directory is there, or was left behind

managerVars == <<rec, sandboxed, listed, exitCode, setupFailed, waitErr, scratch>>

\* "lost": the Agent that kept the record is gone.
RecStages == {"none", "wait", "cleanup", "drain", "closed", "coded", "done", "lost"}

ManagerTypeOK ==
    /\ rec \in [Procs -> RecStages]
    /\ sandboxed \in [Procs -> BOOLEAN]
    /\ listed \in [Procs -> BOOLEAN]
    /\ exitCode \in [Procs -> {"nil", "0", "1", "111", "-1"}]
    /\ setupFailed \in [Procs -> BOOLEAN]
    /\ waitErr \in [Procs -> BOOLEAN]
    /\ scratch \in [Procs -> {"none", "there", "left"}]

ManagerInit ==
    /\ rec = [p \in Procs |-> "none"]
    /\ sandboxed = [p \in Procs |-> FALSE]
    /\ listed = [p \in Procs |-> FALSE]
    /\ exitCode = [p \in Procs |-> "nil"]
    /\ setupFailed = [p \in Procs |-> FALSE]
    /\ waitErr = [p \in Procs |-> FALSE]
    /\ scratch = [p \in Procs |-> "none"]

\* What the processes do by themselves; only a sandboxed one can be denied a write or fail
\* in the wrapper.
TreeStep(p) ==
    /\ \/ \E how \in Endings :
            (how \in {"denied", "setup"} => sandboxed[p]) /\ LeaderExit(p, how)
       \/ Fork(p)
       \/ Detach(p)
       \/ ChildExit(p)
    /\ UNCHANGED managerVars

Exited(p) == rec[p] = "done"

Finished(p) == rec[p] \in {"coded", "done"}

-----------------------------------------------------------------------------
\* backend.Start succeeds: the sandbox's one made a scratch directory first.  The three
\* goroutines of Manager.Start run from here on.
BackendStart(p, box) ==
    /\ rec[p] = "none"
    /\ Exec(p)
    /\ rec' = [rec EXCEPT ![p] = "wait"]
    /\ sandboxed' = [sandboxed EXCEPT ![p] = box]
    /\ scratch' = [scratch EXCEPT ![p] = IF box THEN "there" ELSE "none"]
    /\ UNCHANGED <<listed, exitCode, setupFailed, waitErr>>

\* The end of Manager.Start: m.procs[rec.ID] = rec.
Insert(p) ==
    /\ listed' = [listed EXCEPT ![p] = TRUE]
    /\ UNCHANGED <<treeVars, rec, sandboxed, exitCode, setupFailed, waitErr, scratch>>

\* What Process.Wait answers once the leader is gone: its state, or an error when somebody
\* else reaped it.  Either way wait4 has nothing left to wait for.
ProcessWait(p) ==
    /\ Waited(p)
    /\ \E err \in BOOLEAN :
        /\ err => p \in Unobservable
        /\ waitErr' = [waitErr EXCEPT ![p] = err]

\* Mutant of HandleWait: the scratch directory is never removed.
HandleWaitOnly(p) ==
    /\ rec[p] = "wait"
    /\ ProcessWait(p)
    /\ rec' = [rec EXCEPT ![p] = "drain"]
    /\ UNCHANGED <<sandboxed, listed, exitCode, setupFailed, scratch>>

\* h.Wait: Process.Wait returns; the sandbox's one then reads the status pipe, whatever
\* Process.Wait answered.
HandleWait(p) ==
    /\ rec[p] = "wait"
    /\ ProcessWait(p)
    /\ rec' = [rec EXCEPT ![p] = IF sandboxed[p] THEN "cleanup" ELSE "drain"]
    /\ UNCHANGED <<sandboxed, listed, exitCode, setupFailed, scratch>>

\* The rest of the sandbox's Wait: os.RemoveAll(h.scratchDir).  Its error is only logged, and
\* what it could not remove stays.
RemoveScratch(p) ==
    /\ rec[p] = "cleanup"
    /\ \E left \in {"none", "left"} :
        /\ left = "left" => p \in Undeletable
        /\ scratch' = [scratch EXCEPT ![p] = left]
    /\ rec' = [rec EXCEPT ![p] = "drain"]
    /\ UNCHANGED <<treeVars, sandboxed, listed, exitCode, setupFailed, waitErr>>

\* Mutant of Drain: no grace period.
DrainNaturally(p) ==
    /\ rec[p] = "drain"
    /\ alive[p] = {}
    /\ rec' = [rec EXCEPT ![p] = "closed"]
    /\ UNCHANGED <<treeVars, sandboxed, listed, exitCode, setupFailed, waitErr, scratch>>

\* The copies end or the grace period elapses, then CloseIO, then <-drained.
Drain(p) ==
    /\ rec[p] = "drain"
    /\ rec' = [rec EXCEPT ![p] = "closed"]
    /\ UNCHANGED <<treeVars, sandboxed, listed, exitCode, setupFailed, waitErr, scratch>>

\* state.ExitCode(): -1 for a process that a signal ended.
StateExitCode(p) ==
    CASE status[p] = "exit0" -> "0"
      [] status[p] \in {"exit1", "denied"} -> "1"
      [] status[p] \in {"exit111", "setup"} -> "111"
      [] OTHER -> "-1"

\* Mutant of StatusByte: the setup failure is told by the exit code.
StatusByExitCode(p) == StateExitCode(p) = "111"

\* A byte in the status pipe: only the wrapper's failure path writes one.
StatusByte(p) == status[p] = "setup"

\* res.ExitCode, or no code when the outcome could not be observed.
ObservedCode(p) == IF waitErr[p] THEN "nil" ELSE StateExitCode(p)

\* The outcome is published under rec.mu ...
SetExit(p) ==
    /\ rec[p] = "closed"
    /\ exitCode' = [exitCode EXCEPT ![p] = ObservedCode(p)]
    /\ setupFailed' = [setupFailed EXCEPT ![p] = sandboxed[p] /\ StatusByte(p)]
    /\ rec' = [rec EXCEPT ![p] = "coded"]
    /\ UNCHANGED <<treeVars, sandboxed, listed, waitErr, scratch>>

\* ... and then rec.done is closed.
CloseDone(p) ==
    /\ rec[p] = "coded"
    /\ rec' = [rec EXCEPT ![p] = "done"]
    /\ UNCHANGED <<treeVars, sandboxed, listed, exitCode, setupFailed, waitErr, scratch>>

WaitStep(p) ==
    \/ HandleWait(p)
    \/ RemoveScratch(p)
    \/ Drain(p)
    \/ SetExit(p)
    \/ CloseDone(p)

\* A tick of StartGC: the records that finished more than finishedTTL ago go.
Collect(box) ==
    /\ \E S \in SUBSET {p \in Procs : listed[p] /\ sandboxed[p] = box /\ Finished(p)} :
        /\ S # {}
        /\ listed' = [p \in Procs |-> listed[p] /\ p \notin S]
    /\ UNCHANGED <<treeVars, rec, sandboxed, exitCode, setupFailed, waitErr, scratch>>

-----------------------------------------------------------------------------
(* handle.Terminate, for whoever runs it: SIGTERM, then a poll every 20 ms, then SIGKILL. *)

\* SIGTERM to the group: any member may survive it.
SendTerm(p) == \E keep \in SUBSET {"leader", "child"} : Signal(p, keep)

\* A tick finds the group gone.
GroupGone(p) == GroupOf(pid[p]) = {} /\ UNCHANGED treeVars

\* Mutants of SendKill: no deadline; a SIGTERM again.
SendKillNever(p) == GroupOf(pid[p]) = {} /\ UNCHANGED treeVars

SendTermAgain(p) == \E keep \in SUBSET {"leader", "child"} : Signal(p, keep)

\* The deadline: SIGKILL to the group.
SendKill(p) == Signal(p, {})
=============================================================================
