----------------------------- MODULE AgentMain -----------------------------
(***************************************************************************)
(* The Agent process: agent/cmd/main.go around Connection.Run              *)
(* (agent/connection.go), the handlers that start and manage processes     *)
(* (agent/handlers_command.go, agent/handlers_process.go) as the           *)
(* goroutines c.wg counts, the two Managers, the execution history, the    *)
(* graceful stop, the crash, and the re-exec of internal/selfupdate.       *)
(***************************************************************************)
EXTENDS ProcessManager, History

CONSTANTS
    Reqs,               \* requests to the Agent
    MethodsOf,          \* MethodsOf[r]: the methods request r may have
    SandboxSupported,   \* ProbeSandbox's answer at start
    AutoUpdate,         \* AUTO_UPDATE_ENABLED, and there is a release to install
    MaxCrashes,         \* bound on crashes
    NoProc              \* no process

StartMethods == {"command.exec", "command.read", "process.start"}
IdMethods == {"process.wait", "process.write", "process.terminate"}
ReadMethods == {"process.list", "execution.get", "execution.list"}

ASSUME AgentMainAssumption ==
    /\ Execs = Procs
    /\ MethodsOf \in [Reqs -> SUBSET (StartMethods \cup IdMethods \cup ReadMethods)]
    /\ SandboxSupported \in BOOLEAN /\ AutoUpdate \in BOOLEAN
    /\ MaxCrashes \in Nat
    /\ NoProc \notin Procs

VARIABLES
    method,         \* method[r]: its method
    stage,          \* stage[r]: where the handler goroutine of r is
    target,         \* target[r]: the process it started or was asked about
    timedOut,       \* timedOut[r]: its timed_out
    res,            \* res[r]: the response
    flag,           \* flag[r]: the response's SandboxViolation
    view,           \* view[r][p]: what process.list knows of p
    phase,          \* where main is
    killer,         \* killer[p]: where TerminateAll's goroutine for p is
    update,         \* where the self-updater is
    crashes         \* crashes so far

reqVars == <<method, stage, target, timedOut, res, flag, view>>
lifeVars == <<phase, killer, update, crashes>>
vars == <<treeVars, managerVars, historyVars, reqVars, lifeVars>>

Stages == {"idle", "begin", "insert", "recordStart", "wait", "recordEnd", "reply", "stdin",
           "lookup", "sigterm", "poll", "list", "summary", "done"}

Responses == {"none", "invalid_request", "internal", "unsupported", "sandbox_violation",
              "process_not_found", "result", "lost"}

\* The shapes of the state; RecordEnd retries recordEndMaxRetries times at most
\* (agent/history.go).
TypeOK ==
    /\ TreeTypeOK
    /\ ManagerTypeOK
    /\ HistoryTypeOK
    /\ method \in [Reqs -> StartMethods \cup IdMethods \cup ReadMethods \cup {"none"}]
    /\ stage \in [Reqs -> Stages]
    /\ target \in [Reqs -> Procs \cup {NoProc}]
    /\ timedOut \in [Reqs -> BOOLEAN]
    /\ res \in [Reqs -> Responses]
    /\ flag \in [Reqs -> BOOLEAN]
    /\ view \in [Reqs -> [Procs -> {<<"no">>, <<"due">>, <<"rec">>} \cup
                      ({"code", "running", "exited"} \X Codes)]]
    /\ phase \in {"running", "stopping", "mgr", "sandboxMgr", "stopped"}
    /\ killer \in [Procs -> {"none", "sigterm", "poll", "done"}]
    /\ update \in {"idle", "verified", "replaced", "installed"}
    /\ crashes \in 0 .. MaxCrashes

Init ==
    /\ TreeInit
    /\ ManagerInit
    /\ HistoryInit
    /\ method = [r \in Reqs |-> "none"]
    /\ stage = [r \in Reqs |-> "idle"]
    /\ target = [r \in Reqs |-> NoProc]
    /\ timedOut = [r \in Reqs |-> FALSE]
    /\ res = [r \in Reqs |-> "none"]
    /\ flag = [r \in Reqs |-> FALSE]
    /\ view = [r \in Reqs |-> [p \in Procs |-> <<"no">>]]
    /\ phase = "running"
    /\ killer = [p \in Procs |-> "none"]
    /\ update = "idle"
    /\ crashes = 0

\* The Agent process exists.
Up == phase # "stopped"

At(r, s) == stage[r] = s
Go(r, s) == stage' = [stage EXCEPT ![r] = s]

\* The handler returns x.
Respond(r, x) ==
    /\ Go(r, "done")
    /\ res' = [res EXCEPT ![r] = x]

Sandboxed(r) == method[r] = "command.read"

-----------------------------------------------------------------------------
(* The handlers. *)

\* runOnce reads a request and starts a goroutine for it.  One it had read when ctx was
\* cancelled still gets its goroutine.
Receive(r) ==
    /\ phase \in {"running", "stopping"}
    /\ At(r, "idle")
    /\ \E m \in MethodsOf[r] : method' = [method EXCEPT ![r] = m]
    /\ Go(r, "begin")
    /\ UNCHANGED <<treeVars, managerVars, historyVars, target, timedOut, res, flag, view>>

\* Early returns: no sandbox, parameters that do not parse, a backend.Start that fails (the
\* sandbox's one removes its scratch directory), a SELECT that fails, an id that was never given
\* out.  process.list has no parameters.
Reject(r) ==
    /\ At(r, "begin")
    /\ method[r] # "process.list"
    /\ IF Sandboxed(r) /\ ~SandboxSupported
       THEN Respond(r, "unsupported")
       ELSE \/ Respond(r, "invalid_request")
            \/ method[r] \in StartMethods \cup ReadMethods /\ Respond(r, "internal")
            \/ method[r] \in IdMethods /\ Respond(r, "process_not_found")
    /\ UNCHANGED <<treeVars, managerVars, historyVars, target, timedOut, flag>>

\* Exec, Read, Start: Manager.Start up to the insertion.
StartProcess(r) ==
    /\ At(r, "begin")
    /\ method[r] \in StartMethods
    /\ Sandboxed(r) => SandboxSupported
    /\ \E p \in Procs :
        /\ BackendStart(p, Sandboxed(r))
        /\ target' = [target EXCEPT ![r] = p]
    /\ Go(r, "insert")
    /\ UNCHANGED <<historyVars, timedOut, res, flag>>

InsertRecord(r) ==
    /\ At(r, "insert")
    /\ Insert(target[r])
    /\ Go(r, "recordStart")
    /\ UNCHANGED <<historyVars, target, timedOut, res, flag>>

\* RecordStart.  process.start then leaves the end to a goroutine and returns.
RecordTheStart(r) ==
    /\ At(r, "recordStart")
    /\ RecordStart(target[r])
    /\ IF method[r] = "process.start"
       THEN /\ end' = [end EXCEPT ![target[r]] = "wait"]
            /\ Respond(r, "result")
       ELSE /\ Go(r, "wait")
            /\ UNCHANGED <<end, res>>
    /\ UNCHANGED <<treeVars, managerVars, endCode, attempt, target, timedOut, flag>>

\* rec.Wait returns in Exec, Read: the process is done and the end is recorded here.
CommandWaited(r) ==
    /\ At(r, "wait")
    /\ method[r] \in StartMethods
    /\ Exited(target[r])
    /\ end' = [end EXCEPT ![target[r]] = "write"]
    /\ endCode' = [endCode EXCEPT ![target[r]] = exitCode[target[r]]]
    /\ Go(r, "recordEnd")
    /\ UNCHANGED <<treeVars, managerVars, row, rowCode, attempt, busy, dbErrors, target, timedOut,
                   res, flag>>

\* Mutants of CommandTimeout: the nil exit code is recorded as the end; nobody is left to
\* record the end.
CommandTimeoutEnds(r) ==
    /\ At(r, "wait")
    /\ method[r] \in StartMethods
    /\ timedOut' = [timedOut EXCEPT ![r] = TRUE]
    /\ end' = [end EXCEPT ![target[r]] = "write"]
    /\ Go(r, "recordEnd")
    /\ UNCHANGED <<treeVars, managerVars, row, rowCode, endCode, attempt, busy, dbErrors, target,
                   res, flag>>

CommandTimeoutForgets(r) ==
    /\ At(r, "wait")
    /\ method[r] \in StartMethods
    /\ timedOut' = [timedOut EXCEPT ![r] = TRUE]
    /\ Go(r, "reply")
    /\ UNCHANGED <<treeVars, managerVars, historyVars, target, res, flag>>

\* The clamped timeout elapses, or ctx was cancelled: recordEndEventually.
CommandTimeout(r) ==
    /\ At(r, "wait")
    /\ method[r] \in StartMethods
    /\ timedOut' = [timedOut EXCEPT ![r] = TRUE]
    /\ end' = [end EXCEPT ![target[r]] = "wait"]
    /\ Go(r, "reply")
    /\ UNCHANGED <<treeVars, managerVars, row, rowCode, endCode, attempt, busy, dbErrors, target,
                   res, flag>>

\* Mutant of EndRecorded: the end is recorded in the background, after the answer.
EndRecordedEarly(r) ==
    /\ At(r, "recordEnd")
    /\ Go(r, "reply")
    /\ UNCHANGED <<treeVars, managerVars, historyVars, target, timedOut, res, flag>>

\* RecordEnd returned to the handler.
EndRecorded(r) ==
    /\ At(r, "recordEnd")
    /\ end[target[r]] = "done"
    /\ Go(r, "reply")
    /\ UNCHANGED <<treeVars, managerVars, historyVars, target, timedOut, res, flag>>

\* The response of Exec, Read.  A setup failure of the sandbox is an error.
Reply(r) ==
    LET p == target[r] IN
    /\ At(r, "reply")
    /\ IF Sandboxed(r) /\ ~timedOut[r] /\ setupFailed[p]
       THEN Respond(r, "sandbox_violation") /\ UNCHANGED flag
       ELSE /\ Respond(r, "result")
            /\ flag' = [flag EXCEPT ![r] = Sandboxed(r) /\ ~timedOut[r] /\ exitCode[p] \notin {"nil", "0"}]
    /\ UNCHANGED <<treeVars, managerVars, historyVars, target, timedOut>>

\* Mutant of Found: sandboxMgr is not asked.
FoundByMgr(p) == listed[p] /\ ~sandboxed[p]

\* find: p is in mgr or in sandboxMgr.
Found(p) == listed[p]

\* The next stage of a request whose process was found.
AfterFind(m) ==
    CASE m = "process.wait" -> "wait"
      [] m = "process.write" -> "stdin"
      [] OTHER -> "lookup"

\* Wait, Write, Terminate look the process up.  Clients know the ids that process.list or a
\* response gave them, of processes inserted at some time.
Find(r) ==
    /\ At(r, "begin")
    /\ method[r] \in IdMethods
    /\ \E p \in Procs :
        /\ rec[p] # "none"
        /\ \A q \in Reqs : target[q] = p => ~At(q, "insert")
        /\ target' = [target EXCEPT ![r] = p]
        /\ IF Found(p)
           THEN Go(r, AfterFind(method[r])) /\ UNCHANGED res
           ELSE Respond(r, "process_not_found")
    /\ UNCHANGED <<treeVars, managerVars, historyVars, timedOut, flag>>

\* process.wait: the process is done, or the timeout elapses.
Waiting(r) ==
    /\ At(r, "wait")
    /\ method[r] = "process.wait"
    /\ \E late \in BOOLEAN :
        /\ late \/ Exited(target[r])
        /\ timedOut' = [timedOut EXCEPT ![r] = late]
    /\ Respond(r, "result")
    /\ UNCHANGED <<treeVars, managerVars, historyVars, target, flag>>

\* process.write: the pipe takes the data, which a process that does not read may never let
\* it do ...
StdinTaken(r) ==
    /\ At(r, "stdin")
    /\ alive[target[r]] # {}
    /\ Respond(r, "result")
    /\ UNCHANGED <<treeVars, managerVars, historyVars, target, timedOut, flag>>

\* ... or the write fails: nobody is left to read, or CloseIO closed the pipe.
StdinErr(r) ==
    /\ At(r, "stdin")
    /\ alive[target[r]] = {} \/ rec[target[r]] \in {"closed", "coded", "done"}
    /\ Respond(r, "internal")
    /\ UNCHANGED <<treeVars, managerVars, historyVars, target, timedOut, flag>>

\* Manager.Terminate looks the process up again.
Lookup(r) ==
    /\ At(r, "lookup")
    /\ IF listed[target[r]] THEN Go(r, "sigterm") /\ UNCHANGED res
                            ELSE Respond(r, "process_not_found")
    /\ UNCHANGED <<treeVars, managerVars, historyVars, target, timedOut, flag>>

\* handle.Terminate in the goroutine of r.
HandlerTerminate(r) ==
    LET p == target[r] IN
    /\ \/ At(r, "sigterm") /\ SendTerm(p) /\ Go(r, "poll") /\ UNCHANGED res
       \/ At(r, "poll") /\ (GroupGone(p) \/ SendKill(p)) /\ Respond(r, "result")
       \/ /\ stage[r] \in {"sigterm", "poll"}
          /\ SignalRefused(p)
          /\ Respond(r, "internal")
          /\ UNCHANGED treeVars
    /\ UNCHANGED <<managerVars, historyVars, target, timedOut, flag>>

-----------------------------------------------------------------------------
(* process.list, execution.get and execution.list. *)

\* The snapshot of mgr's records; view also notes which of sandboxMgr's are due.
ListMgr(r) ==
    /\ At(r, "begin")
    /\ method[r] = "process.list"
    /\ view' = [view EXCEPT ![r] = [p \in Procs |->
                   IF ~listed[p] THEN <<"no">> ELSE IF sandboxed[p] THEN <<"due">> ELSE <<"rec">>]]
    /\ Go(r, "list")
    /\ UNCHANGED res

\* Mutant of ListSandboxMgr: only mgr is asked.
ListMgrOnly(r) ==
    /\ At(r, "list")
    /\ Go(r, "summary")
    /\ UNCHANGED <<view, res>>

\* The snapshot of sandboxMgr's.
ListSandboxMgr(r) ==
    /\ At(r, "list")
    /\ view' = [view EXCEPT ![r] = [p \in Procs |->
                   IF listed[p] /\ sandboxed[p] THEN <<"rec">> ELSE @[p]]]
    /\ Go(r, "summary")
    /\ UNCHANGED res

\* For one record after the other: rec.ExitCode(), then rec.Exited().
Summarise(r) ==
    /\ At(r, "summary")
    /\ \E p \in Procs :
        \/ /\ view[r][p] = <<"rec">>
           /\ \A q \in Procs : view[r][q][1] # "code"
           /\ view' = [view EXCEPT ![r][p] = <<"code", exitCode[p]>>]
        \/ /\ view[r][p][1] = "code"
           /\ view' = [view EXCEPT ![r][p] = <<IF Exited(p) THEN "exited" ELSE "running", @[2]>>]
    /\ UNCHANGED <<stage, res>>

ListReply(r) ==
    /\ At(r, "summary")
    /\ \A p \in Procs : view[r][p][1] \notin {"rec", "code"}
    /\ Respond(r, "result")
    /\ UNCHANGED view

\* One SELECT: the latest rows, or the row of an id, which may never have been written or be gone.
ReadHistory(r) ==
    /\ At(r, "begin")
    /\ \/ /\ method[r] = "execution.list"
          /\ Respond(r, "result")
       \/ /\ method[r] = "execution.get"
          /\ \E p \in Procs : Respond(r, IF row[p] = "absent" THEN "invalid_request" ELSE "result")
    /\ UNCHANGED view

ReadStep(r) ==
    /\ ListMgr(r) \/ ListSandboxMgr(r) \/ Summarise(r) \/ ListReply(r) \/ ReadHistory(r)
    /\ UNCHANGED <<treeVars, managerVars, historyVars, method, target, timedOut, flag>>

ProcessStep(r) ==
    /\ \/ Reject(r)
       \/ StartProcess(r) \/ InsertRecord(r) \/ RecordTheStart(r)
       \/ CommandWaited(r) \/ CommandTimeout(r) \/ EndRecorded(r) \/ Reply(r)
       \/ Find(r) \/ Waiting(r) \/ StdinErr(r)
       \/ Lookup(r) \/ HandlerTerminate(r)
    /\ UNCHANGED <<method, view>>

HandlerStep(r) ==
    \/ Receive(r)
    \/ ProcessStep(r)
    \/ StdinTaken(r) /\ UNCHANGED <<method, view>>
    \/ ReadStep(r)

\* The goroutine left to record the end: its rec.Wait returns.
EndAwaited(p) ==
    /\ end[p] = "wait"
    /\ Exited(p)
    /\ end' = [end EXCEPT ![p] = "write"]
    /\ endCode' = [endCode EXCEPT ![p] = exitCode[p]]
    /\ UNCHANGED <<treeVars, managerVars, row, rowCode, attempt, busy, dbErrors>>

-----------------------------------------------------------------------------
(* The life of the process. *)

\* SIGTERM or SIGINT cancels ctx.
Stop ==
    /\ phase = "running"
    /\ phase' = "stopping"
    /\ UNCHANGED <<treeVars, managerVars, historyVars, reqVars, killer, update, crashes>>

\* c.wg.Wait() returns.
HandlersDone == \A r \in Reqs : stage[r] \in {"idle", "done"}

\* TerminateAll of a Manager starts a goroutine for each record that is not Exited.
KillersOf(box) ==
    [p \in Procs |-> IF listed[p] /\ sandboxed[p] = box /\ ~Exited(p) THEN "sigterm" ELSE killer[p]]

\* Mutant of RunReturns: the handlers are not waited for.
RunReturnsEarly ==
    /\ phase = "stopping"
    /\ phase' = "mgr"
    /\ killer' = KillersOf(FALSE)
    /\ UNCHANGED <<treeVars, managerVars, historyVars, reqVars, update, crashes>>

\* Run returns and mgr.TerminateAll begins.
RunReturns ==
    /\ phase = "stopping"
    /\ HandlersDone
    /\ phase' = "mgr"
    /\ killer' = KillersOf(FALSE)
    /\ UNCHANGED <<treeVars, managerVars, historyVars, reqVars, update, crashes>>

\* handle.Terminate in a goroutine of TerminateAll; its error is only logged.
KillerStep(p) ==
    /\ \/ killer[p] = "sigterm" /\ SendTerm(p) /\ killer' = [killer EXCEPT ![p] = "poll"]
       \/ killer[p] = "poll" /\ (GroupGone(p) \/ SendKill(p)) /\ killer' = [killer EXCEPT ![p] = "done"]
       \/ /\ killer[p] \in {"sigterm", "poll"}
          /\ SignalRefused(p)
          /\ killer' = [killer EXCEPT ![p] = "done"]
          /\ UNCHANGED treeVars
    /\ UNCHANGED <<managerVars, historyVars, reqVars, phase, update, crashes>>

KillersDone == \A p \in Procs : killer[p] \in {"none", "done"}

\* mgr.TerminateAll returns and sandboxMgr.TerminateAll begins.
NextManager ==
    /\ phase = "mgr"
    /\ KillersDone
    /\ phase' = "sandboxMgr"
    /\ killer' = KillersOf(TRUE)
    /\ UNCHANGED <<treeVars, managerVars, historyVars, reqVars, update, crashes>>

\* main returns: whatever its goroutines still had to do is not done.
MainReturns ==
    /\ phase = "sandboxMgr"
    /\ KillersDone
    /\ phase' = "stopped"
    /\ UNCHANGED <<treeVars, managerVars, historyVars, reqVars, killer, update, crashes>>

\* What is lost with the process image; the processes, the rows and the scratch directories
\* are not.
Forget ==
    /\ rec' = [p \in Procs |-> IF rec[p] = "none" THEN "none" ELSE "lost"]
    /\ listed' = [p \in Procs |-> FALSE]
    /\ end' = [p \in Procs |-> IF end[p] \in {"wait", "write"} THEN "lost" ELSE end[p]]
    /\ stage' = [r \in Reqs |-> IF At(r, "idle") THEN "idle" ELSE "done"]
    /\ res' = [r \in Reqs |-> IF stage[r] \in {"idle", "done"} THEN res[r] ELSE "lost"]
    /\ killer' = [p \in Procs |-> "none"]
    /\ phase' = "running"
    /\ UNCHANGED <<sandboxed, exitCode, setupFailed, waitErr, scratch, row, rowCode, endCode,
                   attempt, busy, dbErrors, method, target, timedOut, flag, view>>

\* The Agent is killed; systemd kills the rest of its cgroup and starts it again.
Crash ==
    /\ Up
    /\ crashes < MaxCrashes
    /\ crashes' = crashes + 1
    /\ alive' = [p \in Procs |-> {}]
    /\ status' = [p \in Procs |-> IF "leader" \in alive[p] THEN "signal" ELSE status[p]]
    /\ reaped' = [p \in Procs |-> pid[p] # NoPid]
    /\ update' = IF update \in {"replaced", "installed"} THEN "installed" ELSE "idle"
    /\ Forget
    /\ UNCHANGED pid

\* checkOnce: a release with another version was downloaded and verified.  The requests
\* carry ctx, what follows them does not look at it.
FetchUpdate ==
    /\ AutoUpdate
    /\ phase = "running"
    /\ update = "idle"
    /\ update' = "verified"
    /\ UNCHANGED <<treeVars, managerVars, historyVars, reqVars, phase, killer, crashes>>

\* replaceBinary renames the new binary over the running one, or fails.
ReplaceBinary ==
    /\ Up
    /\ update = "verified"
    /\ update' \in {"replaced", "idle"}
    /\ UNCHANGED <<treeVars, managerVars, historyVars, reqVars, phase, killer, crashes>>

\* execSelf fails: the next check sees the same update again.
ExecSelfErr ==
    /\ Up
    /\ update = "replaced"
    /\ update' = "idle"
    /\ UNCHANGED <<treeVars, managerVars, historyVars, reqVars, phase, killer, crashes>>

\* execSelf: the new image takes the place of the old one, in the same process.
ExecSelf ==
    /\ Up
    /\ update = "replaced"
    /\ update' = "installed"
    /\ Forget
    /\ UNCHANGED <<treeVars, crashes>>

-----------------------------------------------------------------------------
MainStep == RunReturns \/ NextManager \/ MainReturns

Next ==
    \/ \E p \in Procs : TreeStep(p) /\ UNCHANGED <<historyVars, reqVars, lifeVars>>
    \/ \E p \in Procs : Up /\ WaitStep(p) /\ UNCHANGED <<historyVars, reqVars, lifeVars>>
    \/ \E box \in BOOLEAN : Up /\ Collect(box) /\ UNCHANGED <<historyVars, reqVars, lifeVars>>
    \/ \E r \in Reqs : Up /\ HandlerStep(r) /\ UNCHANGED lifeVars
    \/ \E p \in Procs : Up /\ EndAwaited(p) /\ UNCHANGED <<reqVars, lifeVars>>
    \/ \E p \in Procs : Up /\ RecordEndStep(p) /\ UNCHANGED <<treeVars, managerVars, reqVars, lifeVars>>
    \/ Up /\ PurgeOlderThan /\ UNCHANGED <<treeVars, managerVars, reqVars, lifeVars>>
    \/ \E p \in Procs : KillerStep(p)
    \/ Stop \/ MainStep
    \/ FetchUpdate \/ ReplaceBinary \/ ExecSelfErr \/ ExecSelf
    \/ Crash

Spec == Init /\ [][Next]_vars

\* The Agent's goroutines run and its timers fire.  Nothing is assumed of the processes (they
\* need not end, read their input or obey SIGTERM), of clients, of the collectors, of updates.
HandlerProgress(r) == ProcessStep(r) \/ ReadStep(r)

Fairness ==
    /\ \A p \in Procs : WF_vars(Up /\ WaitStep(p) /\ UNCHANGED <<historyVars, reqVars, lifeVars>>)
    /\ \A r \in Reqs : WF_vars(Up /\ HandlerProgress(r) /\ UNCHANGED lifeVars)
    /\ \A p \in Procs : WF_vars(Up /\ EndAwaited(p) /\ UNCHANGED <<reqVars, lifeVars>>)
    /\ \A p \in Procs :
        WF_vars(Up /\ RecordEndStep(p) /\ UNCHANGED <<treeVars, managerVars, reqVars, lifeVars>>)
    /\ \A p \in Procs : WF_vars(KillerStep(p))
    /\ WF_vars(MainStep)

FairSpec == Spec /\ Fairness

-----------------------------------------------------------------------------
(* Properties. *)

\* process.terminate answers only once nobody of the group is left: "whole process tree,
\* graceful then forced" (handlers_process.go:210).
TerminatedMeansGone ==
    \A r \in Reqs :
        method[r] = "process.terminate" /\ res[r] = "result" => InGroup(target[r]) = {}

\* A process_id the Agent gave out is unknown to it only once the process ended or the Agent
\* was restarted: find asks both Managers, and the collection takes finished records only.
NotFoundHonest ==
    \A r \in Reqs :
        res[r] = "process_not_found" /\ target[r] # NoProc => Finished(target[r]) \/ rec[target[r]] = "lost"

\* An execution's row is completed only after the process ended, with the exit code it ended
\* with: not on a timeout, whoever writes it, across purges, crashes and re-execs.  It is completed
\* without a code exactly when the outcome could not be observed (handlers_command.go:142).
HistoryTruthful ==
    \A p \in Procs :
        row[p] = "ended" =>
            /\ status[p] # "none"
            /\ reaped[p]
            /\ rowCode[p] = ObservedCode(p)

\* command.read answers sandbox_violation exactly for a failure of the sandbox's own setup,
\* never for a command that happens to exit with the wrapper's code 111, and a command that
\* was denied a write and ended in time is flagged, if its exit code could be observed
\* (handlers_command.go:195).
SetupFailureExact ==
    \A r \in Reqs :
        /\ res[r] = "sandbox_violation" => status[target[r]] = "setup"
        /\ Sandboxed(r) /\ res[r] = "result" /\ ~timedOut[r] =>
              /\ status[target[r]] # "setup"
              /\ status[target[r]] = "denied" /\ ~waitErr[target[r]] => flag[r]

\* A sandboxed command has its scratch directory as long as it runs, also when the Agent
\* re-executes itself, and its exit is reported only after the removal of the directory, which is
\* then gone unless os.RemoveAll failed (sandbox_linux.go:195-200).
ScratchLifetime ==
    \A p \in Procs :
        /\ sandboxed[p] /\ "leader" \in alive[p] => scratch[p] = "there"
        /\ Exited(p) => scratch[p] # "there"

\* process.list leaves out no process that was running all the time, of either Manager, an exit it
\* reports is real, and so is an exit code it shows.  An exit without a code is not excluded: the
\* outcome was unobservable, or was published between ExitCode() and Exited()
\* (handlers_process.go:246).
ListHonest ==
    \A r \in Reqs, p \in Procs :
        method[r] = "process.list" /\ res[r] = "result" =>
            /\ view[r][p] = <<"due">> => Finished(p) \/ rec[p] = "lost"
            /\ view[r][p][1] = "exited" => reaped[p]
            /\ view[r][p][1] \in {"running", "exited"} /\ view[r][p][2] # "nil" =>
                  reaped[p] /\ view[r][p][2] = StateExitCode(p)

\* Once command.exec or command.read has answered with an exit code, execution.get never shows
\* the execution as still open: the end is recorded before the answer, and SQLITE_BUSY is retried
\* (handlers_command.go:119).
AnsweredMeansRecorded ==
    \A r \in Reqs :
        /\ method[r] \in {"command.exec", "command.read"}
        /\ res[r] \in {"result", "sandbox_violation"}
        /\ ~timedOut[r]
        /\ busy <= recordEndMaxRetries /\ dbErrors = 0
        => row[target[r]] # "open"

\* The life of an execution's row as clients of execution.get see it.
LogOf(e) ==
    IF row[e] # "absent" THEN row[e]
    ELSE IF \/ rec[e] = "none"
            \/ \E r \in Reqs : target[r] = e /\ stage[r] \in {"insert", "recordStart"}
    THEN "none"
    ELSE "gone"

Abstract == INSTANCE ExecutionLog WITH log <- [e \in Execs |-> LogOf(e)], code <- rowCode

\* Whatever crashes, re-execs, purges and late writers do, a row only goes forward: it is never
\* reopened, its code never changes, and an UPDATE that comes after the purge does not bring it back.
ImplementsExecutionLog == Abstract!Spec

\* A graceful stop, without a self-update under way, leaves no member of the group of a process that
\* was not already reported as finished: Run returns only once every handler that might start one is
\* done, and TerminateAll waits for each group (connection.go:43, processmgr.go:215).  Exempt are the
\* groups TerminateAll does not look at because their leader is finished (processmgr.go:225), and
\* those that changed their user.
KillBoundary ==
    phase = "stopped" =>
        \A p \in Procs \ Foreign : InGroup(p) = {} \/ (killer[p] = "none" /\ Finished(p))

\* The process.write of r waits for a process that does not read its input.
StuckWrite(r) == At(r, "stdin") /\ alive[target[r]] # {}

\* A stop signal is followed by the end of the Agent, whatever its processes do, unless a
\* process.write is stuck for ever: c.wg waits for it and nothing ends it (handlers_process.go:186).
StopCompletes ==
    phase = "stopping" ~> (phase = "stopped" \/ [](\E r \in Reqs : StuckWrite(r)))

\* A terminated process is reported as exited, even while a detached descendant holds its pipes.
TerminateWorks ==
    \A r \in Reqs, p \in Procs :
        (method[r] = "process.terminate" /\ res[r] = "result" /\ target[r] = p)
            ~> (Exited(p) \/ rec[p] = "lost" \/ ~Up)

\* The end of an execution is recorded once its process ended, also when the caller was
\* answered with timed_out and when SQLite is busy up to recordEndMaxRetries times.
HistoryCompletes ==
    \A p \in Procs :
        (row[p] = "open" /\ status[p] # "none") ~> (row[p] # "open" \/ rec[p] = "lost" \/ ~Up)
=============================================================================
