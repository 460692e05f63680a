---------------------------- MODULE AgentProofs ----------------------------
(***************************************************************************)
(* Proofs about AgentMain: the records of the Managers, the requests that  *)
(* use them, the execution history and the graceful stop, for any number   *)
(* of processes, requests, crashes and database errors.                    *)
(***************************************************************************)
EXTENDS AgentMain, TreeProofs

Methods == StartMethods \cup IdMethods \cup ReadMethods

Views == {<<"no">>, <<"due">>, <<"rec">>} \cup ({"code", "running", "exited"} \X Codes)

-----------------------------------------------------------------------------
(* Where a request is, and what it then has. *)

ReqTypeOK ==
    /\ method \in [Reqs -> Methods \cup {"none"}]
    /\ stage \in [Reqs -> Stages]
    /\ target \in [Reqs -> Procs \cup {NoProc}]
    /\ timedOut \in [Reqs -> BOOLEAN]
    /\ res \in [Reqs -> Responses]
    /\ flag \in [Reqs -> BOOLEAN]
    /\ view \in [Reqs -> [Procs -> Views]]

\* The methods whose handlers pass a stage, whether they have a process there, and that only a
\* request that is done has a response.
PlacedReq(r) ==
    /\ stage[r] \in {"idle", "begin"} => target[r] = NoProc
    /\ stage[r] \in {"insert", "recordStart", "wait", "recordEnd", "reply", "stdin", "lookup", "sigterm",
                     "poll"} => target[r] \in Procs
    /\ stage[r] \in {"insert", "recordStart", "recordEnd", "reply"} => method[r] \in StartMethods
    /\ stage[r] = "wait" => method[r] \in StartMethods \cup {"process.wait"}
    /\ stage[r] = "stdin" => method[r] = "process.write"
    /\ stage[r] \in {"lookup", "sigterm", "poll"} => method[r] = "process.terminate"
    /\ stage[r] \in {"list", "summary"} => method[r] = "process.list"
    /\ res[r] # "none" => stage[r] = "done"

Requests == ReqTypeOK /\ \A r \in Reqs : PlacedReq(r)

\* A step of one request leaves the others alone.
OthersKept(r) ==
    \A q \in Reqs \ {r} : UNCHANGED <<method[q], stage[q], target[q], timedOut[q], res[q], flag[q], view[q]>>

\* The handlers of the processes.
LEMMA ProcessStepShape ==
  ASSUME Requests, NEW r \in Reqs, ProcessStep(r)
  PROVE  ReqTypeOK' /\ PlacedReq(r)' /\ OthersKept(r)
<1> USE DEF Requests, At, Go, Respond
<1>0. PlacedReq(r) /\ UNCHANGED <<method, view>> /\ NoProc \notin Procs
  BY AgentMainAssumption DEF ProcessStep
<1>1. CASE Reject(r)
  <2>1. PICK x \in Responses : /\ stage' = [stage EXCEPT ![r] = "done"]
                               /\ res' = [res EXCEPT ![r] = x]
                               /\ UNCHANGED <<target, timedOut, flag>>
    BY <1>1 DEF Reject, Responses
  <2> QED
    BY <1>0, <2>1 DEF PlacedReq, ReqTypeOK, OthersKept, Stages
<1>2. CASE StartProcess(r)
  <2>1. PICK p \in Procs : target' = [target EXCEPT ![r] = p]
    BY <1>2 DEF StartProcess
  <2> QED
    BY <1>0, <1>2, <2>1 DEF StartProcess, PlacedReq, ReqTypeOK, OthersKept, Stages
<1>3. CASE InsertRecord(r)
  BY <1>0, <1>3 DEF InsertRecord, PlacedReq, ReqTypeOK, OthersKept, Stages
<1>4. CASE RecordTheStart(r)
  BY <1>0, <1>4 DEF RecordTheStart, PlacedReq, ReqTypeOK, OthersKept, Stages, Responses
<1>5. CASE CommandWaited(r)
  BY <1>0, <1>5 DEF CommandWaited, PlacedReq, ReqTypeOK, OthersKept, Stages
<1>6. CASE CommandTimeout(r)
  BY <1>0, <1>6 DEF CommandTimeout, PlacedReq, ReqTypeOK, OthersKept, Stages
<1>7. CASE EndRecorded(r)
  BY <1>0, <1>7 DEF EndRecorded, PlacedReq, ReqTypeOK, OthersKept, Stages
<1>8. CASE Reply(r)
  <2>1. PICK x \in Responses, f \in BOOLEAN :
            /\ stage' = [stage EXCEPT ![r] = "done"] /\ res' = [res EXCEPT ![r] = x]
            /\ flag' = [flag EXCEPT ![r] = f] /\ UNCHANGED <<target, timedOut>>
    <3>1. CASE UNCHANGED flag
      <4>1. flag' = [flag EXCEPT ![r] = flag[r]] /\ flag[r] \in BOOLEAN
        BY <3>1 DEF ReqTypeOK
      <4> QED
        BY <1>8, <3>1, <4>1 DEF Reply, Responses
    <3>2. CASE flag' = [flag EXCEPT ![r] = Sandboxed(r) /\ ~timedOut[r] /\ exitCode[target[r]] \notin {"nil", "0"}]
      BY <1>8, <3>2 DEF Reply, Responses, Sandboxed
    <3> QED
      BY <1>8, <3>1, <3>2 DEF Reply
  <2> QED
    BY <1>0, <2>1 DEF PlacedReq, ReqTypeOK, OthersKept, Stages
<1>9. CASE Find(r)
  <2>1. PICK p \in Procs :
          /\ target' = [target EXCEPT ![r] = p]
          /\ IF Found(p) THEN stage' = [stage EXCEPT ![r] = AfterFind(method[r])] /\ UNCHANGED res
             ELSE /\ stage' = [stage EXCEPT ![r] = "done"]
                  /\ res' = [res EXCEPT ![r] = "process_not_found"]
    BY <1>9 DEF Find
  <2>2. method[r] \in IdMethods /\ stage[r] = "begin" /\ UNCHANGED <<timedOut, flag>>
    BY <1>9 DEF Find
  <2>3. \/ method[r] = "process.wait" /\ AfterFind(method[r]) = "wait"
        \/ method[r] = "process.write" /\ AfterFind(method[r]) = "stdin"
        \/ method[r] = "process.terminate" /\ AfterFind(method[r]) = "lookup"
    BY <2>2 DEF AfterFind, IdMethods
  <2>4. PICK s \in Stages, x \in Responses :
          /\ stage' = [stage EXCEPT ![r] = s] /\ res' = [res EXCEPT ![r] = x]
          /\ (s = AfterFind(method[r]) /\ x = res[r]) \/ s = "done"
    <3>1. CASE Found(p)
      <4>1. AfterFind(method[r]) \in Stages /\ res[r] \in Responses /\ res' = [res EXCEPT ![r] = res[r]]
        BY <2>1, <2>3, <3>1 DEF Stages, ReqTypeOK
      <4> QED
        BY <2>1, <3>1, <4>1
    <3>2. CASE ~Found(p)
      BY <2>1, <3>2 DEF Stages, Responses
    <3> QED
      BY <3>1, <3>2
  <2>5. ReqTypeOK' /\ OthersKept(r)
    BY <1>0, <2>1, <2>2, <2>4 DEF ReqTypeOK, OthersKept
  <2>6. /\ stage'[r] = s /\ res'[r] = x /\ target'[r] = p /\ method'[r] = method[r]
    BY <1>0, <2>1, <2>4 DEF ReqTypeOK
  <2> QED
    BY <1>0, <2>2, <2>3, <2>4, <2>5, <2>6 DEF PlacedReq
<1>10. CASE Waiting(r)
  BY <1>0, <1>10 DEF Waiting, PlacedReq, ReqTypeOK, OthersKept, Stages, Responses
<1>11. CASE StdinErr(r)
  BY <1>0, <1>11 DEF StdinErr, PlacedReq, ReqTypeOK, OthersKept, Stages, Responses
<1>12. CASE Lookup(r)
  <2>1. stage[r] = "lookup" /\ UNCHANGED <<target, timedOut, flag>>
    BY <1>12 DEF Lookup
  <2>2. CASE stage' = [stage EXCEPT ![r] = "sigterm"] /\ UNCHANGED res
    BY <1>0, <2>1, <2>2 DEF PlacedReq, ReqTypeOK, OthersKept, Stages
  <2>3. CASE stage' = [stage EXCEPT ![r] = "done"] /\ res' = [res EXCEPT ![r] = "process_not_found"]
    BY <1>0, <2>1, <2>3 DEF PlacedReq, ReqTypeOK, OthersKept, Stages, Responses
  <2> QED
    BY <1>12, <2>2, <2>3 DEF Lookup
<1>13. CASE HandlerTerminate(r)
  <2>1. /\ \/ /\ stage[r] = "sigterm" /\ UNCHANGED res
              /\ stage' = [stage EXCEPT ![r] = "poll"]
           \/ \E x \in {"result", "internal"} : stage' = [stage EXCEPT ![r] = "done"] /\ res' = [res EXCEPT ![r] = x]
        /\ UNCHANGED <<target, timedOut, flag>>
    BY <1>13 DEF HandlerTerminate
  <2>2. CASE stage[r] = "sigterm" /\ UNCHANGED res /\ stage' = [stage EXCEPT ![r] = "poll"]
    BY <1>0, <2>1, <2>2 DEF PlacedReq, ReqTypeOK, OthersKept, Stages
  <2>3. ASSUME NEW x \in {"result", "internal"},
               stage' = [stage EXCEPT ![r] = "done"] /\ res' = [res EXCEPT ![r] = x]
        PROVE  ReqTypeOK' /\ PlacedReq(r)' /\ OthersKept(r)
    <3>1. x \in Responses
      BY DEF Responses
    <3> QED
      BY <1>0, <2>1, <2>3, <3>1 DEF PlacedReq, ReqTypeOK, OthersKept, Stages
  <2> QED
    BY <2>1, <2>2, <2>3
<1> QED
  BY <1>1, <1>2, <1>3, <1>4, <1>5, <1>6, <1>7, <1>8, <1>9, <1>10, <1>11, <1>12, <1>13 DEF ProcessStep

\* The handlers that only read.
LEMMA ReadStepShape ==
  ASSUME Requests, ManagerTypeOK, NEW r \in Reqs, ReadStep(r)
  PROVE  ReqTypeOK' /\ PlacedReq(r)' /\ OthersKept(r)
<1> USE DEF Requests, At, Go, Respond
<1>0. PlacedReq(r) /\ UNCHANGED <<method, target, timedOut, flag>> /\ view[r] \in [Procs -> Views]
  BY DEF ReadStep, ReqTypeOK
<1>1. ASSUME NEW v \in [Procs -> Views], view' = [view EXCEPT ![r] = v], NEW s \in Stages,
             stage' = [stage EXCEPT ![r] = s], s \in {"list", "summary"}, method[r] = "process.list",
             stage[r] # "done", UNCHANGED res
      PROVE  ReqTypeOK' /\ PlacedReq(r)' /\ OthersKept(r)
  BY <1>0, <1>1 DEF PlacedReq, ReqTypeOK, OthersKept
<1>2. CASE ListMgr(r)
  <2> DEFINE v == [p \in Procs |-> IF ~listed[p] THEN <<"no">> ELSE IF sandboxed[p] THEN <<"due">> ELSE <<"rec">>]
  <2>1. v \in [Procs -> Views]
    BY DEF Views
  <2> HIDE DEF v
  <2> QED
    BY <1>1, <1>2, <2>1 DEF ListMgr, Stages, v
<1>3. CASE ListSandboxMgr(r)
  <2> DEFINE v == [p \in Procs |-> IF listed[p] /\ sandboxed[p] THEN <<"rec">> ELSE view[r][p]]
  <2>1. v \in [Procs -> Views]
    BY <1>0 DEF Views
  <2>2. view' = [view EXCEPT ![r] = v]
    BY <1>3 DEF ListSandboxMgr
  <2> HIDE DEF v
  <2> QED
    BY <1>0, <1>1, <1>3, <2>1, <2>2 DEF ListSandboxMgr, Stages, PlacedReq
<1>4. CASE Summarise(r)
  <2>1. UNCHANGED <<stage, res>>
    BY <1>4 DEF Summarise
  <2>2. PICK p \in Procs :
          \/ view' = [view EXCEPT ![r][p] = <<"code", exitCode[p]>>]
          \/ /\ view[r][p][1] = "code"
             /\ view' = [view EXCEPT ![r][p] = <<IF Exited(p) THEN "exited" ELSE "running", view[r][p][2]>>]
    BY <1>4 DEF Summarise
  <2>3. PICK w \in Views : view' = [view EXCEPT ![r][p] = w]
    <3>1. <<"code", exitCode[p]>> \in Views
      BY DEF ManagerTypeOK, Views, Codes
    <3>2. ASSUME NEW u \in Views, u[1] = "code", NEW what \in {"running", "exited"}
          PROVE  <<what, u[2]>> \in Views
      BY <3>2 DEF Views
    <3>3. view[r][p] \in Views
      BY <1>0
    <3> QED
      BY <2>2, <3>1, <3>2, <3>3
  <2> QED
    BY <1>0, <2>1, <2>3 DEF PlacedReq, ReqTypeOK, OthersKept
<1>5. CASE ListReply(r)
  BY <1>0, <1>5 DEF ListReply, PlacedReq, ReqTypeOK, OthersKept, Stages, Responses
<1>6. CASE ReadHistory(r)
  <2>1. PICK x \in Responses : /\ stage' = [stage EXCEPT ![r] = "done"]
                               /\ res' = [res EXCEPT ![r] = x] /\ UNCHANGED view
    BY <1>6 DEF ReadHistory, Responses
  <2> QED
    BY <1>0, <2>1 DEF PlacedReq, ReqTypeOK, OthersKept, Stages
<1> QED
  BY <1>2, <1>3, <1>4, <1>5, <1>6 DEF ReadStep

\* Every step of a handler.
LEMMA HandlerStepShape ==
  ASSUME Requests, ManagerTypeOK, NEW r \in Reqs, HandlerStep(r)
  PROVE  Requests' /\ OthersKept(r)
<1>1. ReqTypeOK' /\ PlacedReq(r)' /\ OthersKept(r)
  <2>1. CASE Receive(r)
    <3>1. PICK m \in MethodsOf[r] : method' = [method EXCEPT ![r] = m]
      BY <2>1 DEF Receive
    <3>2. m \in Methods
      BY <3>1, AgentMainAssumption DEF Methods
    <3>3. /\ stage[r] = "idle" /\ stage' = [stage EXCEPT ![r] = "begin"]
          /\ UNCHANGED <<target, timedOut, res, flag, view>>
      BY <2>1 DEF Receive, At, Go
    <3> QED
      BY <3>1, <3>2, <3>3 DEF Requests, PlacedReq, ReqTypeOK, OthersKept, Stages
  <2>2. CASE ProcessStep(r)
    BY <2>2, ProcessStepShape
  <2>3. CASE StdinTaken(r) /\ UNCHANGED <<method, view>>
    BY <2>3 DEF StdinTaken, At, Go, Respond, Requests, PlacedReq, ReqTypeOK, OthersKept, Stages, Responses
  <2>4. CASE ReadStep(r)
    BY <2>4, ReadStepShape
  <2> QED
    BY <2>1, <2>2, <2>3, <2>4 DEF HandlerStep
<1>2. ASSUME NEW q \in Reqs \ {r} PROVE PlacedReq(q)'
  BY <1>1 DEF Requests, PlacedReq, OthersKept
<1> QED
  BY <1>1, <1>2 DEF Requests

\* What is lost with the process image, as requests see it.
LEMMA ForgetShape ==
  ASSUME Requests, Forget
  PROVE  /\ Requests'
         /\ \A q \in Reqs : /\ UNCHANGED <<method[q], target[q], timedOut[q], flag[q], view[q]>>
                            /\ stage'[q] \in {"idle", "done"}
                            /\ stage[q] \in {"idle", "done"} => stage'[q] = stage[q] /\ res'[q] = res[q]
                            /\ stage[q] \notin {"idle", "done"} => res'[q] = "lost"
<1>1. /\ stage' = [r \in Reqs |-> IF stage[r] = "idle" THEN "idle" ELSE "done"]
      /\ res' = [r \in Reqs |-> IF stage[r] \in {"idle", "done"} THEN res[r] ELSE "lost"]
      /\ UNCHANGED <<method, target, timedOut, flag, view>>
  BY DEF Forget, At
<1>2. ReqTypeOK'
  BY <1>1 DEF Requests, ReqTypeOK, Stages, Responses
<1>3. ASSUME NEW q \in Reqs PROVE PlacedReq(q)'
  BY <1>1 DEF Requests, PlacedReq
<1> QED
  BY <1>1, <1>2, <1>3 DEF Requests

\* The steps of the Agent, by what they do to its requests: one handler's step, a new process
\* image, or nothing.
LEMMA RequestSteps ==
  ASSUME [Next]_vars
  PROVE  \/ \E r \in Reqs : HandlerStep(r)
         \/ Forget
         \/ UNCHANGED reqVars
<1> USE DEF reqVars
<1>1. CASE UNCHANGED vars
  BY <1>1 DEF vars
<1>2. CASE Next
  BY <1>2 DEF Next, KillerStep, Stop, MainStep, RunReturns, NextManager, MainReturns, FetchUpdate,
              ReplaceBinary, ExecSelfErr, ExecSelf, Crash
<1> QED
  BY <1>1, <1>2

\* Requests keep their shape.
LEMMA NextRequests ==
  ASSUME Requests, ManagerTypeOK, [Next]_vars
  PROVE  Requests'
<1>1. CASE UNCHANGED reqVars
  BY <1>1 DEF reqVars, Requests, ReqTypeOK, PlacedReq
<1> QED
  BY <1>1, RequestSteps, HandlerStepShape, ForgetShape

-----------------------------------------------------------------------------
(* The records of the Managers. *)

\* The record of p, which was waited for, shows the outcome: the exit code, or none when it could
\* not be observed, and the setup failure.
Published(p) ==
    /\ reaped[p]
    /\ exitCode[p] = ObservedCode(p)
    /\ setupFailed[p] <=> status[p] = "setup"

\* What a record says is true of its process: it exists once the process was started, its exit is
\* published after the wait, with the outcome Process.Wait observed, and nobody removes the scratch
\* directory before the leader was waited for.
RecordSound(p) ==
    /\ rec[p] = "none" <=> pid[p] = NoPid
    /\ rec[p] \in {"cleanup", "drain", "closed", "coded", "done"} => reaped[p]
    /\ rec[p] \in {"drain", "closed", "coded", "done"} => scratch[p] # "there"
    /\ scratch[p] = "there" => sandboxed[p]
    /\ sandboxed[p] /\ "leader" \in alive[p] => scratch[p] = "there"
    /\ status[p] \in {"setup", "denied"} => sandboxed[p]
    /\ exitCode[p] # "nil" => Published(p)
    /\ rec[p] \in {"coded", "done"} => Published(p)
    /\ listed[p] => rec[p] \notin {"none", "lost"}

Records == TreeInv /\ ManagerTypeOK /\ \A p \in Procs : RecordSound(p)

\* Manager.Start inserts the record of a process it has started.
Inserting == \A r \in Reqs : stage[r] = "insert" => rec[target[r]] \notin {"none", "lost"}

\* The record tells clients nothing new any more.
Over(p) == rec[p] \in {"coded", "done", "lost"}

\* A record goes forward, belongs to one Manager, and leaves it only when it is over.
RecEvolves(p) ==
    rec[p] # "none" =>
        /\ rec'[p] # "none" /\ sandboxed'[p] = sandboxed[p] /\ TreeEvolves(p)
        /\ Over(p) => Over(p)'
        /\ listed[p] /\ ~listed'[p] => Over(p)'
        /\ reaped[p] => waitErr'[p] = waitErr[p]
        /\ Published(p) => Published(p)'

\* The exit code of a process that was waited for does not change.
LEMMA CodeIsFinal ==
  ASSUME NEW p \in Procs, TreeOrdered(p), TreeEvolves(p), reaped[p]
  PROVE  reaped'[p] /\ status'[p] = status[p] /\ StateExitCode(p)' = StateExitCode(p)
BY DEF TreeOrdered, TreeEvolves, StateExitCode

\* Neither does what was observed of it ...
LEMMA ObservedIsFinal ==
  ASSUME NEW p \in Procs, TreeOrdered(p), TreeEvolves(p), reaped[p], waitErr'[p] = waitErr[p]
  PROVE  reaped'[p] /\ ObservedCode(p)' = ObservedCode(p)
BY CodeIsFinal DEF ObservedCode

\* ... nor what was published.
LEMMA PublishedStays ==
  ASSUME NEW p \in Procs, TreeOrdered(p), TreeEvolves(p), Published(p),
         UNCHANGED <<exitCode[p], setupFailed[p], waitErr[p]>>
  PROVE  Published(p)'
BY CodeIsFinal, ObservedIsFinal DEF Published

\* A record nobody touches stays sound whatever its process does.
LEMMA RecordKept ==
  ASSUME NEW p \in Procs, TreeOrdered(p), RecordSound(p), TreeEvolves(p),
         UNCHANGED <<rec[p], sandboxed[p], exitCode[p], setupFailed[p], waitErr[p], scratch[p]>>,
         listed'[p] => listed[p],
         status'[p] \in {"setup", "denied"} => sandboxed[p]
  PROVE  RecordSound(p)'
<1>1. Published(p) => Published(p)'
  BY PublishedStays
<1>2. reaped[p] => reaped'[p]
  BY CodeIsFinal
<1> QED
  BY <1>1, <1>2 DEF TreeEvolves, RecordSound

\* The steps of the Agent, by what they do to the processes and their records.
LEMMA ManagerSteps ==
  ASSUME Requests, [Next]_vars
  PROVE  \/ UNCHANGED <<treeVars, managerVars>>
         \/ \E p \in Procs : TreeStep(p)
         \/ \E p \in Procs : WaitStep(p)
         \/ \E box \in BOOLEAN : Collect(box)
         \/ \E r \in Reqs, p \in Procs : BackendStart(p, Sandboxed(r))
         \/ \E r \in Reqs : stage[r] = "insert" /\ target[r] \in Procs /\ Insert(target[r])
         \/ \E p \in Procs, keep \in SUBSET {"leader", "child"} : Signal(p, keep) /\ UNCHANGED managerVars
         \/ Crash
         \/ ExecSelf
<1> DEFINE Goal ==
         \/ UNCHANGED <<treeVars, managerVars>>
         \/ \E p \in Procs : TreeStep(p)
         \/ \E p \in Procs : WaitStep(p)
         \/ \E box \in BOOLEAN : Collect(box)
         \/ \E r \in Reqs, p \in Procs : BackendStart(p, Sandboxed(r))
         \/ \E r \in Reqs : stage[r] = "insert" /\ target[r] \in Procs /\ Insert(target[r])
         \/ \E p \in Procs, keep \in SUBSET {"leader", "child"} : Signal(p, keep) /\ UNCHANGED managerVars
         \/ Crash
         \/ ExecSelf
<1> SUFFICES Goal
  OBVIOUS
<1>a. \A p \in Procs : SendTerm(p) \/ GroupGone(p) \/ SendKill(p) =>
         \/ UNCHANGED treeVars
         \/ \E keep \in SUBSET {"leader", "child"} : Signal(p, keep)
  BY DEF SendTerm, GroupGone, SendKill
<1>1. ASSUME NEW r \in Reqs, HandlerStep(r) PROVE Goal
  <2>0. PlacedReq(r)
    BY DEF Requests
  <2>1. CASE Receive(r) \/ ReadStep(r) \/ StdinTaken(r)
    BY <2>1 DEF Receive, ReadStep, StdinTaken
  <2>2. CASE HandlerTerminate(r)
    <3>1. target[r] \in Procs /\ UNCHANGED managerVars
      BY <2>0, <2>2 DEF HandlerTerminate, PlacedReq, At
    <3>2. SendTerm(target[r]) \/ GroupGone(target[r]) \/ SendKill(target[r]) \/ UNCHANGED treeVars
      BY <2>2 DEF HandlerTerminate
    <3> QED
      BY <1>a, <3>1, <3>2
  <2>3. CASE StartProcess(r)
    BY <2>3 DEF StartProcess
  <2>4. CASE InsertRecord(r)
    BY <2>0, <2>4 DEF InsertRecord, PlacedReq, At
  <2>5. CASE \/ Reject(r) \/ RecordTheStart(r) \/ CommandWaited(r) \/ CommandTimeout(r) \/ EndRecorded(r)
             \/ Reply(r) \/ Find(r) \/ Waiting(r) \/ StdinErr(r) \/ Lookup(r)
    <3>1. UNCHANGED <<treeVars, managerVars>>
      BY <2>5 DEF Reject, RecordTheStart, CommandWaited, CommandTimeout, EndRecorded, Reply, Find,
                  Waiting, StdinErr, Lookup
    <3> QED
      BY <3>1
  <2> QED
    BY <1>1, <2>1, <2>2, <2>3, <2>4, <2>5 DEF HandlerStep, ProcessStep
<1>2. ASSUME NEW p \in Procs, KillerStep(p) PROVE Goal
  <2>1. SendTerm(p) \/ GroupGone(p) \/ SendKill(p) \/ UNCHANGED treeVars
    BY <1>2 DEF KillerStep
  <2>2. UNCHANGED managerVars
    BY <1>2 DEF KillerStep
  <2> QED
    BY <1>a, <2>1, <2>2
<1>3. CASE \/ \E p \in Procs : TreeStep(p)
           \/ \E p \in Procs : WaitStep(p)
           \/ \E box \in BOOLEAN : Collect(box)
           \/ Crash \/ ExecSelf
  BY <1>3
<1>4. CASE \/ UNCHANGED vars
           \/ \E p \in Procs : EndAwaited(p)
           \/ \E p \in Procs : RecordEndStep(p) /\ UNCHANGED <<treeVars, managerVars>>
           \/ UNCHANGED <<treeVars, managerVars>>
           \/ Stop \/ MainStep \/ FetchUpdate \/ ReplaceBinary \/ ExecSelfErr
  <2>1. UNCHANGED <<treeVars, managerVars>>
    BY <1>4 DEF vars, EndAwaited, Stop, MainStep, RunReturns, NextManager, MainReturns, FetchUpdate,
                ReplaceBinary, ExecSelfErr
  <2> QED
    BY <2>1
<1> HIDE DEF Goal
<1> QED
  BY <1>1, <1>2, <1>3, <1>4 DEF Next

\* What is lost with the process image, as records see it.
LEMMA ForgetRecord ==
  ASSUME ManagerTypeOK, Forget
  PROVE  /\ ManagerTypeOK'
         /\ \A p \in Procs : /\ UNCHANGED <<sandboxed[p], exitCode[p], setupFailed[p], waitErr[p], scratch[p]>>
                             /\ rec'[p] = (IF rec[p] = "none" THEN "none" ELSE "lost") /\ ~listed'[p]
BY DEF Forget, ManagerTypeOK, RecStages

\* The crash ends all processes.
LEMMA CrashTree ==
  ASSUME TreeInv, Crash
  PROVE  TreeInv' /\ \A p \in Procs : TreeEvolves(p) /\ alive'[p] = {} /\ (status'[p] = "signal" \/ status'[p] = status[p])
<1>1. /\ alive' = [p \in Procs |-> {}]
      /\ status' = [p \in Procs |-> IF "leader" \in alive[p] THEN "signal" ELSE status[p]]
      /\ reaped' = [p \in Procs |-> pid[p] # NoPid] /\ UNCHANGED pid
  BY DEF Crash
<1>2. TreeTypeOK'
  BY <1>1 DEF TreeInv, TreeTypeOK
<1>3. ASSUME NEW p \in Procs
      PROVE  TreeOrdered(p)' /\ TreeEvolves(p) /\ alive'[p] = {} /\ (status'[p] = "signal" \/ status'[p] = status[p])
  BY <1>1 DEF TreeInv, TreeOrdered, TreeEvolves, InGroup
<1> QED
  BY <1>2, <1>3 DEF TreeInv

\* Records stay sound, and go forward.
LEMMA NextRecords ==
  ASSUME Requests, Records, Inserting, [Next]_vars
  PROVE  Records' /\ \A p \in Procs : RecEvolves(p)
<1> DEFINE Goal == Records' /\ \A p \in Procs : RecEvolves(p)
<1> SUFFICES Goal
  OBVIOUS
<1>0. TreeInv /\ ManagerTypeOK /\ (\A p \in Procs : RecordSound(p) /\ TreeOrdered(p)) /\ TreeTypeOK
  BY DEF Records, TreeInv
<1>1. CASE UNCHANGED <<treeVars, managerVars>>
  <2>1. TreeInv' /\ \A p \in Procs : TreeEvolves(p)
    BY <1>0, <1>1, TreeStutter
  <2>2. ManagerTypeOK'
    BY <1>0, <1>1 DEF managerVars, ManagerTypeOK
  <2>3. ASSUME NEW p \in Procs PROVE RecordSound(p)' /\ RecEvolves(p)
    <3>1. UNCHANGED <<rec, sandboxed, listed, exitCode, setupFailed, waitErr, scratch, status>>
      BY <1>1 DEF managerVars, treeVars
    <3>2. RecordSound(p)'
      BY <1>0, <2>1, <3>1, RecordKept DEF RecordSound
    <3>3. Published(p) => Published(p)'
      BY <1>0, <2>1, <3>1, PublishedStays
    <3> QED
      BY <2>1, <3>1, <3>2, <3>3 DEF RecEvolves, Over
  <2> QED
    BY <2>1, <2>2, <2>3 DEF Records
<1>2. ASSUME NEW p \in Procs, TreeStep(p) PROVE Goal
  <2>1. TreeMove(p) /\ UNCHANGED managerVars
    BY <1>2 DEF TreeStep, TreeMove
  <2>2. TreeInv' /\ \A q \in Procs : TreeEvolves(q)
    BY <1>0, <2>1, MoveStep
  <2>3. ManagerTypeOK'
    BY <1>0, <2>1 DEF managerVars, ManagerTypeOK
  <2>4. \A q \in Procs : status'[q] \in {"setup", "denied"} => status[q] = status'[q] \/ sandboxed[q]
    BY <1>0, <1>2 DEF TreeStep, LeaderExit, Fork, Detach, ChildExit, TreeTypeOK
  <2>5. ASSUME NEW q \in Procs PROVE RecordSound(q)' /\ RecEvolves(q)
    <3>1. UNCHANGED <<rec, sandboxed, listed, exitCode, setupFailed, waitErr, scratch>>
      BY <2>1 DEF managerVars
    <3>2. RecordSound(q)'
      BY <1>0, <2>2, <2>4, <3>1, RecordKept DEF RecordSound
    <3>3. Published(q) => Published(q)'
      BY <1>0, <2>2, <3>1, PublishedStays
    <3> QED
      BY <2>2, <3>1, <3>2, <3>3 DEF RecEvolves, Over
  <2> QED
    BY <2>2, <2>3, <2>5 DEF Records
<1>3. ASSUME NEW p \in Procs, WaitStep(p) PROVE Goal
  <2>1. TreeInv' /\ (\A q \in Procs : TreeEvolves(q)) /\ UNCHANGED <<pid, alive, status>>
    <3>1. CASE HandleWait(p)
      BY <1>0, <3>1, MoveStep DEF HandleWait, ProcessWait, TreeMove, Waited
    <3>2. CASE UNCHANGED treeVars
      BY <1>0, <3>2, TreeStutter DEF treeVars
    <3> QED
      BY <1>3, <3>1, <3>2 DEF WaitStep, RemoveScratch, Drain, SetExit, CloseDone
  <2>2. ObservedCode(p) \in {"nil", "0", "1", "111", "-1"} /\ StatusByte(p) \in BOOLEAN
    BY DEF ObservedCode, StateExitCode, StatusByte
  <2>3. ManagerTypeOK'
    <3>1. CASE HandleWait(p) \/ RemoveScratch(p) \/ Drain(p) \/ CloseDone(p)
      BY <1>0, <3>1 DEF HandleWait, ProcessWait, RemoveScratch, Drain, CloseDone, ManagerTypeOK, RecStages
    <3>2. CASE SetExit(p)
      <4>1. (sandboxed[p] /\ StatusByte(p)) \in BOOLEAN
        OBVIOUS
      <4> QED
        BY <1>0, <2>2, <3>2, <4>1 DEF SetExit, ManagerTypeOK, RecStages
    <3> QED
      BY <1>3, <3>1, <3>2 DEF WaitStep
  <2>4. ASSUME NEW q \in Procs, q # p PROVE RecordSound(q)' /\ RecEvolves(q)
    <3>1. UNCHANGED <<rec[q], sandboxed[q], listed[q], exitCode[q], setupFailed[q], waitErr[q], scratch[q]>>
      BY <1>0, <1>3, <2>4 DEF WaitStep, HandleWait, ProcessWait, RemoveScratch, Drain, SetExit, CloseDone,
                             ManagerTypeOK
    <3>2. RecordSound(q)'
      BY <1>0, <2>1, <3>1, RecordKept DEF RecordSound
    <3>3. Published(q) => Published(q)'
      BY <1>0, <2>1, <3>1, PublishedStays
    <3> QED
      BY <2>1, <3>1, <3>2, <3>3 DEF RecEvolves, Over
  <2>5. RecordSound(p)' /\ RecEvolves(p)
    <3>0. RecordSound(p) /\ TreeOrdered(p) /\ TreeEvolves(p)
      BY <1>0, <2>1
    <3>a. UNCHANGED <<exitCode[p], setupFailed[p], waitErr[p]>> /\ Published(p) => Published(p)'
      BY <3>0, PublishedStays
    <3>1. CASE HandleWait(p)
      <4>1. /\ rec[p] = "wait" /\ rec'[p] = (IF sandboxed[p] THEN "cleanup" ELSE "drain") /\ reaped'[p]
            /\ UNCHANGED <<sandboxed, listed, exitCode, setupFailed, scratch>> /\ ~reaped[p]
        BY <1>0, <3>1 DEF HandleWait, ProcessWait, Waited, Zombie, ManagerTypeOK, TreeTypeOK
      <4>2. ~Published(p)
        BY <4>1 DEF Published
      <4> QED
        BY <2>1, <3>0, <4>1, <4>2 DEF RecordSound, RecEvolves, Over
    <3>2. CASE RemoveScratch(p)
      <4>1. /\ rec[p] = "cleanup" /\ rec'[p] = "drain" /\ scratch'[p] # "there"
            /\ UNCHANGED <<sandboxed, listed, exitCode, setupFailed, waitErr, reaped>>
        BY <1>0, <3>2 DEF RemoveScratch, treeVars, ManagerTypeOK
      <4>2. "leader" \notin alive[p]
        BY <1>0, <4>1 DEF RecordSound, TreeOrdered
      <4> QED
        BY <2>1, <3>0, <3>a, <4>1, <4>2 DEF RecordSound, RecEvolves, Over
    <3>3. CASE Drain(p)
      <4>1. /\ rec[p] = "drain" /\ rec'[p] = "closed"
            /\ UNCHANGED <<sandboxed, listed, exitCode, setupFailed, waitErr, scratch, reaped>>
        BY <1>0, <3>3 DEF Drain, treeVars, ManagerTypeOK
      <4> QED
        BY <2>1, <3>0, <3>a, <4>1 DEF RecordSound, RecEvolves, Over
    <3>4. CASE SetExit(p)
      <4>1. /\ rec[p] = "closed" /\ rec'[p] = "coded" /\ exitCode'[p] = ObservedCode(p)
            /\ setupFailed'[p] = (sandboxed[p] /\ StatusByte(p))
            /\ UNCHANGED <<sandboxed, listed, waitErr, scratch, reaped>>
        BY <1>0, <3>4 DEF SetExit, treeVars, ManagerTypeOK
      <4>2. setupFailed'[p] <=> status[p] = "setup"
        BY <3>0, <4>1 DEF RecordSound, StatusByte
      <4>3. reaped[p] /\ ObservedCode(p)' = ObservedCode(p)
        BY <3>0, <4>1, ObservedIsFinal DEF RecordSound
      <4>4. Published(p)'
        BY <2>1, <4>1, <4>2, <4>3 DEF Published
      <4> QED
        BY <2>1, <3>0, <4>1, <4>4 DEF RecordSound, RecEvolves, Over
    <3>5. CASE CloseDone(p)
      <4>1. /\ rec[p] = "coded" /\ rec'[p] = "done"
            /\ UNCHANGED <<sandboxed, listed, exitCode, setupFailed, waitErr, scratch, reaped>>
        BY <1>0, <3>5 DEF CloseDone, treeVars, ManagerTypeOK
      <4> QED
        BY <2>1, <3>0, <3>a, <4>1 DEF RecordSound, RecEvolves, Over
    <3> QED
      BY <1>3, <3>1, <3>2, <3>3, <3>4, <3>5 DEF WaitStep
  <2> QED
    BY <2>1, <2>3, <2>4, <2>5 DEF Records
<1>4. ASSUME NEW box \in BOOLEAN, Collect(box) PROVE Goal
  <2>1. /\ TreeInv' /\ (\A q \in Procs : TreeEvolves(q))
        /\ UNCHANGED <<rec, sandboxed, exitCode, setupFailed, waitErr, scratch, status>>
    BY <1>0, <1>4, TreeStutter DEF Collect, treeVars
  <2>2. PICK S \in SUBSET {p \in Procs : listed[p] /\ sandboxed[p] = box /\ Finished(p)} :
            listed' = [p \in Procs |-> listed[p] /\ p \notin S]
    BY <1>4 DEF Collect
  <2>3. ManagerTypeOK'
    BY <1>0, <2>1, <2>2 DEF ManagerTypeOK
  <2>4. ASSUME NEW q \in Procs PROVE RecordSound(q)' /\ RecEvolves(q)
    <3>1. (listed'[q] => listed[q]) /\ (listed[q] /\ ~listed'[q] => Over(q))
      BY <2>2 DEF Over, Finished
    <3>2. RecordSound(q)'
      BY <1>0, <2>1, <3>1, RecordKept DEF RecordSound
    <3>3. Published(q) => Published(q)'
      BY <1>0, <2>1, <3>1, PublishedStays
    <3> QED
      BY <2>1, <3>1, <3>2, <3>3 DEF RecEvolves, Over
  <2> QED
    BY <2>1, <2>3, <2>4 DEF Records
<1>5. ASSUME NEW r \in Reqs, NEW p \in Procs, BackendStart(p, Sandboxed(r)) PROVE Goal
  <2>0. PICK box \in BOOLEAN : BackendStart(p, box)
    BY <1>5 DEF Sandboxed
  <2>1. rec[p] = "none" /\ pid[p] = NoPid /\ Exec(p)
    BY <1>0, <2>0 DEF BackendStart, RecordSound
  <2>2. /\ TreeInv'
        /\ \A q \in Procs \ {p} : TreeEvolves(q) /\ UNCHANGED <<pid[q], alive[q], status[q], reaped[q]>>
        /\ pid'[p] # NoPid /\ alive'[p] = {"leader"} /\ UNCHANGED <<status, reaped>>
    BY <1>0, <2>1, ExecStep
  <2>3. /\ ManagerTypeOK'
        /\ rec'[p] = "wait" /\ sandboxed'[p] = box
        /\ scratch'[p] = (IF box THEN "there" ELSE "none")
        /\ UNCHANGED <<listed, exitCode, setupFailed, waitErr>>
        /\ \A q \in Procs \ {p} : UNCHANGED <<rec[q], sandboxed[q], scratch[q]>>
    BY <1>0, <2>0 DEF BackendStart, ManagerTypeOK, RecStages
  <2>4. ASSUME NEW q \in Procs \ {p} PROVE RecordSound(q)' /\ RecEvolves(q)
    <3>1. RecordSound(q)'
      BY <1>0, <2>2, <2>3, RecordKept DEF RecordSound
    <3>2. Published(q) => Published(q)'
      BY <1>0, <2>2, <2>3, PublishedStays
    <3> QED
      BY <2>2, <2>3, <3>1, <3>2 DEF RecEvolves, Over
  <2>5. RecordSound(p)' /\ RecEvolves(p)
    <3>1. ~reaped[p] /\ status[p] = "none" /\ ~listed[p] /\ exitCode[p] = "nil"
      BY <1>0, <2>1 DEF RecordSound, TreeOrdered, Published
    <3> QED
      BY <2>1, <2>2, <2>3, <3>1 DEF RecordSound, RecEvolves
  <2> QED
    BY <2>2, <2>3, <2>4, <2>5 DEF Records
<1>6. ASSUME NEW r \in Reqs, stage[r] = "insert", target[r] \in Procs, Insert(target[r]) PROVE Goal
  <2>1. /\ TreeInv' /\ (\A q \in Procs : TreeEvolves(q))
        /\ UNCHANGED <<rec, sandboxed, exitCode, setupFailed, waitErr, scratch, pid, alive, status, reaped>>
    BY <1>0, <1>6, TreeStutter DEF Insert, treeVars
  <2>2. listed' = [listed EXCEPT ![target[r]] = TRUE] /\ rec[target[r]] \notin {"none", "lost"}
    BY <1>6 DEF Insert, Inserting
  <2>3. ManagerTypeOK'
    BY <1>0, <2>1, <2>2 DEF ManagerTypeOK
  <2>4. ASSUME NEW q \in Procs PROVE RecordSound(q)' /\ RecEvolves(q)
    <3>1. listed'[q] = (IF q = target[r] THEN TRUE ELSE listed[q])
      BY <1>0, <2>1, <2>2 DEF ManagerTypeOK
    <3>2. Published(q) => Published(q)'
      BY <1>0, <2>1, PublishedStays
    <3> QED
      BY <1>0, <2>1, <2>2, <3>1, <3>2 DEF RecordSound, RecEvolves, Over
  <2> QED
    BY <2>1, <2>3, <2>4 DEF Records
<1>7. ASSUME NEW p \in Procs, NEW keep \in SUBSET {"leader", "child"}, Signal(p, keep), UNCHANGED managerVars
      PROVE  Goal
  <2>1. TreeInv' /\ \A q \in Procs : TreeEvolves(q)
    BY <1>0, <1>7, SignalStep
  <2>2. ManagerTypeOK'
    BY <1>0, <1>7 DEF managerVars, ManagerTypeOK
  <2>3. \A q \in Procs : status'[q] = status[q] \/ status'[q] = "signal"
    BY <1>7 DEF Signal
  <2>4. ASSUME NEW q \in Procs PROVE RecordSound(q)' /\ RecEvolves(q)
    <3>1. UNCHANGED <<rec, sandboxed, listed, exitCode, setupFailed, waitErr, scratch>>
      BY <1>7 DEF managerVars
    <3>2. RecordSound(q)'
      BY <1>0, <2>1, <2>3, <3>1, RecordKept DEF RecordSound
    <3>3. Published(q) => Published(q)'
      BY <1>0, <2>1, <3>1, PublishedStays
    <3> QED
      BY <2>1, <3>1, <3>2, <3>3 DEF RecEvolves, Over
  <2> QED
    BY <2>1, <2>2, <2>4 DEF Records
<1>8. ASSUME Forget, TreeInv', \A q \in Procs : TreeEvolves(q) /\ (status'[q] = "signal" \/ status'[q] = status[q])
      PROVE  Goal
  <2>1. /\ ManagerTypeOK'
        /\ \A p \in Procs : /\ UNCHANGED <<sandboxed[p], exitCode[p], setupFailed[p], waitErr[p], scratch[p]>>
                            /\ rec'[p] = (IF rec[p] = "none" THEN "none" ELSE "lost") /\ ~listed'[p]
    BY <1>0, <1>8, ForgetRecord
  <2>2. ASSUME NEW p \in Procs PROVE RecordSound(p)' /\ RecEvolves(p)
    <3>1. reaped[p] => reaped'[p]
      BY <1>0, <1>8, CodeIsFinal
    <3>2. Published(p) => Published(p)'
      BY <1>0, <1>8, <2>1, PublishedStays
    <3> QED
      BY <1>0, <1>8, <2>1, <3>1, <3>2 DEF TreeEvolves, RecordSound, RecEvolves, Over
  <2> QED
    BY <1>8, <2>1, <2>2 DEF Records
<1>9. CASE Crash
  BY <1>0, <1>8, <1>9, CrashTree DEF Crash
<1>10. CASE ExecSelf
  <2>1. UNCHANGED treeVars /\ Forget
    BY <1>10 DEF ExecSelf
  <2>2. TreeInv' /\ \A q \in Procs : TreeEvolves(q) /\ status'[q] = status[q]
    BY <1>0, <2>1, TreeStutter DEF treeVars
  <2> QED
    BY <1>8, <2>1, <2>2
<1> HIDE DEF Goal
<1> QED
  BY <1>1, <1>2, <1>3, <1>4, <1>5, <1>6, <1>7, <1>9, <1>10, ManagerSteps

-----------------------------------------------------------------------------
(* Which request has which process. *)

\* A request's process was started.
Started(r) == target[r] \in Procs => rec[target[r]] # "none"

\* A process was started by one request, in the Manager of its method.
OwnedOnce(r) ==
    method[r] \in StartMethods =>
        /\ \A q \in Reqs \ {r} : method[q] \in StartMethods /\ target[q] = target[r] => target[r] = NoProc
        /\ target[r] \in Procs => (sandboxed[target[r]] <=> Sandboxed(r))

\* A record that is being inserted is not yet listed, and other requests cannot know its id.
InsertedOnce(r) ==
    /\ stage[r] = "insert" => ~listed[target[r]]
    /\ method[r] \in IdMethods /\ target[r] \in Procs =>
          \A q \in Reqs : target[q] = target[r] => stage[q] # "insert"

\* A record that no Manager has is over, or about to be inserted.
Unlisted(p) ==
    rec[p] # "none" /\ ~listed[p] =>
        Over(p) \/ \E q \in Reqs : stage[q] = "insert" /\ target[q] = p

Ownership ==
    /\ Inserting
    /\ \A r \in Reqs : Started(r) /\ OwnedOnce(r) /\ InsertedOnce(r)
    /\ \A p \in Procs : Unlisted(p)

\* Steps that concern none of this.
Quiet ==
    /\ UNCHANGED <<method, target>>
    /\ \A q \in Reqs : stage'[q] = "insert" <=> stage[q] = "insert"
    /\ \A p \in Procs : (rec'[p] = "none" <=> rec[p] = "none") /\ (rec'[p] = "lost" <=> rec[p] = "lost")
                        /\ (listed'[p] => listed[p])

\* The steps of the Agent, by what they do to the ownership of processes.
LEMMA OwnershipSteps ==
  ASSUME Requests, ManagerTypeOK, [Next]_vars
  PROVE  \/ \E r \in Reqs : HandlerStep(r) /\ (StartProcess(r) \/ InsertRecord(r) \/ Find(r) \/ Receive(r))
         \/ Forget
         \/ Quiet
<1> DEFINE Goal ==
         \/ \E r \in Reqs : HandlerStep(r) /\ (StartProcess(r) \/ InsertRecord(r) \/ Find(r) \/ Receive(r))
         \/ Forget
         \/ Quiet
<1> SUFFICES Goal
  OBVIOUS
<1>1. ASSUME NEW r \in Reqs, HandlerStep(r), ~(StartProcess(r) \/ InsertRecord(r) \/ Find(r) \/ Receive(r))
      PROVE  Quiet
  <2>1. UNCHANGED <<method, target, rec, listed>> /\ stage[r] # "insert" /\ stage'[r] # "insert"
    <3> USE DEF At, Go, Respond, managerVars
    <3>0. stage \in [Reqs -> Stages]
      BY DEF Requests, ReqTypeOK
    <3>1. CASE ReadStep(r)
      BY <3>0, <3>1 DEF ReadStep, ListMgr, ListSandboxMgr, Summarise, ListReply, ReadHistory
    <3>2. CASE StdinTaken(r) /\ UNCHANGED <<method, view>>
      BY <3>0, <3>2 DEF StdinTaken
    <3>3. CASE ProcessStep(r)
      <4>1. UNCHANGED method
        BY <3>3 DEF ProcessStep
      <4>2. CASE Reject(r) \/ RecordTheStart(r) \/ CommandWaited(r) \/ CommandTimeout(r)
        BY <3>0, <4>1, <4>2 DEF Reject, RecordTheStart, CommandWaited, CommandTimeout
      <4>3. CASE EndRecorded(r) \/ Reply(r) \/ Waiting(r) \/ StdinErr(r)
        BY <3>0, <4>1, <4>3 DEF EndRecorded, Reply, Waiting, StdinErr
      <4>4. CASE Lookup(r) \/ HandlerTerminate(r)
        BY <3>0, <4>1, <4>4 DEF Lookup, HandlerTerminate
      <4> QED
        BY <1>1, <3>3, <4>2, <4>3, <4>4 DEF ProcessStep
    <3> QED
      BY <1>1, <3>1, <3>2, <3>3 DEF HandlerStep
  <2>2. OthersKept(r)
    BY <1>1, HandlerStepShape
  <2> QED
    BY <2>1, <2>2 DEF Quiet, OthersKept
<1>2. ASSUME UNCHANGED <<reqVars, rec, listed>> PROVE Quiet
  BY <1>2 DEF reqVars, Quiet
<1>3. ASSUME NEW p \in Procs, WaitStep(p), UNCHANGED reqVars PROVE Quiet
  BY <1>3 DEF WaitStep, HandleWait, RemoveScratch, Drain, SetExit, CloseDone, ManagerTypeOK, reqVars, Quiet
<1>4. ASSUME NEW box \in BOOLEAN, Collect(box), UNCHANGED reqVars PROVE Quiet
  BY <1>4 DEF Collect, reqVars, Quiet
<1>5. CASE UNCHANGED vars
  BY <1>2, <1>5 DEF vars, managerVars
<1>6. ASSUME NEW p \in Procs, TreeStep(p) \/ EndAwaited(p) \/ KillerStep(p) PROVE UNCHANGED <<rec, listed>>
  BY <1>6 DEF TreeStep, EndAwaited, KillerStep, managerVars
<1>7. ASSUME NEW p \in Procs, KillerStep(p) PROVE UNCHANGED reqVars
  BY <1>7 DEF KillerStep
<1>8. CASE Stop \/ MainStep \/ FetchUpdate \/ ReplaceBinary \/ ExecSelfErr
  <2>1. UNCHANGED <<reqVars, rec, listed>>
    BY <1>8 DEF Stop, MainStep, RunReturns, NextManager, MainReturns, FetchUpdate, ReplaceBinary,
                ExecSelfErr, managerVars
  <2> QED
    BY <1>2, <2>1
<1>9. CASE ExecSelf \/ Crash
  BY <1>9 DEF ExecSelf, Crash
<1>10. CASE \E r \in Reqs : HandlerStep(r)
  BY <1>1, <1>10
<1>11. ASSUME UNCHANGED <<treeVars, managerVars, reqVars, lifeVars>> PROVE Quiet
  BY <1>2, <1>11 DEF managerVars
<1> HIDE DEF Goal
<1>12. Quiet => Goal
  BY DEF Goal
<1> QED
  BY <1>2, <1>3, <1>4, <1>5, <1>6, <1>7, <1>8, <1>9, <1>10, <1>11, <1>12 DEF Next

\* The ownership of processes is kept.
LEMMA NextOwnership ==
  ASSUME Requests, Records, Ownership, [Next]_vars
  PROVE  Ownership'
<1>0. ManagerTypeOK /\ Requests' /\ Records' /\ \A p \in Procs : RecEvolves(p)
  BY NextRequests, NextRecords DEF Records, Ownership
<1>a. /\ \A r \in Reqs : PlacedReq(r) /\ Started(r) /\ OwnedOnce(r) /\ InsertedOnce(r)
      /\ \A p \in Procs : Unlisted(p)
      /\ NoProc \notin Procs /\ target \in [Reqs -> Procs \cup {NoProc}]
      /\ target' \in [Reqs -> Procs \cup {NoProc}]
      /\ StartMethods \cap IdMethods = {}
      /\ \A p \in Procs : listed[p] \in BOOLEAN /\ listed'[p] \in BOOLEAN
  BY <1>0, AgentMainAssumption
  DEF Requests, Ownership, ReqTypeOK, StartMethods, IdMethods, Records, ManagerTypeOK
<1>b. \A r \in Reqs : stage[r] = "insert" => target[r] \in Procs /\ rec[target[r]] \notin {"none", "lost"}
                                             /\ method[r] \in StartMethods
  BY <1>a DEF Ownership, Inserting, PlacedReq
<1> DEFINE Goal == Ownership'
<1> SUFFICES Goal
  OBVIOUS
<1>1. ASSUME NEW r \in Reqs, HandlerStep(r), StartProcess(r) PROVE Goal
  <2>1. PICK p \in Procs : BackendStart(p, Sandboxed(r)) /\ target' = [target EXCEPT ![r] = p]
    BY <1>1 DEF StartProcess
  <2>2. /\ rec[p] = "none" /\ rec'[p] = "wait" /\ sandboxed'[p] = Sandboxed(r) /\ UNCHANGED listed
        /\ \A q \in Procs \ {p} : rec'[q] = rec[q] /\ sandboxed'[q] = sandboxed[q]
    BY <2>1 DEF BackendStart, Records, ManagerTypeOK
  <2>3. OthersKept(r)
    BY <1>0, <1>1, HandlerStepShape
  <2>4. target'[r] = p /\ stage'[r] = "insert" /\ method'[r] = method[r] /\ method[r] \in StartMethods
    BY <1>1, <1>a, <2>1 DEF StartProcess, Receive, ReadStep, At, Go, Requests, ReqTypeOK, HandlerStep, ProcessStep, PlacedReq
  <2>5. \A q \in Reqs \ {r} : target'[q] = target[q] /\ stage'[q] = stage[q] /\ method'[q] = method[q] /\ target[q] # p
    BY <1>a, <2>2, <2>3 DEF OthersKept, Started
  <2>6. ~listed[p]
    BY <2>2 DEF Records, RecordSound
  <2>7. Inserting'
    BY <1>b, <2>2, <2>4, <2>5 DEF Inserting
  <2>8. ASSUME NEW q \in Reqs PROVE Started(q)' /\ OwnedOnce(q)' /\ InsertedOnce(q)'
    <3>0. sandboxed'[p] <=> Sandboxed(r)'
      BY <2>2, <2>4 DEF Sandboxed
    <3>1. CASE q = r
      BY <1>a, <2>2, <2>4, <2>5, <2>6, <3>0, <3>1 DEF Started, OwnedOnce, InsertedOnce
    <3>2. CASE q # r
      <4>1. target[q] \in Procs => target[q] \in Procs \ {p}
        BY <2>5, <3>2
      <4>2. Started(q)' /\ InsertedOnce(q)'
        BY <1>a, <1>b, <2>2, <2>4, <2>5, <3>2, <4>1 DEF Started, InsertedOnce
      <4>3. OwnedOnce(q)'
        BY <1>a, <2>2, <2>4, <2>5, <3>2, <4>1 DEF OwnedOnce, Sandboxed
      <4> QED
        BY <4>2, <4>3
    <3> QED
      BY <3>1, <3>2
  <2>9. ASSUME NEW q \in Procs PROVE Unlisted(q)'
    <3>1. CASE q = p
      BY <2>4, <3>1 DEF Unlisted
    <3>2. CASE q # p
      <4>1. rec'[q] = rec[q] /\ listed'[q] = listed[q] /\ Unlisted(q)
        BY <1>a, <2>2, <3>2
      <4>2. \A x \in Reqs : stage[x] = "insert" /\ target[x] = q => stage'[x] = "insert" /\ target'[x] = q
        BY <1>a, <2>4, <2>5, <3>2, <1>1 DEF StartProcess, At
      <4> QED
        BY <4>1, <4>2 DEF Unlisted, Over
    <3> QED
      BY <3>1, <3>2
  <2> QED
    BY <2>7, <2>8, <2>9 DEF Ownership
<1>2. ASSUME NEW r \in Reqs, HandlerStep(r), InsertRecord(r) PROVE Goal
  <2>1. /\ stage[r] = "insert" /\ stage'[r] = "recordStart" /\ UNCHANGED <<target, rec, sandboxed, method>>
        /\ listed' = [listed EXCEPT ![target[r]] = TRUE]
    BY <1>2 DEF InsertRecord, At, Go, Insert, Requests, ReqTypeOK, HandlerStep, ProcessStep, Receive, ReadStep
  <2>2. OthersKept(r)
    BY <1>0, <1>2, HandlerStepShape
  <2>3. PICK p \in Procs : p = target[r] /\ method[r] \in StartMethods
    BY <1>b, <2>1
  <2>4. listed'[p] /\ \A q \in Procs \ {p} : listed'[q] = listed[q]
    BY <1>0, <2>1, <2>3 DEF ManagerTypeOK
  <2>5. \A q \in Reqs \ {r} : stage'[q] = stage[q] /\ (stage[q] = "insert" => target[q] # p)
    BY <1>a, <1>b, <2>2, <2>3 DEF OthersKept, OwnedOnce
  <2>7. Inserting'
    BY <1>b, <2>1, <2>5 DEF Inserting
  <2>8. ASSUME NEW q \in Reqs PROVE Started(q)' /\ OwnedOnce(q)' /\ InsertedOnce(q)'
    BY <1>a, <1>b, <2>1, <2>3, <2>4, <2>5 DEF Started, OwnedOnce, InsertedOnce, Sandboxed
  <2>9. ASSUME NEW q \in Procs PROVE Unlisted(q)'
    BY <1>a, <2>1, <2>3, <2>4, <2>5 DEF Unlisted, Over
  <2> QED
    BY <2>7, <2>8, <2>9 DEF Ownership
<1>3. ASSUME NEW r \in Reqs, HandlerStep(r), Find(r) PROVE Goal
  <2>1. PICK p \in Procs : /\ rec[p] # "none" /\ target' = [target EXCEPT ![r] = p]
                           /\ \A q \in Reqs : target[q] = p => stage[q] # "insert"
    BY <1>3 DEF Find, At
  <2>2. OthersKept(r)
    BY <1>0, <1>3, HandlerStepShape
  <2>3. /\ target'[r] = p /\ stage[r] = "begin" /\ method[r] \in IdMethods
        /\ UNCHANGED <<rec, sandboxed, listed>> /\ \A q \in Reqs \ {r} : target'[q] = target[q]
    BY <1>3, <1>a, <2>1 DEF Find, At, managerVars
  <2>4. stage'[r] # "insert" /\ UNCHANGED method
    BY <1>3 DEF Find, At, AfterFind, Go, Respond, Requests, ReqTypeOK, HandlerStep, ProcessStep, Receive,
                ReadStep
  <2>5. \A q \in Reqs \ {r} : stage'[q] = stage[q]
    BY <2>2 DEF OthersKept
  <2>7. Inserting'
    BY <1>b, <2>3, <2>4, <2>5 DEF Inserting
  <2>8. ASSUME NEW q \in Reqs PROVE Started(q)' /\ OwnedOnce(q)' /\ InsertedOnce(q)'
    BY <1>a, <1>b, <2>1, <2>3, <2>4, <2>5 DEF Started, OwnedOnce, InsertedOnce, Sandboxed
  <2>9. ASSUME NEW q \in Procs PROVE Unlisted(q)'
    BY <1>a, <1>b, <2>3, <2>4, <2>5 DEF Unlisted, Over
  <2> QED
    BY <2>7, <2>8, <2>9 DEF Ownership
<1>4. ASSUME NEW r \in Reqs, HandlerStep(r), Receive(r) PROVE Goal
  <2>1. OthersKept(r)
    BY <1>0, <1>4, HandlerStepShape
  <2>2. /\ stage[r] = "idle" /\ stage'[r] = "begin" /\ UNCHANGED <<rec, sandboxed, listed, target>>
        /\ target[r] = NoProc
    BY <1>4, <1>a DEF Receive, At, Go, managerVars, PlacedReq, Requests, ReqTypeOK
  <2>3. \A q \in Reqs \ {r} : stage'[q] = stage[q] /\ method'[q] = method[q]
    BY <2>1 DEF OthersKept
  <2>7. Inserting'
    BY <1>b, <2>2, <2>3 DEF Inserting
  <2>8. ASSUME NEW q \in Reqs PROVE Started(q)' /\ OwnedOnce(q)' /\ InsertedOnce(q)'
    BY <1>a, <1>b, <2>2, <2>3 DEF Started, OwnedOnce, InsertedOnce, Sandboxed
  <2>9. ASSUME NEW q \in Procs PROVE Unlisted(q)'
    BY <1>a, <2>2, <2>3 DEF Unlisted, Over
  <2> QED
    BY <2>7, <2>8, <2>9 DEF Ownership
<1>5. CASE Forget
  <2>1. \A q \in Reqs : UNCHANGED <<method[q], target[q]>> /\ stage'[q] # "insert"
    BY <1>5, ForgetShape
  <2>2. \A p \in Procs : /\ UNCHANGED sandboxed[p]
                         /\ rec'[p] = (IF rec[p] = "none" THEN "none" ELSE "lost") /\ ~listed'[p]
    BY <1>0, <1>5, ForgetRecord
  <2>7. Inserting'
    BY <2>1 DEF Inserting
  <2>8. ASSUME NEW q \in Reqs PROVE Started(q)' /\ OwnedOnce(q)' /\ InsertedOnce(q)'
    BY <1>a, <2>1, <2>2 DEF Started, OwnedOnce, InsertedOnce, Sandboxed
  <2>9. ASSUME NEW q \in Procs PROVE Unlisted(q)'
    BY <2>2 DEF Unlisted, Over
  <2> QED
    BY <2>7, <2>8, <2>9 DEF Ownership
<1>6. CASE Quiet
  <2>1. /\ UNCHANGED <<method, target>>
        /\ \A q \in Reqs : stage'[q] = "insert" <=> stage[q] = "insert"
        /\ \A p \in Procs : (rec'[p] = "none" <=> rec[p] = "none") /\ (rec'[p] = "lost" <=> rec[p] = "lost")
                            /\ (listed'[p] => listed[p])
    BY <1>6 DEF Quiet
  <2>2. \A p \in Procs : rec[p] # "none" => /\ sandboxed'[p] = sandboxed[p] /\ (Over(p) => Over(p)')
                                           /\ (listed[p] /\ ~listed'[p] => Over(p)')
    BY <1>0 DEF RecEvolves
  <2>7. Inserting'
    BY <1>b, <2>1 DEF Inserting
  <2>8. ASSUME NEW q \in Reqs PROVE Started(q)' /\ OwnedOnce(q)' /\ InsertedOnce(q)'
    BY <1>a, <1>b, <2>1, <2>2 DEF Started, OwnedOnce, InsertedOnce, Sandboxed
  <2>9. ASSUME NEW q \in Procs PROVE Unlisted(q)'
    BY <1>a, <1>b, <2>1, <2>2 DEF Unlisted
  <2> QED
    BY <2>7, <2>8, <2>9 DEF Ownership
<1> HIDE DEF Goal
<1> QED
  BY <1>0, <1>1, <1>2, <1>3, <1>4, <1>5, <1>6, OwnershipSteps

-----------------------------------------------------------------------------
(* The invariant the properties rest on. *)

Base == Requests /\ Records /\ Ownership

\* It holds initially ...
LEMMA InitBase == Init => Base
<1> SUFFICES ASSUME Init PROVE Base
  OBVIOUS
<1>1. Requests
  BY DEF Init, Requests, ReqTypeOK, PlacedReq, Stages, Responses, Views
<1>2. Records
  <2>1. TreeInv
    BY TreeInitial DEF Init
  <2>2. ManagerTypeOK
    BY DEF Init, ManagerInit, ManagerTypeOK, RecStages
  <2>3. ASSUME NEW p \in Procs PROVE RecordSound(p)
    BY DEF Init, ManagerInit, TreeInit, RecordSound, Published
  <2> QED
    BY <2>1, <2>2, <2>3 DEF Records
<1>3. Ownership
  BY AgentMainAssumption
  DEF Init, ManagerInit, Ownership, Inserting, Started, OwnedOnce, InsertedOnce, Unlisted, StartMethods, IdMethods
<1> QED
  BY <1>1, <1>2, <1>3 DEF Base

\* ... and is inductive.
LEMMA NextBase ==
  ASSUME Base, [Next]_vars
  PROVE  Base' /\ \A p \in Procs : RecEvolves(p)
BY NextRequests, NextRecords, NextOwnership DEF Base, Records, Ownership

\* Requests, records and their ownership are sound in every behaviour.
THEOREM AgentInvariance == Spec => []Base
<1>1. Base /\ [Next]_vars => Base'
  BY NextBase
<1> QED
  BY <1>1, InitBase, PTL DEF Spec

\* A sandboxed command has its scratch directory as long as it runs, whatever becomes of the
\* Agent, and when the exit is reported it was removed or could not be.
THEOREM ScratchLives == Spec => []ScratchLifetime
<1>1. Base => ScratchLifetime
  BY DEF Base, Records, RecordSound, ScratchLifetime, Exited
<1> QED
  BY <1>1, AgentInvariance, PTL

-----------------------------------------------------------------------------
(* The answers. *)

\* A request that is done keeps its answer.
LEMMA DoneKept ==
  ASSUME Base, [Next]_vars, NEW q \in Reqs, stage[q] = "done"
  PROVE  UNCHANGED <<method[q], stage[q], target[q], timedOut[q], res[q], flag[q], view[q]>>
<1> USE DEF Base, Records
<1>1. ASSUME NEW r \in Reqs, HandlerStep(r) PROVE r # q
  BY <1>1 DEF HandlerStep, Receive, ProcessStep, StdinTaken, ReadStep, Reject, StartProcess, InsertRecord,
              RecordTheStart, CommandWaited, CommandTimeout, EndRecorded, Reply, Find, Waiting, StdinErr,
              Lookup, HandlerTerminate, ListMgr, ListSandboxMgr, Summarise, ListReply, ReadHistory, At
<1>2. ASSUME NEW r \in Reqs, HandlerStep(r) PROVE OthersKept(r)
  BY <1>2, HandlerStepShape
<1>3. CASE \E r \in Reqs : HandlerStep(r)
  BY <1>1, <1>2, <1>3 DEF OthersKept
<1>4. CASE Forget
  BY <1>4, ForgetShape
<1>5. CASE UNCHANGED reqVars
  BY <1>5 DEF reqVars
<1> QED
  BY <1>3, <1>4, <1>5, RequestSteps

\* The steps that answer.
AnswerStep(q) ==
    \/ Reject(q)
    \/ RecordTheStart(q) /\ method[q] = "process.start"
    \/ Reply(q)
    \/ Find(q) /\ ~Found(target'[q])
    \/ Waiting(q)
    \/ StdinTaken(q)
    \/ StdinErr(q)
    \/ Lookup(q) /\ ~listed[target[q]]
    \/ HandlerTerminate(q)
    \/ (ListReply(q) \/ ReadHistory(q)) /\ UNCHANGED <<target, treeVars>>

\* A new answer is given by one of them.
LEMMA Answers ==
  ASSUME Base, [Next]_vars, NEW q \in Reqs, stage[q] # "done", res'[q] \notin {"none", "lost"}
  PROVE  /\ AnswerStep(q)
         /\ UNCHANGED <<method, rec, sandboxed, listed, exitCode, setupFailed, waitErr, scratch>>
         /\ OthersKept(q)
<1> USE DEF Base, Records
<1>0. res[q] = "none" /\ PlacedReq(q) /\ stage \in [Reqs -> Stages] /\ res \in [Reqs -> Responses]
      /\ target \in [Reqs -> Procs \cup {NoProc}]
  BY DEF Requests, PlacedReq, ReqTypeOK
<1>1. HandlerStep(q)
  <2>1. ASSUME NEW r \in Reqs, HandlerStep(r) PROVE OthersKept(r)
    BY <2>1, HandlerStepShape
  <2>2. CASE \E r \in Reqs : HandlerStep(r)
    BY <1>0, <2>1, <2>2 DEF OthersKept
  <2>3. CASE Forget
    BY <1>0, <2>3, ForgetShape
  <2>4. CASE UNCHANGED reqVars
    BY <1>0, <2>4 DEF reqVars
  <2> QED
    BY <2>2, <2>3, <2>4, RequestSteps
<1>2. OthersKept(q)
  BY <1>1, HandlerStepShape
<1>3. CASE Receive(q) \/ StartProcess(q) \/ InsertRecord(q) \/ CommandWaited(q) \/ CommandTimeout(q)
           \/ EndRecorded(q)
  BY <1>0, <1>3 DEF Receive, StartProcess, InsertRecord, CommandWaited, CommandTimeout, EndRecorded
<1>4. CASE ReadStep(q)
  <2>1. ListReply(q) \/ ReadHistory(q)
    BY <1>0, <1>4 DEF ReadStep, ListMgr, ListSandboxMgr, Summarise
  <2> QED
    BY <1>2, <1>4, <2>1 DEF ReadStep, AnswerStep, managerVars
<1>5. CASE Find(q) /\ UNCHANGED method
  <2>1. PICK p \in Procs : /\ target' = [target EXCEPT ![q] = p]
                           /\ Found(p) => UNCHANGED res
    BY <1>5 DEF Find
  <2>2. ~Found(target'[q])
    BY <1>0, <2>1
  <2> QED
    BY <1>2, <1>5, <2>2 DEF Find, AnswerStep, managerVars
<1>6. CASE RecordTheStart(q) /\ UNCHANGED method
  <2>1. method[q] = "process.start"
    BY <1>0, <1>6 DEF RecordTheStart
  <2> QED
    BY <1>2, <1>6, <2>1 DEF RecordTheStart, AnswerStep, managerVars
<1>7. CASE Lookup(q) /\ UNCHANGED method
  <2>1. ~listed[target[q]]
    BY <1>0, <1>7 DEF Lookup
  <2> QED
    BY <1>2, <1>7, <2>1 DEF Lookup, AnswerStep, managerVars
<1>8. CASE (Reject(q) \/ Reply(q) \/ Waiting(q) \/ StdinTaken(q) \/ StdinErr(q) \/ HandlerTerminate(q))
           /\ UNCHANGED method
  BY <1>2, <1>8 DEF Reject, Reply, Waiting, StdinTaken, StdinErr, HandlerTerminate, AnswerStep, managerVars
<1> QED
  BY <1>1, <1>3, <1>4, <1>5, <1>6, <1>7, <1>8 DEF HandlerStep, ProcessStep

\* A request's process, once known to be over, stays so.
LEMMA OverStays ==
  ASSUME Base, [Next]_vars, NEW q \in Reqs, stage[q] = "done", target[q] # NoProc, Over(target[q])
  PROVE  Over(target[q])'
<1>1. target[q] \in Procs /\ target'[q] = target[q]
  BY DoneKept DEF Base, Requests, ReqTypeOK
<1>2. \A p \in Procs : RecEvolves(p)
  BY NextBase
<1>3. rec[target[q]] # "none"
  BY DEF Over
<1> QED
  BY <1>1, <1>2, <1>3 DEF RecEvolves, Over

\* Who looks for a process that no Manager has finds one that is over.
LEMMA MissingIsOver ==
  ASSUME Base, NEW p \in Procs, rec[p] # "none", ~listed[p],
         \A q \in Reqs : target[q] = p => stage[q] # "insert"
  PROVE  Over(p)
BY DEF Base, Ownership, Unlisted

\* "process_not_found" is honest, for any number of processes, requests and restarts.
THEOREM NotFoundIsHonest == Spec => []NotFoundHonest
<1>1. Init => NotFoundHonest
  BY DEF Init, NotFoundHonest
<1>2. Base /\ NotFoundHonest /\ [Next]_vars => NotFoundHonest'
  <2> SUFFICES ASSUME Base, NotFoundHonest, [Next]_vars, NEW q \in Reqs,
                      res'[q] = "process_not_found", target'[q] # NoProc
               PROVE  Over(target[q])'
    BY DEF NotFoundHonest, Finished, Over
  <2>1. CASE stage[q] = "done"
    <3>1. res[q] = "process_not_found" /\ target[q] # NoProc
      BY <2>1, DoneKept
    <3>2. Over(target[q])
      BY <3>1 DEF NotFoundHonest, Finished, Over
    <3> QED
      BY <2>1, <3>1, <3>2, OverStays
  <2>2. CASE stage[q] # "done"
    <3>0. AnswerStep(q) /\ UNCHANGED <<rec, listed>>
      BY <2>2, Answers
    <3>1. /\ PlacedReq(q) /\ Started(q) /\ InsertedOnce(q)
          /\ stage \in [Reqs -> Stages] /\ res \in [Reqs -> Responses]
          /\ target \in [Reqs -> Procs \cup {NoProc}]
      BY DEF Base, Requests, ReqTypeOK, Ownership
    <3>2. CASE Reject(q)
      BY <3>1, <3>2 DEF Reject, PlacedReq, At
    <3>3. CASE Find(q) /\ ~Found(target'[q])
      <4>1. PICK p \in Procs : /\ rec[p] # "none" /\ target' = [target EXCEPT ![q] = p]
                               /\ \A x \in Reqs : target[x] = p => stage[x] # "insert"
        BY <3>3 DEF Find, At
      <4>2. target'[q] = p /\ ~listed[p]
        BY <3>1, <3>3, <4>1 DEF Found
      <4> QED
        BY <3>0, <4>1, <4>2, MissingIsOver DEF Over
    <3>4. CASE Lookup(q) /\ ~listed[target[q]]
      <4>1. /\ stage[q] = "lookup" /\ target' = target
        BY <3>4 DEF Lookup, At
      <4>2. /\ target[q] \in Procs /\ rec[target[q]] # "none" /\ method[q] = "process.terminate"
        BY <3>1, <4>1 DEF PlacedReq, Started
      <4>3. \A x \in Reqs : target[x] = target[q] => stage[x] # "insert"
        BY <3>1, <4>2 DEF InsertedOnce, IdMethods
      <4> QED
        BY <3>0, <3>4, <4>1, <4>2, <4>3, MissingIsOver DEF Over
    <3>5. CASE \/ RecordTheStart(q) /\ method[q] = "process.start"
               \/ Reply(q) \/ Waiting(q) \/ StdinTaken(q) \/ StdinErr(q) \/ HandlerTerminate(q)
               \/ ListReply(q) \/ ReadHistory(q)
      <4>1. res'[q] \in {"result", "internal", "sandbox_violation", "invalid_request", res[q]}
        BY <3>1, <3>5 DEF RecordTheStart, Reply, Waiting, StdinTaken, StdinErr, HandlerTerminate, ListReply,
                          ReadHistory, Respond
      <4> QED
        BY <2>2, <3>1, <4>1 DEF PlacedReq
    <3> QED
      BY <3>0, <3>2, <3>3, <3>4, <3>5 DEF AnswerStep
  <2> QED
    BY <2>1, <2>2
<1> QED
  BY <1>1, <1>2, AgentInvariance, PTL DEF Spec

\* The group of a process that was terminated is gone, and stays gone.
TerminatedGone ==
    \A r \in Reqs :
        method[r] = "process.terminate" /\ res[r] = "result" =>
            target[r] \in Procs /\ rec[target[r]] # "none" /\ InGroup(target[r]) = {}

\* process.terminate answers only once nobody of the group is left, for any number of processes
\* that share process numbers over time.
THEOREM TerminateIsThorough == Spec => []TerminatedMeansGone
<1>1. Init => TerminatedGone
  BY DEF Init, TerminatedGone
<1>2. Base /\ TerminatedGone /\ [Next]_vars => TerminatedGone'
  <2> SUFFICES ASSUME Base, TerminatedGone, [Next]_vars, NEW q \in Reqs,
                      method'[q] = "process.terminate", res'[q] = "result"
               PROVE  target'[q] \in Procs /\ rec'[target'[q]] # "none" /\ InGroup(target[q])' = {}
    BY DEF TerminatedGone
  <2>0. \A p \in Procs : RecEvolves(p)
    BY NextBase
  <2>1. CASE stage[q] = "done"
    <3>1. target'[q] = target[q] /\ method[q] = "process.terminate" /\ res[q] = "result"
      BY <2>1, DoneKept
    <3>2. target[q] \in Procs /\ rec[target[q]] # "none" /\ InGroup(target[q]) = {}
      BY <3>1 DEF TerminatedGone
    <3>3. rec'[target[q]] # "none" /\ TreeEvolves(target[q])
      BY <2>0, <3>2 DEF RecEvolves
    <3> QED
      BY <3>1, <3>2, <3>3 DEF TreeEvolves, InGroup
  <2>2. CASE stage[q] # "done"
    <3>0. AnswerStep(q) /\ UNCHANGED <<method, rec>>
      BY <2>2, Answers
    <3>1. /\ PlacedReq(q) /\ Started(q) /\ TreeInv /\ res \in [Reqs -> Responses]
      BY DEF Base, Requests, ReqTypeOK, Ownership, Records
    <3>2. CASE HandlerTerminate(q)
      <4>1. \/ GroupGone(target[q]) \/ SendKill(target[q])
        BY <2>2, <3>1, <3>2 DEF HandlerTerminate, Respond, PlacedReq
      <4>2. target[q] \in Procs /\ rec[target[q]] # "none" /\ target' = target
        BY <3>1, <3>2 DEF HandlerTerminate, PlacedReq, Started, At
      <4>3. CASE GroupGone(target[q])
        <5>1. InGroup(target[q]) = {} /\ UNCHANGED treeVars
          BY <4>2, <4>3, NoGroupNobody DEF GroupGone
        <5> QED
          BY <3>0, <4>2, <5>1 DEF treeVars, InGroup
      <4>4. CASE SendKill(target[q])
        <5>1. Signal(target[q], {}) /\ {} \in SUBSET {"leader", "child"}
          BY <4>4 DEF SendKill
        <5>2. PICK p \in Procs : p = target[q]
          BY <4>2
        <5>3. InGroup(p)' = {}
          BY <3>1, <5>1, <5>2, SignalStep
        <5> QED
          BY <3>0, <4>2, <5>2, <5>3 DEF InGroup
      <4> QED
        BY <4>1, <4>3, <4>4
    <3>3. CASE Reject(q) \/ (Find(q) /\ ~Found(target'[q])) \/ (Lookup(q) /\ ~listed[target[q]])
      <4>1. res'[q] # "result"
        BY <2>2, <3>1, <3>3 DEF Reject, Find, Lookup, Respond, PlacedReq
      <4> QED
        BY <4>1
    <3>4. CASE \/ RecordTheStart(q) \/ Reply(q) \/ Waiting(q) \/ StdinTaken(q) \/ StdinErr(q)
               \/ ListReply(q) \/ ReadHistory(q)
      <4>1. method[q] # "process.terminate"
        BY <3>1, <3>4 DEF RecordTheStart, Reply, Waiting, StdinTaken, StdinErr, ListReply, ReadHistory, At,
                          PlacedReq, StartMethods
      <4> QED
        BY <3>0, <4>1
    <3> QED
      BY <3>0, <3>2, <3>3, <3>4 DEF AnswerStep
  <2> QED
    BY <2>1, <2>2
<1>3. TerminatedGone => TerminatedMeansGone
  BY DEF TerminatedGone, TerminatedMeansGone
<1> QED
  BY <1>1, <1>2, <1>3, AgentInvariance, PTL DEF Spec

-----------------------------------------------------------------------------
(* process.list. *)

\* A process whose id may be known.
Known(p) == rec[p] # "none" /\ \A q \in Reqs : target[q] = p => stage[q] # "insert"

\* What a list request has noted of p, up to its answer.
Listing(r, p) ==
    /\ view[r][p][1] = "due" => Known(p) /\ sandboxed[p]
    /\ /\ view[r][p][1] = "due" /\ method[r] = "process.list"
       /\ stage[r] = "summary" \/ res[r] = "result"
       => Over(p)
    /\ view[r][p][1] = "exited" => reaped[p]
    /\ view[r][p][1] \in {"code", "running", "exited"} /\ view[r][p][2] # "nil" =>
          reaped[p] /\ view[r][p][2] = StateExitCode(p)

\* A known process stays known.
LEMMA KnownStays ==
  ASSUME Base, [Next]_vars, NEW p \in Procs, Known(p)
  PROVE  Known(p)' /\ RecEvolves(p)
<1>1. RecEvolves(p) /\ rec'[p] # "none"
  BY NextBase DEF Known, RecEvolves
<1>2. ASSUME NEW q \in Reqs, target'[q] = p PROVE stage'[q] # "insert"
  <2>0. Requests /\ ManagerTypeOK /\ target \in [Reqs -> Procs \cup {NoProc}] /\ stage \in [Reqs -> Stages]
    BY DEF Base, Records, Requests, ReqTypeOK
  <2>1. ASSUME NEW r \in Reqs, HandlerStep(r), StartProcess(r) \/ InsertRecord(r) \/ Find(r) \/ Receive(r)
        PROVE  stage'[q] # "insert"
    <3>1. CASE q # r
      BY <1>2, <2>0, <2>1, <3>1, HandlerStepShape DEF OthersKept, Known
    <3>2. CASE q = r /\ StartProcess(r)
      <4>1. PICK x \in Procs : rec[x] = "none" /\ target' = [target EXCEPT ![r] = x]
        BY <3>2 DEF StartProcess, BackendStart
      <4> QED
        BY <1>2, <2>0, <3>2, <4>1 DEF Known
    <3>3. CASE q = r /\ (InsertRecord(r) \/ Receive(r) \/ Find(r))
      BY <2>0, <3>3 DEF InsertRecord, Receive, Find, AfterFind, At, Go, Respond
    <3> QED
      BY <2>1, <3>1, <3>2, <3>3
  <2>2. CASE Forget
    BY <2>0, <2>2, ForgetShape
  <2>3. CASE Quiet
    BY <1>2, <2>3 DEF Quiet, Known
  <2> QED
    BY <2>0, <2>1, <2>2, <2>3, OwnershipSteps
<1> QED
  BY <1>1, <1>2 DEF Known

\* What a request has noted stays true, as long as it only notes and its answer follows the
\* summary.
LEMMA ListingKept ==
  ASSUME Base, [Next]_vars, NEW r \in Reqs, NEW p \in Procs, Listing(r, p), view'[r][p] = view[r][p],
         method'[r] = "process.list" /\ (stage'[r] = "summary" \/ res'[r] = "result") =>
            method[r] = "process.list" /\ (stage[r] = "summary" \/ res[r] = "result")
  PROVE  Listing(r, p)'
<1>1. Known(p) => Known(p)' /\ RecEvolves(p) /\ rec[p] # "none"
  BY KnownStays DEF Known
<1>2. reaped[p] => reaped'[p] /\ StateExitCode(p)' = StateExitCode(p)
  <2>1. TreeOrdered(p) /\ RecordSound(p) /\ RecEvolves(p)
    BY NextBase DEF Base, Records, TreeInv
  <2>2. reaped[p] => rec[p] # "none"
    BY <2>1 DEF TreeOrdered, RecordSound
  <2> QED
    BY <2>1, <2>2, CodeIsFinal DEF RecEvolves
<1> QED
  BY <1>1, <1>2 DEF Listing, RecEvolves

\* One step per action that a listing consists of.
LEMMA NextListing ==
  ASSUME Base, [Next]_vars, NEW r \in Reqs, NEW p \in Procs, \A x \in Procs : Listing(r, x)
  PROVE  Listing(r, p)'
<1>0. /\ Requests /\ ManagerTypeOK /\ PlacedReq(r) /\ view \in [Reqs -> [Procs -> Views]]
      /\ stage \in [Reqs -> Stages] /\ RecordSound(p)
  BY DEF Base, Records, Requests, ReqTypeOK
<1>1. ASSUME ReadStep(r), ListMgr(r) PROVE Listing(r, p)'
  <2>1. /\ UNCHANGED <<treeVars, managerVars, method, target, res>>
        /\ view'[r][p] = IF ~listed[p] THEN <<"no">> ELSE IF sandboxed[p] THEN <<"due">> ELSE <<"rec">>
        /\ stage[r] = "begin" /\ stage' = [stage EXCEPT ![r] = "list"]
    BY <1>0, <1>1 DEF ReadStep, ListMgr, At, Go
  <2>2. listed[p] => Known(p)
    BY <1>0 DEF Base, Ownership, InsertedOnce, Known, RecordSound
  <2>3. Known(p) => Known(p)'
    BY KnownStays
  <2>4. res'[r] # "result" /\ stage'[r] = "list"
    BY <1>0, <2>1 DEF PlacedReq
  <2> QED
    BY <2>1, <2>2, <2>3, <2>4 DEF Listing, managerVars
<1>2. ASSUME ReadStep(r), ListSandboxMgr(r) PROVE Listing(r, p)'
  <2>1. /\ UNCHANGED <<treeVars, managerVars, method, target, res>>
        /\ view'[r][p] = IF listed[p] /\ sandboxed[p] THEN <<"rec">> ELSE view[r][p]
        /\ stage[r] = "list" /\ stage' = [stage EXCEPT ![r] = "summary"]
    BY <1>0, <1>2 DEF ReadStep, ListSandboxMgr, At, Go
  <2>2. CASE listed[p] /\ sandboxed[p]
    BY <2>1, <2>2 DEF Listing
  <2>3. CASE ~(listed[p] /\ sandboxed[p])
    <3>1. view[r][p][1] = "due" => Over(p) /\ Known(p)' /\ sandboxed[p]
      BY <2>3, KnownStays, MissingIsOver DEF Listing, Known
    <3>2. StateExitCode(p)' = StateExitCode(p)
      BY <2>1 DEF treeVars, StateExitCode
    <3> QED
      BY <2>1, <2>3, <3>1, <3>2 DEF Listing, Over, managerVars, treeVars
  <2> QED
    BY <2>2, <2>3
<1>3. ASSUME ReadStep(r), Summarise(r) PROVE Listing(r, p)'
  <2>1. UNCHANGED <<treeVars, managerVars, method, target, stage, res>>
    BY <1>3 DEF ReadStep, Summarise
  <2>2. PICK x \in Procs :
          \/ view' = [view EXCEPT ![r][x] = <<"code", exitCode[x]>>]
          \/ /\ view[r][x][1] = "code"
             /\ view' = [view EXCEPT ![r][x] = <<IF Exited(x) THEN "exited" ELSE "running", view[r][x][2]>>]
    BY <1>3 DEF Summarise
  <2>3. CASE x # p
    <3>1. view'[r][p] = view[r][p]
      BY <1>0, <2>2, <2>3
    <3> QED
      BY <2>1, <3>1, ListingKept
  <2>4. CASE x = p /\ view' = [view EXCEPT ![r][p] = <<"code", exitCode[p]>>]
    <3>1. view'[r][p][1] = "code" /\ view'[r][p][2] = exitCode[p]
      BY <1>0, <2>4
    <3>2. StateExitCode(p)' = StateExitCode(p)
      BY <2>1 DEF treeVars, StateExitCode
    <3>3. exitCode[p] # "nil" => reaped[p] /\ exitCode[p] = StateExitCode(p)
      BY <1>0 DEF RecordSound, Published, ObservedCode
    <3> QED
      BY <2>1, <3>1, <3>2, <3>3 DEF Listing, treeVars
  <2>5. CASE /\ x = p /\ view[r][p][1] = "code"
             /\ view' = [view EXCEPT ![r][p] = <<IF Exited(p) THEN "exited" ELSE "running", view[r][p][2]>>]
    <3>1. view'[r][p][1] = (IF Exited(p) THEN "exited" ELSE "running") /\ view'[r][p][2] = view[r][p][2]
      BY <1>0, <2>5
    <3>2. StateExitCode(p)' = StateExitCode(p)
      BY <2>1 DEF treeVars, StateExitCode
    <3>3. Exited(p) => reaped[p]
      BY <1>0 DEF RecordSound, Exited
    <3> QED
      BY <2>1, <2>5, <3>1, <3>2, <3>3 DEF Listing, treeVars
  <2> QED
    BY <2>2, <2>3, <2>4, <2>5
<1>4. CASE ~(ReadStep(r) /\ (ListMgr(r) \/ ListSandboxMgr(r) \/ Summarise(r)))
  <2>1. view'[r] = view[r]
    <3>1. ASSUME NEW q \in Reqs, HandlerStep(q), q # r PROVE view'[r] = view[r]
      BY <1>0, <3>1, HandlerStepShape DEF OthersKept
    <3>2. CASE HandlerStep(r)
      BY <1>4, <3>2 DEF HandlerStep, Receive, ProcessStep, ReadStep, ListReply, ReadHistory
    <3>3. CASE Forget
      BY <3>3 DEF Forget
    <3>4. CASE UNCHANGED reqVars
      BY <3>4 DEF reqVars
    <3> QED
      BY <3>1, <3>2, <3>3, <3>4, RequestSteps
  <2>2. ASSUME method'[r] = "process.list", stage'[r] = "summary" \/ res'[r] = "result"
        PROVE  method[r] = "process.list" /\ (stage[r] = "summary" \/ res[r] = "result")
    <3>1. CASE stage[r] = "done"
      BY <2>2, <3>1, DoneKept
    <3>2. CASE stage[r] # "done" /\ res'[r] = "result"
      <4>1. AnswerStep(r) /\ method' = method
        BY <3>2, Answers
      <4>2. CASE ListReply(r)
        BY <2>2, <4>1, <4>2 DEF ListReply, At
      <4>3. CASE Reject(r) \/ RecordTheStart(r) \/ Reply(r) \/ Find(r) \/ Waiting(r) \/ ReadHistory(r)
        BY <1>0, <2>2, <4>1, <4>3 DEF Reject, RecordTheStart, Reply, Find, Waiting, ReadHistory, PlacedReq, At,
                                StartMethods, IdMethods
      <4>4. CASE StdinTaken(r) \/ StdinErr(r) \/ Lookup(r) \/ HandlerTerminate(r)
        BY <1>0, <2>2, <4>1, <4>4 DEF StdinTaken, StdinErr, Lookup, HandlerTerminate, PlacedReq, At
      <4> QED
        BY <4>1, <4>2, <4>3, <4>4 DEF AnswerStep
    <3>3. CASE stage[r] # "done" /\ stage'[r] = "summary"
      <4>1. ASSUME NEW q \in Reqs, HandlerStep(q), q # r PROVE stage'[r] = stage[r] /\ method'[r] = method[r]
        BY <1>0, <4>1, HandlerStepShape DEF OthersKept
      <4>2. CASE ReadStep(r)
        BY <1>0, <1>4, <3>3, <4>2 DEF ReadStep, ListReply, ReadHistory, Respond, Go
      <4>3. CASE Receive(r) \/ StdinTaken(r)
        BY <1>0, <3>3, <4>3 DEF Receive, StdinTaken, Respond, Go
      <4>4. CASE ProcessStep(r)
        <5>1. UNCHANGED method
          BY <4>4 DEF ProcessStep
        <5>2. stage'[r] # "summary"
          BY <1>0, <4>4 DEF ProcessStep, Reject, StartProcess, InsertRecord, RecordTheStart, CommandWaited,
                      CommandTimeout, EndRecorded, Reply, Find, AfterFind, Waiting, StdinErr, Lookup,
                      HandlerTerminate, Respond, Go
        <5> QED
          BY <3>3, <5>2
      <4>5. CASE Forget
        BY <1>0, <3>3, <4>5, ForgetShape
      <4>6. CASE UNCHANGED reqVars
        BY <2>2, <3>3, <4>6 DEF reqVars
      <4> QED
        BY <2>2, <3>3, <4>1, <4>2, <4>3, <4>4, <4>5, <4>6, RequestSteps DEF HandlerStep
    <3> QED
      BY <2>2, <3>1, <3>2, <3>3
  <2> QED
    BY <2>1, <2>2, ListingKept
<1> QED
  BY <1>1, <1>2, <1>3, <1>4

\* process.list leaves out no process that was running all the time, and reports only real exits,
\* with the codes of the processes, whatever happens between its steps.
THEOREM ListIsHonest == Spec => []ListHonest
<1> DEFINE AllListing == \A r \in Reqs, p \in Procs : Listing(r, p)
<1>1. Init => AllListing
  BY DEF Init, Listing
<1>2. Base /\ AllListing /\ [Next]_vars => AllListing'
  BY NextListing
<1>3. AllListing => ListHonest
  BY DEF Listing, ListHonest, Over, Finished
<1> HIDE DEF AllListing
<1> QED
  BY <1>1, <1>2, <1>3, AgentInvariance, PTL DEF Spec

-----------------------------------------------------------------------------
(* The execution history. *)

\* A row shows a code only when it is completed, and then the one observed; who is about to
\* complete it has that code; and a writer that is done without an error left no open row.
RowSound(p) ==
    /\ rec[p] = "none" => row[p] = "absent" /\ end[p] = "none"
    /\ row[p] # "ended" => rowCode[p] = "nil"
    /\ row[p] = "ended" => reaped[p] /\ rowCode[p] = ObservedCode(p)
    /\ end[p] = "write" => reaped[p] /\ endCode[p] = ObservedCode(p)
    /\ attempt[p] <= busy
    /\ end[p] = "done" /\ busy <= recordEndMaxRetries /\ dbErrors = 0 => row[p] # "open"

\* A handler that has yet to record the start is the first to write; one that records the end is
\* writing it or has.
WriterPlaced(r) ==
    LET p == target[r] IN
    /\ stage[r] \in {"insert", "recordStart"} => row[p] = "absent" /\ end[p] = "none"
    /\ stage[r] = "recordEnd" => end[p] \in {"write", "done"} /\ Published(p)
    /\ stage[r] = "reply" /\ ~timedOut[r] => end[p] = "done" /\ Published(p)

Rows == HistoryTypeOK /\ (\A p \in Procs : RowSound(p)) /\ \A r \in Reqs : WriterPlaced(r)

\* A process has one request that started it.
LEMMA OneOwner ==
  ASSUME Base, NEW r \in Reqs, NEW q \in Reqs, method[r] \in StartMethods, method[q] \in StartMethods,
         target[r] \in Procs, target[r] = target[q]
  PROVE  r = q
BY AgentMainAssumption DEF Base, Ownership, OwnedOnce

\* How a handler gets to the stages in which it writes.
LEMMA StageEntered ==
  ASSUME Requests, NEW r \in Reqs, HandlerStep(r)
  PROVE  /\ stage'[r] = "insert" => StartProcess(r)
         /\ stage'[r] = "recordStart" => InsertRecord(r)
         /\ stage'[r] = "recordEnd" => CommandWaited(r)
         /\ stage'[r] = "reply" => CommandTimeout(r) \/ EndRecorded(r)
<1>0. stage \in [Reqs -> Stages]
  BY DEF Requests, ReqTypeOK
<1> USE DEF At, Go, Respond
<1>1. CASE Receive(r) \/ StdinTaken(r)
  BY <1>0, <1>1 DEF Receive, StdinTaken
<1>2. CASE ReadStep(r)
  BY <1>0, <1>2 DEF ReadStep, ListMgr, ListSandboxMgr, Summarise, ListReply, ReadHistory
<1>3. CASE Reject(r) \/ Reply(r) \/ Waiting(r) \/ StdinErr(r) \/ Lookup(r) \/ HandlerTerminate(r)
  BY <1>0, <1>3 DEF Reject, Reply, Waiting, StdinErr, Lookup, HandlerTerminate
<1>4. CASE Find(r)
  BY <1>0, <1>4 DEF Find, AfterFind
<1>5. CASE StartProcess(r) \/ InsertRecord(r) \/ RecordTheStart(r) \/ CommandWaited(r)
  BY <1>0, <1>5 DEF StartProcess, InsertRecord, RecordTheStart, CommandWaited
<1>6. CASE CommandTimeout(r) \/ EndRecorded(r)
  BY <1>0, <1>6 DEF CommandTimeout, EndRecorded
<1> QED
  BY <1>1, <1>2, <1>3, <1>4, <1>5, <1>6 DEF HandlerStep, ProcessStep

\* The steps of the Agent, by what they do to the history.
LEMMA HistorySteps ==
  ASSUME [Next]_vars
  PROVE  \/ \E r \in Reqs : HandlerStep(r) /\ (RecordTheStart(r) \/ CommandWaited(r) \/ CommandTimeout(r))
         \/ \E p \in Procs : EndAwaited(p) /\ UNCHANGED reqVars
         \/ \E p \in Procs : RecordEndStep(p) /\ UNCHANGED <<treeVars, managerVars, reqVars>>
         \/ PurgeOlderThan /\ UNCHANGED <<treeVars, managerVars, reqVars>>
         \/ Forget
         \/ UNCHANGED historyVars
<1> DEFINE Goal ==
         \/ \E r \in Reqs : HandlerStep(r) /\ (RecordTheStart(r) \/ CommandWaited(r) \/ CommandTimeout(r))
         \/ \E p \in Procs : EndAwaited(p) /\ UNCHANGED reqVars
         \/ \E p \in Procs : RecordEndStep(p) /\ UNCHANGED <<treeVars, managerVars, reqVars>>
         \/ PurgeOlderThan /\ UNCHANGED <<treeVars, managerVars, reqVars>>
         \/ Forget
         \/ UNCHANGED historyVars
<1> SUFFICES Goal
  OBVIOUS
<1>1. ASSUME NEW r \in Reqs, HandlerStep(r) PROVE Goal
  <2>1. CASE RecordTheStart(r) \/ CommandWaited(r) \/ CommandTimeout(r)
    BY <1>1, <2>1
  <2>2. CASE ~(RecordTheStart(r) \/ CommandWaited(r) \/ CommandTimeout(r))
    <3>1. UNCHANGED historyVars
      BY <1>1, <2>2 DEF HandlerStep, ProcessStep, Receive, StdinTaken, ReadStep, Reject, StartProcess,
                        InsertRecord, EndRecorded, Reply, Find, Waiting, StdinErr, Lookup, HandlerTerminate
    <3> QED
      BY <3>1
  <2> QED
    BY <2>1, <2>2
<1>2. CASE Stop \/ MainStep \/ FetchUpdate \/ ReplaceBinary \/ ExecSelfErr \/ UNCHANGED vars
           \/ \E p \in Procs : KillerStep(p)
  <2>1. UNCHANGED historyVars
    BY <1>2 DEF vars, Stop, MainStep, RunReturns, NextManager, MainReturns, FetchUpdate, ReplaceBinary,
                ExecSelfErr, KillerStep
  <2> QED
    BY <2>1
<1>3. CASE ExecSelf \/ Crash
  BY <1>3 DEF ExecSelf, Crash
<1>4. CASE \/ \E p \in Procs : EndAwaited(p) /\ UNCHANGED reqVars
           \/ \E p \in Procs : RecordEndStep(p) /\ UNCHANGED <<treeVars, managerVars, reqVars>>
           \/ PurgeOlderThan /\ UNCHANGED <<treeVars, managerVars, reqVars>>
           \/ UNCHANGED historyVars
  BY <1>4
<1> HIDE DEF Goal
<1> QED
  BY <1>1, <1>2, <1>3, <1>4 DEF Next

\* A row nobody touches stays sound.
LEMMA RowKept ==
  ASSUME Base, [Next]_vars, NEW p \in Procs, RowSound(p), HistoryTypeOK, HistoryTypeOK',
         UNCHANGED <<row[p], rowCode[p], end[p], endCode[p], attempt[p]>>,
         busy <= busy', dbErrors <= dbErrors'
  PROVE  RowSound(p)'
<1>1. reaped[p] => reaped'[p] /\ ObservedCode(p)' = ObservedCode(p)
  <2>1. TreeOrdered(p) /\ RecordSound(p) /\ RecEvolves(p)
    BY NextBase DEF Base, Records, TreeInv
  <2>2. reaped[p] => rec[p] # "none"
    BY <2>1 DEF TreeOrdered, RecordSound
  <2> QED
    BY <2>1, <2>2, ObservedIsFinal DEF RecEvolves
<1>2. rec'[p] = "none" => rec[p] = "none"
  BY NextBase DEF RecEvolves
<1>3. /\ busy \in Nat /\ busy' \in Nat /\ dbErrors \in Nat /\ dbErrors' \in Nat /\ attempt[p] \in Nat
  BY AgentMainAssumption, HistoryAssumption DEF HistoryTypeOK, recordEndMaxRetries
<1> QED
  BY <1>1, <1>2, <1>3 DEF RowSound, recordEndMaxRetries

\* The history keeps its types.
LEMMA NextHistoryType ==
  ASSUME HistoryTypeOK, ManagerTypeOK, [Next]_vars
  PROVE  HistoryTypeOK' /\ busy <= busy' /\ dbErrors <= dbErrors'
<1>0. Execs = Procs /\ MaxBusy \in Nat /\ MaxDbErrors \in Nat /\ busy \in 0 .. MaxBusy /\ dbErrors \in 0 .. MaxDbErrors
  BY AgentMainAssumption, HistoryAssumption DEF HistoryTypeOK
<1>1. ASSUME NEW r \in Reqs, RecordTheStart(r) PROVE HistoryTypeOK' /\ busy <= busy' /\ dbErrors <= dbErrors'
  <2>1. /\ busy' \in 0 .. MaxBusy /\ dbErrors' \in 0 .. MaxDbErrors /\ busy <= busy' /\ dbErrors <= dbErrors'
    BY <1>0, <1>1 DEF RecordTheStart, RecordStart
  <2>2. /\ row' \in [Execs -> {"absent", "open", "ended"}] /\ end' \in [Execs -> {"none", "wait", "write", "done", "lost"}]
        /\ UNCHANGED <<rowCode, endCode, attempt>>
    BY <1>1 DEF RecordTheStart, RecordStart, HistoryTypeOK
  <2> QED
    BY <2>1, <2>2 DEF HistoryTypeOK
<1>2. ASSUME NEW r \in Reqs, CommandWaited(r) PROVE HistoryTypeOK' /\ busy <= busy' /\ dbErrors <= dbErrors'
  <2>1. target[r] \in Procs => exitCode[target[r]] \in Codes
    BY DEF ManagerTypeOK, Codes
  <2>2. endCode' \in [Execs -> Codes]
    BY <1>0, <1>2, <2>1 DEF CommandWaited, HistoryTypeOK
  <2> QED
    BY <1>0, <1>2, <2>2 DEF CommandWaited, HistoryTypeOK
<1>3. ASSUME NEW r \in Reqs, CommandTimeout(r) PROVE HistoryTypeOK' /\ busy <= busy' /\ dbErrors <= dbErrors'
  <2>1. /\ end' = [end EXCEPT ![target[r]] = "wait"]
        /\ UNCHANGED <<row, rowCode, endCode, attempt, busy, dbErrors>>
    BY <1>3 DEF CommandTimeout
  <2>2. end' \in [Execs -> {"none", "wait", "write", "done", "lost"}]
    BY <2>1 DEF HistoryTypeOK
  <2> QED
    BY <1>0, <2>1, <2>2 DEF HistoryTypeOK
<1>4. ASSUME NEW p \in Procs, EndAwaited(p) PROVE HistoryTypeOK' /\ busy <= busy' /\ dbErrors <= dbErrors'
  <2>1. exitCode[p] \in Codes
    BY DEF ManagerTypeOK, Codes
  <2> QED
    BY <1>0, <1>4, <2>1 DEF EndAwaited, HistoryTypeOK
<1>5. ASSUME NEW p \in Procs, RecordEndStep(p) PROVE HistoryTypeOK' /\ busy <= busy' /\ dbErrors <= dbErrors'
  <2>1. CASE UpdateOk(p)
    BY <1>0, <2>1 DEF UpdateOk, HistoryTypeOK
  <2>2. CASE UpdateErr(p)
    BY <1>0, <2>2 DEF UpdateErr, HistoryTypeOK
  <2>3. CASE UpdateBusy(p)
    <3>1. busy' \in 0 .. MaxBusy /\ busy <= busy'
      BY <1>0, <2>3 DEF UpdateBusy
    <3>2. attempt[p] \in 0 .. 3
      BY <1>0 DEF HistoryTypeOK, recordEndMaxRetries
    <3>3. attempt[p] < recordEndMaxRetries => attempt[p] + 1 \in 0 .. recordEndMaxRetries
      BY <3>2 DEF recordEndMaxRetries
    <3> QED
      BY <1>0, <2>3, <3>1, <3>3 DEF UpdateBusy, HistoryTypeOK
  <2> QED
    BY <1>5, <2>1, <2>2, <2>3 DEF RecordEndStep
<1>6. CASE PurgeOlderThan
  BY <1>0, <1>6 DEF PurgeOlderThan, HistoryTypeOK, Codes
<1>7. CASE Forget
  BY <1>0, <1>7 DEF Forget, HistoryTypeOK
<1>8. CASE UNCHANGED historyVars
  BY <1>0, <1>8 DEF historyVars, HistoryTypeOK
<1> QED
  BY <1>1, <1>2, <1>3, <1>4, <1>5, <1>6, <1>7, <1>8, HistorySteps

\* Rows stay sound: one step per action that writes.
LEMMA NextRows ==
  ASSUME Base, Rows, [Next]_vars, NEW p \in Procs
  PROVE  RowSound(p)'
<1>0. /\ HistoryTypeOK /\ HistoryTypeOK' /\ busy <= busy' /\ dbErrors <= dbErrors' /\ RowSound(p)
      /\ RecordSound(p) /\ RecEvolves(p) /\ Execs = Procs /\ ManagerTypeOK /\ TreeOrdered(p)
  BY NextHistoryType, NextBase, AgentMainAssumption DEF Rows, Base, Records, TreeInv
<1>a. UNCHANGED <<row[p], rowCode[p], end[p], endCode[p], attempt[p]>> => RowSound(p)'
  BY <1>0, RowKept
<1>b. /\ busy \in Nat /\ busy' \in Nat /\ dbErrors \in Nat /\ dbErrors' \in Nat /\ attempt[p] \in Nat
      /\ attempt[p] <= 3
  BY <1>0, HistoryAssumption DEF HistoryTypeOK, recordEndMaxRetries
<1>c. reaped[p] => reaped'[p] /\ ObservedCode(p)' = ObservedCode(p)
  <2>1. reaped[p] => rec[p] # "none"
    BY <1>0 DEF TreeOrdered, RecordSound
  <2> QED
    BY <1>0, <2>1, ObservedIsFinal DEF RecEvolves
<1>d. rec'[p] = "none" => rec[p] = "none"
  BY <1>0 DEF RecEvolves
<1>e. \A r \in Reqs : PlacedReq(r) /\ Started(r) /\ WriterPlaced(r)
  BY DEF Base, Requests, Ownership, Rows
<1>1. ASSUME NEW r \in Reqs, RecordTheStart(r) PROVE RowSound(p)'
  <2>1. CASE target[r] # p
    <3>1. UNCHANGED <<row[p], rowCode[p], end[p], endCode[p], attempt[p]>>
      BY <1>0, <1>1, <2>1 DEF RecordTheStart, RecordStart, HistoryTypeOK
    <3> QED
      BY <1>a, <3>1
  <2>2. CASE target[r] = p
    <3>1. row[p] = "absent" /\ end[p] = "none" /\ rec[p] # "none"
      BY <1>1, <1>e, <2>2 DEF RecordTheStart, WriterPlaced, At, Started
    <3>2. /\ row'[p] \in {"absent", "open"} /\ end'[p] \in {"none", "wait"}
          /\ UNCHANGED <<rowCode[p], endCode[p], attempt[p]>>
      BY <1>0, <1>1, <2>2, <3>1 DEF RecordTheStart, RecordStart, HistoryTypeOK
    <3> QED
      BY <1>0, <1>b, <1>c, <1>d, <3>1, <3>2 DEF RowSound, recordEndMaxRetries
  <2> QED
    BY <2>1, <2>2
<1>2. ASSUME NEW r \in Reqs, CommandWaited(r) PROVE RowSound(p)'
  <2>1. CASE target[r] # p
    <3>1. UNCHANGED <<row[p], rowCode[p], end[p], endCode[p], attempt[p]>>
      BY <1>0, <1>2, <2>1 DEF CommandWaited, HistoryTypeOK
    <3> QED
      BY <1>a, <3>1
  <2>2. CASE target[r] = p
    <3>1. exitCode[p] = ObservedCode(p) /\ reaped[p] /\ rec[p] # "none"
      BY <1>0, <1>2, <2>2 DEF CommandWaited, Exited, RecordSound, Published
    <3>2. /\ end'[p] = "write" /\ endCode'[p] = exitCode[p]
          /\ UNCHANGED <<row[p], rowCode[p], attempt[p], busy, dbErrors>>
      BY <1>0, <1>2, <2>2 DEF CommandWaited, HistoryTypeOK
    <3> QED
      BY <1>0, <1>c, <1>d, <3>1, <3>2 DEF RowSound
  <2> QED
    BY <2>1, <2>2
<1>3. ASSUME NEW r \in Reqs, CommandTimeout(r) PROVE RowSound(p)'
  <2>1. CASE target[r] # p
    <3>1. UNCHANGED <<row[p], rowCode[p], end[p], endCode[p], attempt[p]>>
      BY <1>0, <1>3, <2>1 DEF CommandTimeout, HistoryTypeOK
    <3> QED
      BY <1>a, <3>1
  <2>2. CASE target[r] = p
    <3>1. rec[p] # "none"
      BY <1>e, <2>2 DEF Started
    <3>2. end'[p] = "wait" /\ UNCHANGED <<row[p], rowCode[p], endCode[p], attempt[p], busy, dbErrors>>
      BY <1>0, <1>3, <2>2 DEF CommandTimeout, HistoryTypeOK
    <3> QED
      BY <1>0, <1>c, <1>d, <3>1, <3>2 DEF RowSound
  <2> QED
    BY <2>1, <2>2
<1>4. ASSUME NEW x \in Procs, EndAwaited(x) PROVE RowSound(p)'
  <2>1. CASE x # p
    <3>1. UNCHANGED <<row[p], rowCode[p], end[p], endCode[p], attempt[p]>>
      BY <1>0, <1>4, <2>1 DEF EndAwaited, HistoryTypeOK
    <3> QED
      BY <1>a, <3>1
  <2>2. CASE x = p
    <3>1. exitCode[p] = ObservedCode(p) /\ reaped[p] /\ rec[p] # "none"
      BY <1>0, <1>4, <2>2 DEF EndAwaited, Exited, RecordSound, Published
    <3>2. /\ end'[p] = "write" /\ endCode'[p] = exitCode[p]
          /\ UNCHANGED <<row[p], rowCode[p], attempt[p], busy, dbErrors>>
      BY <1>0, <1>4, <2>2 DEF EndAwaited, HistoryTypeOK
    <3> QED
      BY <1>0, <1>c, <1>d, <3>1, <3>2 DEF RowSound
  <2> QED
    BY <2>1, <2>2
<1>5. ASSUME NEW x \in Procs, RecordEndStep(x) PROVE RowSound(p)'
  <2>1. CASE x # p
    <3>1. UNCHANGED <<row[p], rowCode[p], end[p], endCode[p], attempt[p]>>
      BY <1>0, <1>5, <2>1 DEF RecordEndStep, UpdateOk, UpdateBusy, UpdateErr, HistoryTypeOK
    <3> QED
      BY <1>a, <3>1
  <2>2. CASE x = p
    <3>0. end[p] = "write" /\ reaped[p] /\ endCode[p] = ObservedCode(p) /\ rec[p] # "none"
      BY <1>0, <1>5, <2>2 DEF RecordEndStep, UpdateOk, UpdateBusy, UpdateErr, RowSound
    <3>1. CASE UpdateOk(p)
      <4>1. /\ row'[p] = (IF row[p] = "absent" THEN "absent" ELSE "ended") /\ end'[p] = "done"
            /\ rowCode'[p] = (IF row[p] = "absent" THEN rowCode[p] ELSE endCode[p])
            /\ UNCHANGED <<endCode, attempt, busy, dbErrors>>
        BY <1>0, <3>1 DEF UpdateOk, HistoryTypeOK
      <4> QED
        BY <1>0, <1>c, <1>d, <3>0, <4>1 DEF RowSound
    <3>2. CASE UpdateErr(p)
      <4>1. /\ end'[p] = "done" /\ dbErrors' = dbErrors + 1
            /\ UNCHANGED <<row, rowCode, endCode, attempt, busy>>
        BY <1>0, <3>2 DEF UpdateErr, HistoryTypeOK
      <4>2. dbErrors' # 0
        BY <1>b, <4>1
      <4> QED
        BY <1>0, <1>c, <1>d, <3>0, <4>1, <4>2 DEF RowSound
    <3>3. CASE UpdateBusy(p) /\ attempt[p] < 3
      <4>1. /\ busy' = busy + 1 /\ attempt'[p] = attempt[p] + 1
            /\ UNCHANGED <<row, rowCode, end, endCode, dbErrors>>
        BY <1>0, <3>3 DEF UpdateBusy, HistoryTypeOK, recordEndMaxRetries
      <4> QED
        BY <1>0, <1>b, <1>c, <1>d, <3>0, <4>1 DEF RowSound
    <3>4. CASE UpdateBusy(p) /\ ~(attempt[p] < 3)
      <4>1. /\ busy' = busy + 1 /\ end'[p] = "done"
            /\ UNCHANGED <<row, rowCode, attempt, endCode, dbErrors>>
        BY <1>0, <3>4 DEF UpdateBusy, HistoryTypeOK, recordEndMaxRetries
      <4>2. ~(busy' <= 3) /\ attempt[p] <= busy'
        BY <1>0, <1>b, <3>4, <4>1 DEF RowSound
      <4> QED
        BY <1>0, <1>c, <1>d, <3>0, <4>1, <4>2 DEF RowSound, recordEndMaxRetries
    <3> QED
      BY <1>5, <2>2, <3>1, <3>2, <3>3, <3>4 DEF RecordEndStep
  <2> QED
    BY <2>1, <2>2
<1>6. CASE PurgeOlderThan
  <2>1. /\ UNCHANGED <<end, endCode, attempt, busy, dbErrors>>
        /\ \/ row'[p] = "absent" /\ rowCode'[p] = "nil"
           \/ row'[p] = row[p] /\ rowCode'[p] = rowCode[p]
    BY <1>0, <1>6 DEF PurgeOlderThan
  <2> QED
    BY <1>0, <1>c, <1>d, <2>1 DEF RowSound
<1>7. CASE Forget
  <2>1. /\ UNCHANGED <<row, rowCode, endCode, attempt, busy, dbErrors>>
        /\ end'[p] = IF end[p] \in {"wait", "write"} THEN "lost" ELSE end[p]
    BY <1>0, <1>7 DEF Forget
  <2> QED
    BY <1>0, <1>c, <1>d, <2>1 DEF RowSound
<1>8. CASE UNCHANGED historyVars
  BY <1>a, <1>8 DEF historyVars
<1> QED
  BY <1>1, <1>2, <1>3, <1>4, <1>5, <1>6, <1>7, <1>8, HistorySteps

\* So do the places of the writers.
LEMMA NextWriters ==
  ASSUME Base, Rows, [Next]_vars, NEW q \in Reqs
  PROVE  WriterPlaced(q)'
<1>0. /\ HistoryTypeOK /\ Execs = Procs /\ Requests /\ ManagerTypeOK /\ PlacedReq(q) /\ WriterPlaced(q)
      /\ target \in [Reqs -> Procs \cup {NoProc}] /\ stage \in [Reqs -> Stages] /\ Started(q)
      /\ timedOut \in [Reqs -> BOOLEAN]
      /\ \A p \in Procs : RowSound(p) /\ RecordSound(p) /\ RecEvolves(p)
  BY NextBase, AgentMainAssumption DEF Rows, Base, Records, Requests, ReqTypeOK, Ownership
<1>1. ASSUME HandlerStep(q) PROVE WriterPlaced(q)'
  <2>1. CASE StartProcess(q)
    <3>1. PICK p \in Procs : rec[p] = "none" /\ target' = [target EXCEPT ![q] = p]
      BY <2>1 DEF StartProcess, BackendStart
    <3>2. target'[q] = p /\ stage'[q] = "insert" /\ UNCHANGED <<row, end>>
      BY <1>0, <2>1, <3>1 DEF StartProcess, Go, historyVars
    <3>3. row[p] = "absent" /\ end[p] = "none"
      BY <1>0, <3>1 DEF RowSound
    <3> QED
      BY <3>2, <3>3 DEF WriterPlaced
  <2>2. CASE InsertRecord(q)
    <3>1. stage[q] = "insert" /\ stage'[q] = "recordStart" /\ UNCHANGED <<target, row, end>>
      BY <1>0, <2>2 DEF InsertRecord, At, Go, historyVars
    <3> QED
      BY <1>0, <3>1 DEF WriterPlaced
  <2>3. CASE CommandWaited(q)
    <3>1. /\ stage'[q] = "recordEnd" /\ UNCHANGED target /\ rec[target[q]] = "done"
          /\ end' = [end EXCEPT ![target[q]] = "write"] /\ target[q] \in Procs
      BY <1>0, <2>3 DEF CommandWaited, At, Go, Exited, PlacedReq
    <3>2. end'[target[q]] = "write" /\ Published(target[q])'
      BY <1>0, <3>1 DEF HistoryTypeOK, RecordSound, RecEvolves
    <3> QED
      BY <3>1, <3>2 DEF WriterPlaced
  <2>4. CASE CommandTimeout(q)
    <3>1. stage'[q] = "reply" /\ timedOut'[q]
      BY <1>0, <2>4 DEF CommandTimeout, Go
    <3> QED
      BY <3>1 DEF WriterPlaced
  <2>5. CASE EndRecorded(q)
    <3>1. /\ stage[q] = "recordEnd" /\ stage'[q] = "reply" /\ UNCHANGED <<target, end>>
          /\ end[target[q]] = "done" /\ target[q] \in Procs /\ rec[target[q]] # "none"
      BY <1>0, <2>5 DEF EndRecorded, At, Go, historyVars, PlacedReq, Started
    <3>2. Published(target[q])'
      BY <1>0, <3>1 DEF WriterPlaced, RecEvolves
    <3> QED
      BY <3>1, <3>2 DEF WriterPlaced
  <2>6. CASE stage'[q] \notin {"insert", "recordStart", "recordEnd", "reply"}
    BY <2>6 DEF WriterPlaced
  <2> QED
    BY <1>0, <1>1, <2>1, <2>2, <2>3, <2>4, <2>5, <2>6, StageEntered
<1>2. CASE Forget
  BY <1>0, <1>2, ForgetShape DEF WriterPlaced
<1>3. ASSUME UNCHANGED <<stage[q], target[q], timedOut[q]>>,
             stage[q] \in {"insert", "recordStart", "recordEnd", "reply"} =>
                \/ UNCHANGED <<row[target[q]], end[target[q]]>>
                \/ row'[target[q]] \in {row[target[q]], "absent"} /\ end'[target[q]] = end[target[q]]
                \/ end[target[q]] = "write" /\ end'[target[q]] \in {"write", "done"}
                \/ end[target[q]] = "wait"
      PROVE  WriterPlaced(q)'
  <2>1. CASE stage[q] \notin {"insert", "recordStart", "recordEnd", "reply"}
    BY <1>3, <2>1 DEF WriterPlaced
  <2>2. CASE stage[q] \in {"insert", "recordStart", "recordEnd", "reply"}
    <3>1. PICK p \in Procs : p = target[q] /\ rec[p] # "none"
      BY <1>0, <2>2 DEF PlacedReq, Started
    <3>2. Published(p) => Published(p)'
      BY <1>0, <3>1 DEF RecEvolves
    <3> QED
      BY <1>0, <1>3, <2>2, <3>1, <3>2 DEF WriterPlaced
  <2> QED
    BY <2>1, <2>2
<1>4. ASSUME NEW r \in Reqs, HandlerStep(r), r # q PROVE WriterPlaced(q)'
  <2>1. UNCHANGED <<stage[q], target[q], timedOut[q]>>
    BY <1>0, <1>4, HandlerStepShape DEF OthersKept
  <2>2. CASE RecordTheStart(r) \/ CommandWaited(r) \/ CommandTimeout(r)
    <3>1. method[r] \in StartMethods /\ target[r] \in Procs
      BY <2>2 DEF Base, Requests, PlacedReq, RecordTheStart, CommandWaited, CommandTimeout, At
    <3>2. stage[q] \in {"insert", "recordStart", "recordEnd", "reply"} =>
            method[q] \in StartMethods /\ target[q] \in Procs /\ target[q] # target[r]
      BY <1>0, <1>4, <3>1, OneOwner DEF PlacedReq
    <3>3. \A p \in Procs \ {target[r]} : UNCHANGED <<row[p], end[p]>>
      BY <1>0, <2>2 DEF RecordTheStart, RecordStart, CommandWaited, CommandTimeout, HistoryTypeOK
    <3> QED
      BY <1>3, <2>1, <3>2, <3>3
  <2>3. CASE ~(RecordTheStart(r) \/ CommandWaited(r) \/ CommandTimeout(r))
    <3>1. UNCHANGED <<row, end>>
      BY <1>4, <2>3 DEF HandlerStep, ProcessStep, Receive, StdinTaken, ReadStep, Reject, StartProcess, historyVars,
                        InsertRecord, EndRecorded, Reply, Find, Waiting, StdinErr, Lookup, HandlerTerminate
    <3> QED
      BY <1>3, <2>1, <3>1
  <2> QED
    BY <2>2, <2>3
<1>5. ASSUME UNCHANGED reqVars,
             \/ \E p \in Procs : EndAwaited(p)
             \/ \E p \in Procs : RecordEndStep(p)
             \/ PurgeOlderThan
             \/ UNCHANGED historyVars
      PROVE  WriterPlaced(q)'
  <2>1. UNCHANGED <<stage[q], target[q], timedOut[q]>>
    BY <1>5 DEF reqVars
  <2>2. ASSUME NEW p \in Procs, EndAwaited(p), NEW t \in Procs PROVE end[t] = "wait" \/ UNCHANGED <<row[t], end[t]>>
    BY <1>0, <2>2 DEF EndAwaited, HistoryTypeOK
  <2>3. ASSUME NEW p \in Procs, RecordEndStep(p), NEW t \in Procs
        PROVE  \/ UNCHANGED <<row[t], end[t]>>
               \/ end[t] = "write" /\ end'[t] \in {"write", "done"}
    BY <1>0, <2>3 DEF RecordEndStep, UpdateOk, UpdateBusy, UpdateErr, HistoryTypeOK
  <2>4. ASSUME PurgeOlderThan, NEW t \in Procs PROVE row'[t] \in {row[t], "absent"} /\ end'[t] = end[t]
    BY <1>0, <2>4 DEF PurgeOlderThan
  <2>5. stage[q] \in {"insert", "recordStart", "recordEnd", "reply"} => target[q] \in Procs
    BY <1>0 DEF PlacedReq
  <2> QED
    BY <1>3, <1>5, <2>1, <2>2, <2>3, <2>4, <2>5 DEF historyVars
<1>6. CASE UNCHANGED reqVars
  BY <1>2, <1>5, <1>6, HistorySteps, <1>1, <1>4
<1> QED
  BY <1>1, <1>2, <1>4, <1>6, RequestSteps

\* Rows hold what they say in every behaviour.
THEOREM RowsInvariance == Spec => []Rows
<1>1. Init => Rows
  <2> SUFFICES ASSUME Init PROVE Rows
    OBVIOUS
  <2>0. Execs = Procs /\ MaxBusy \in Nat /\ MaxDbErrors \in Nat
    BY AgentMainAssumption, HistoryAssumption
  <2>1. HistoryTypeOK
    BY <2>0 DEF Init, HistoryInit, HistoryTypeOK, Codes, recordEndMaxRetries
  <2>2. ASSUME NEW p \in Procs PROVE RowSound(p)
    BY <2>0 DEF Init, HistoryInit, RowSound
  <2>3. ASSUME NEW r \in Reqs PROVE WriterPlaced(r)
    BY DEF Init, WriterPlaced
  <2> QED
    BY <2>1, <2>2, <2>3 DEF Rows
<1>2. Base /\ Rows /\ [Next]_vars => Rows'
  <2> SUFFICES ASSUME Base, Rows, [Next]_vars PROVE Rows'
    OBVIOUS
  <2>1. HistoryTypeOK'
    BY NextHistoryType DEF Rows, Base, Records
  <2> QED
    BY <2>1, NextRows, NextWriters DEF Rows
<1> QED
  BY <1>1, <1>2, AgentInvariance, PTL DEF Spec

\* An execution's row is completed only after the process ended, with the exit code it ended with,
\* or with none when that could not be observed.
THEOREM HistoryIsTruthful == Spec => []HistoryTruthful
<1>1. Base /\ Rows => HistoryTruthful
  <2> SUFFICES ASSUME Base, Rows, NEW p \in Procs, row[p] = "ended"
               PROVE  status[p] # "none" /\ reaped[p] /\ rowCode[p] = ObservedCode(p)
    BY DEF HistoryTruthful
  <2>1. reaped[p] /\ rowCode[p] = ObservedCode(p)
    BY DEF Rows, RowSound
  <2>2. TreeOrdered(p)
    BY DEF Base, Records, TreeInv
  <2> QED
    BY <2>1, <2>2 DEF TreeOrdered
<1> QED
  BY <1>1, AgentInvariance, RowsInvariance, PTL

-----------------------------------------------------------------------------
(* What the answers of command.exec and command.read say. *)

Answered(r) ==
    LET p == target[r] IN
    /\ res[r] = "sandbox_violation" => p \in Procs /\ reaped[p] /\ status[p] = "setup"
    /\ Sandboxed(r) /\ res[r] = "result" /\ ~timedOut[r] =>
          /\ p \in Procs /\ reaped[p] /\ status[p] # "setup"
          /\ status[p] = "denied" /\ ~waitErr[p] => flag[r]
    /\ method[r] \in {"command.exec", "command.read"} /\ res[r] \in {"result", "sandbox_violation"} /\ ~timedOut[r] =>
          p \in Procs /\ end[p] = "done"

\* The end that a request has recorded before its answer stays recorded.
LEMMA EndStaysDone ==
  ASSUME Base, Rows, [Next]_vars, NEW q \in Reqs, stage[q] = "done", method[q] \in StartMethods,
         target[q] \in Procs, end[target[q]] = "done"
  PROVE  end'[target[q]] = "done"
<1>0. HistoryTypeOK /\ Execs = Procs
  BY AgentMainAssumption DEF Rows
<1>1. ASSUME NEW r \in Reqs, RecordTheStart(r) \/ CommandWaited(r) \/ CommandTimeout(r)
      PROVE  end'[target[q]] = "done"
  <2>1. method[r] \in StartMethods /\ target[r] \in Procs /\ r # q
    BY <1>1 DEF Base, Requests, PlacedReq, RecordTheStart, CommandWaited, CommandTimeout, At
  <2>2. target[r] # target[q]
    BY <2>1, OneOwner
  <2> QED
    BY <1>0, <1>1, <2>2 DEF RecordTheStart, CommandWaited, CommandTimeout, HistoryTypeOK
<1>2. ASSUME NEW p \in Procs, EndAwaited(p) \/ RecordEndStep(p) PROVE end'[target[q]] = "done"
  BY <1>0, <1>2 DEF EndAwaited, RecordEndStep, UpdateOk, UpdateBusy, UpdateErr, HistoryTypeOK
<1>3. CASE PurgeOlderThan \/ Forget \/ UNCHANGED historyVars
  BY <1>0, <1>3 DEF PurgeOlderThan, Forget, historyVars
<1> QED
  BY <1>1, <1>2, <1>3, HistorySteps

\* One step per way to answer.
LEMMA NextAnswered ==
  ASSUME Base, Rows, [Next]_vars, NEW q \in Reqs, Answered(q)
  PROVE  Answered(q)'
<1>0. /\ PlacedReq(q) /\ WriterPlaced(q) /\ OwnedOnce(q) /\ res \in [Reqs -> Responses] /\ flag \in [Reqs -> BOOLEAN]
      /\ stage \in [Reqs -> Stages]
      /\ \A p \in Procs : RecordSound(p) /\ RecEvolves(p) /\ TreeOrdered(p)
  BY NextBase DEF Base, Rows, Requests, ReqTypeOK, Records, TreeInv, Ownership
<1>1. CASE stage[q] = "done"
  <2>1. UNCHANGED <<method[q], stage[q], target[q], timedOut[q], res[q], flag[q]>>
    BY <1>1, DoneKept
  <2>2. target[q] \in Procs /\ reaped[target[q]] =>
            reaped'[target[q]] /\ status'[target[q]] = status[target[q]] /\ waitErr'[target[q]] = waitErr[target[q]]
    <3>1. ASSUME NEW p \in Procs, reaped[p] PROVE reaped'[p] /\ status'[p] = status[p] /\ waitErr'[p] = waitErr[p]
      <4>1. rec[p] # "none"
        BY <1>0, <3>1 DEF RecordSound, TreeOrdered
      <4> QED
        BY <1>0, <3>1, <4>1, CodeIsFinal DEF RecEvolves
    <3> QED
      BY <3>1
  <2>3. /\ method[q] \in {"command.exec", "command.read"} /\ target[q] \in Procs /\ end[target[q]] = "done"
        => end'[target[q]] = "done"
    BY <1>1, EndStaysDone DEF StartMethods
  <2> QED
    BY <2>1, <2>2, <2>3 DEF Answered, Sandboxed
<1>2. CASE stage[q] # "done" /\ res'[q] \in {"none", "lost"}
  BY <1>2 DEF Answered
<1>3. CASE stage[q] # "done" /\ res'[q] \notin {"none", "lost"}
  <2>0. AnswerStep(q) /\ UNCHANGED <<method, exitCode, setupFailed, waitErr, sandboxed>>
    BY <1>3, Answers
  <2>1. CASE Reply(q)
    <3>1. /\ stage[q] = "reply" /\ UNCHANGED <<target, timedOut, pid, alive, status, reaped, end>>
          /\ \/ /\ Sandboxed(q) /\ ~timedOut[q] /\ setupFailed[target[q]]
                /\ res'[q] = "sandbox_violation" /\ flag'[q] = flag[q]
             \/ /\ ~(Sandboxed(q) /\ ~timedOut[q] /\ setupFailed[target[q]])
                /\ res'[q] = "result"
                /\ flag'[q] = (Sandboxed(q) /\ ~timedOut[q] /\ exitCode[target[q]] \notin {"nil", "0"})
      BY <1>0, <2>1 DEF Reply, Respond, At, treeVars, historyVars
    <3>2. PICK p \in Procs : p = target[q]
      BY <1>0, <3>1 DEF PlacedReq
    <3>3. ~timedOut[q] => /\ end[p] = "done" /\ reaped[p] /\ exitCode[p] = ObservedCode(p)
                          /\ (setupFailed[p] <=> status[p] = "setup")
      BY <1>0, <3>1, <3>2 DEF WriterPlaced, Published
    <3>4. status[p] = "denied" /\ ~waitErr[p] => ObservedCode(p) = "1"
      BY DEF ObservedCode, StateExitCode
    <3>5. Sandboxed(q)' = Sandboxed(q)
      BY <2>0 DEF Sandboxed
    <3> QED
      BY <2>0, <3>1, <3>2, <3>3, <3>4, <3>5 DEF Answered
  <2>2. CASE \/ Reject(q)
             \/ Find(q) /\ ~Found(target'[q])
             \/ Lookup(q) /\ ~listed[target[q]]
    <3>1. res'[q] \notin {"result", "sandbox_violation"}
      BY <1>0, <2>2, <1>3 DEF Reject, Find, Lookup, Respond, PlacedReq
    <3> QED
      BY <3>1 DEF Answered
  <2>3. CASE \/ RecordTheStart(q) /\ method[q] = "process.start"
             \/ Waiting(q) \/ StdinTaken(q) \/ StdinErr(q) \/ HandlerTerminate(q) \/ ListReply(q) \/ ReadHistory(q)
    <3>1. method[q] \notin {"command.exec", "command.read"}
      BY <1>0, <2>3 DEF Waiting, StdinTaken, StdinErr, HandlerTerminate, ListReply, ReadHistory, PlacedReq, At
    <3>2. res'[q] # "sandbox_violation"
      BY <1>0, <2>3, <1>3 DEF RecordTheStart, Waiting, StdinTaken, StdinErr, HandlerTerminate, ListReply,
                              ReadHistory, Respond, PlacedReq
    <3> QED
      BY <2>0, <3>1, <3>2 DEF Answered, Sandboxed
  <2> QED
    BY <2>0, <2>1, <2>2, <2>3 DEF AnswerStep
<1> QED
  BY <1>1, <1>2, <1>3

\* The answers of every request.
THEOREM AnsweredInvariance == Spec => [](\A r \in Reqs : Answered(r))
<1> DEFINE AllAnswered == \A r \in Reqs : Answered(r)
<1>1. Init => AllAnswered
  BY DEF Init, Answered
<1>2. Base /\ Rows /\ AllAnswered /\ [Next]_vars => AllAnswered'
  BY NextAnswered
<1> HIDE DEF AllAnswered
<1>3. Spec => []AllAnswered
  BY <1>1, <1>2, AgentInvariance, RowsInvariance, PTL DEF Spec
<1> QED
  BY <1>3 DEF AllAnswered

\* sandbox_violation is answered exactly for a failure of the sandbox's own setup, and a command
\* that was denied a write and ended in time is flagged, if its exit code could be observed.
THEOREM SetupFailureIsExact == Spec => []SetupFailureExact
<1>1. (\A r \in Reqs : Answered(r)) => SetupFailureExact
  BY DEF Answered, SetupFailureExact
<1> QED
  BY <1>1, AnsweredInvariance, PTL

\* Once a command has answered with an exit code its row is not open, as long as SQLite was busy
\* no more often than RecordEnd retries.
THEOREM AnswersAreRecorded == Spec => []AnsweredMeansRecorded
<1>1. (\A r \in Reqs : Answered(r)) /\ Rows => AnsweredMeansRecorded
  BY DEF Answered, AnsweredMeansRecorded, Rows, RowSound
<1> QED
  BY <1>1, AnsweredInvariance, RowsInvariance, PTL

-----------------------------------------------------------------------------
(* The history implements ExecutionLog. *)

\* The row of p is still to be written.
Pending(p) ==
    \/ rec[p] = "none"
    \/ \E r \in Reqs : target[r] = p /\ stage[r] \in {"insert", "recordStart"}

\* A row that is there is written; a start that was recorded, or lost, is not recorded again.
LEMMA PendingOnce ==
  ASSUME Base, Rows, [Next]_vars, NEW p \in Procs
  PROVE  /\ row[p] # "absent" => ~Pending(p)
         /\ ~Pending(p) => ~Pending(p)'
<1>1. row[p] # "absent" => ~Pending(p)
  BY DEF Rows, RowSound, WriterPlaced, Pending
<1>2. ASSUME ~Pending(p) PROVE ~Pending(p)'
  <2>0. Requests /\ ManagerTypeOK /\ target \in [Reqs -> Procs \cup {NoProc}] /\ stage \in [Reqs -> Stages]
    BY DEF Base, Records, Requests, ReqTypeOK
  <2>1. rec'[p] # "none"
    BY <1>2, NextBase DEF Pending, RecEvolves
  <2>2. ASSUME NEW q \in Reqs, target'[q] = p, stage'[q] \in {"insert", "recordStart"} PROVE FALSE
    <3>1. ASSUME NEW r \in Reqs, HandlerStep(r) PROVE FALSE
      <4>1. CASE q # r
        <5>1. OthersKept(r)
          BY <2>0, <3>1, HandlerStepShape
        <5> QED
          BY <1>2, <2>2, <4>1, <5>1 DEF OthersKept, Pending
      <4>2. CASE q = r /\ StartProcess(r)
        <5>1. PICK x \in Procs : rec[x] = "none" /\ target' = [target EXCEPT ![r] = x]
          BY <4>2 DEF StartProcess, BackendStart
        <5> QED
          BY <1>2, <2>0, <2>2, <4>2, <5>1 DEF Pending
      <4>3. CASE q = r /\ InsertRecord(r)
        BY <1>2, <2>2, <4>3 DEF InsertRecord, Pending, At
      <4> QED
        BY <2>0, <2>2, <3>1, <4>1, <4>2, <4>3, StageEntered
    <3>2. CASE Forget
      BY <2>0, <2>2, <3>2, ForgetShape
    <3>3. CASE UNCHANGED reqVars
      BY <1>2, <2>2, <3>3 DEF reqVars, Pending
    <3> QED
      BY <3>1, <3>2, <3>3, RequestSteps
  <2> QED
    BY <2>1, <2>2 DEF Pending
<1> QED
  BY <1>1, <1>2

\* What one step does to one row: one disjunct per statement.
LEMMA RowSteps ==
  ASSUME Base, Rows, [Next]_vars, NEW p \in Procs
  PROVE  \/ UNCHANGED <<row[p], rowCode[p]>>
         \/ row[p] = "absent" /\ row'[p] = "open" /\ Pending(p)
         \/ row[p] # "absent" /\ row'[p] = "absent"
         \/ row[p] = "open" /\ row'[p] = "ended"
<1> DEFINE Goal ==
         \/ UNCHANGED <<row[p], rowCode[p]>>
         \/ row[p] = "absent" /\ row'[p] = "open" /\ Pending(p)
         \/ row[p] # "absent" /\ row'[p] = "absent"
         \/ row[p] = "open" /\ row'[p] = "ended"
<1> SUFFICES Goal
  OBVIOUS
<1>0. /\ row \in [Procs -> {"absent", "open", "ended"}] /\ rowCode \in [Procs -> Codes] /\ RowSound(p)
  BY AgentMainAssumption DEF Rows, HistoryTypeOK
<1>1. ASSUME NEW r \in Reqs, RecordTheStart(r) PROVE Goal
  <2>1. stage[r] = "recordStart" /\ target[r] \in Procs /\ RecordStart(target[r])
    BY <1>1 DEF RecordTheStart, At, Base, Requests, PlacedReq
  <2>2. row[target[r]] = "absent" /\ Pending(target[r])
    BY <2>1 DEF Rows, WriterPlaced, Pending
  <2>3. UNCHANGED rowCode /\ (UNCHANGED row \/ row' = [row EXCEPT ![target[r]] = "open"])
    BY <2>1 DEF RecordStart
  <2> QED
    BY <1>0, <2>1, <2>2, <2>3
<1>2. ASSUME NEW r \in Reqs, CommandWaited(r) \/ CommandTimeout(r) PROVE Goal
  BY <1>2 DEF CommandWaited, CommandTimeout
<1>3. ASSUME NEW e \in Procs, EndAwaited(e) PROVE Goal
  BY <1>3 DEF EndAwaited
<1>4. ASSUME NEW e \in Procs, RecordEndStep(e) PROVE Goal
  <2>1. CASE UpdateOk(e) /\ e = p
    BY <1>0, <2>1 DEF UpdateOk, RowSound
  <2>2. CASE UpdateOk(e) /\ e # p
    BY <1>0, <2>2 DEF UpdateOk
  <2>3. CASE UpdateBusy(e) \/ UpdateErr(e)
    BY <2>3 DEF UpdateBusy, UpdateErr
  <2> QED
    BY <1>4, <2>1, <2>2, <2>3 DEF RecordEndStep
<1>5. CASE PurgeOlderThan
  BY <1>0, <1>5, AgentMainAssumption DEF PurgeOlderThan
<1>6. CASE Forget \/ UNCHANGED historyVars
  BY <1>6 DEF Forget, historyVars
<1> HIDE DEF Goal
<1> QED
  BY <1>1, <1>2, <1>3, <1>4, <1>5, <1>6, HistorySteps

\* Whatever crashes, re-execs, purges and late writers do, the rows behave as ExecutionLog says.
THEOREM HistoryIsForwardOnly == Spec => ImplementsExecutionLog
<1>0. Execs = Procs
  BY AgentMainAssumption
<1>1. Init => Abstract!Init
  <2> SUFFICES ASSUME Init PROVE Abstract!Init
    OBVIOUS
  <2>1. \A e \in Execs : LogOf(e) = "none"
    BY <1>0 DEF Init, ManagerInit, HistoryInit, LogOf
  <2>2. rowCode = [e \in Execs |-> "nil"]
    BY DEF Init, HistoryInit
  <2> QED
    BY <2>1, <2>2 DEF Abstract!Init
<1>2. Base /\ Rows /\ Rows' /\ [Next]_vars => [Abstract!Next]_<<[e \in Execs |-> LogOf(e)], rowCode>>
  <2> SUFFICES ASSUME Base, Rows, Rows', [Next]_vars PROVE Abstract!Next
    OBVIOUS
  <2> SUFFICES ASSUME NEW e \in Execs
               PROVE  Abstract!Open(e) \/ Abstract!End(e) \/ Abstract!Purge(e) \/ Abstract!Keep(e)
    BY DEF Abstract!Next
  <2>1. /\ LogOf(e) = (IF row[e] # "absent" THEN row[e] ELSE IF Pending(e) THEN "none" ELSE "gone")
        /\ LogOf(e)' = (IF row'[e] # "absent" THEN row'[e] ELSE IF Pending(e)' THEN "none" ELSE "gone")
    BY DEF LogOf, Pending
  <2>2. /\ row[e] # "absent" => ~Pending(e)
        /\ ~Pending(e) => ~Pending(e)'
    BY <1>0, PendingOnce
  <2>3. /\ row[e] # "ended" => rowCode[e] = "nil"
        /\ row'[e] # "ended" => rowCode'[e] = "nil"
        /\ row[e] \in {"absent", "open", "ended"} /\ row'[e] \in {"absent", "open", "ended"}
    <3>1. RowSound(e) /\ RowSound(e)' /\ HistoryTypeOK /\ HistoryTypeOK'
      BY <1>0 DEF Rows
    <3> QED
      BY <3>1 DEF RowSound, HistoryTypeOK
  <2>4. \/ UNCHANGED <<row[e], rowCode[e]>>
        \/ row[e] = "absent" /\ row'[e] = "open" /\ Pending(e)
        \/ row[e] # "absent" /\ row'[e] = "absent"
        \/ row[e] = "open" /\ row'[e] = "ended"
    BY <1>0, RowSteps
  <2> DEFINE a == LogOf(e)
             b == LogOf(e)'
  <2>5. \/ a = "none" /\ b \in {"open", "gone"} /\ rowCode'[e] = "nil"
        \/ a = "open" /\ b = "ended"
        \/ a \in {"open", "ended"} /\ b = "gone" /\ rowCode'[e] = "nil"
        \/ b = a /\ rowCode'[e] = rowCode[e]
    BY <2>1, <2>2, <2>3, <2>4
  <2> HIDE DEF a, b
  <2>6. [x \in Execs |-> LogOf(x)][e] = a /\ [x \in Execs |-> LogOf(x)]'[e] = b
    BY DEF a, b
  <2> QED
    BY <2>5, <2>6 DEF Abstract!Open, Abstract!End, Abstract!Purge, Abstract!Keep
<1> QED
  BY <1>1, <1>2, AgentInvariance, RowsInvariance, PTL DEF Spec, ImplementsExecutionLog, Abstract!Spec

-----------------------------------------------------------------------------
(* The life of the Agent process. *)

LifeTypeOK ==
    /\ phase \in {"running", "stopping", "mgr", "sandboxMgr", "stopped"}
    /\ killer \in [Procs -> {"none", "sigterm", "poll", "done"}]
    /\ update \in {"idle", "verified", "replaced", "installed"}
    /\ crashes \in 0 .. MaxCrashes

\* The steps of the Agent, by what they do to its life.
LEMMA LifeSteps ==
  ASSUME [Next]_vars
  PROVE  \/ UNCHANGED lifeVars
         \/ \E p \in Procs : KillerStep(p)
         \/ Stop \/ RunReturns \/ NextManager \/ MainReturns
         \/ FetchUpdate \/ ReplaceBinary \/ ExecSelfErr \/ ExecSelf \/ Crash
<1>1. CASE UNCHANGED vars
  BY <1>1 DEF vars
<1> QED
  BY <1>1 DEF Next, MainStep

\* The phases, the killers and the updater keep their types.
LEMMA NextLifeType ==
  ASSUME LifeTypeOK, [Next]_vars
  PROVE  LifeTypeOK'
<1>0. MaxCrashes \in Nat
  BY AgentMainAssumption
<1>1. CASE UNCHANGED lifeVars
  BY <1>1 DEF lifeVars, LifeTypeOK
<1>2. ASSUME NEW p \in Procs, KillerStep(p) PROVE LifeTypeOK'
  BY <1>2 DEF KillerStep, LifeTypeOK
<1>3. CASE Stop \/ RunReturns \/ NextManager \/ MainReturns
  BY <1>3 DEF Stop, RunReturns, NextManager, MainReturns, KillersOf, LifeTypeOK
<1>4. CASE FetchUpdate \/ ReplaceBinary \/ ExecSelfErr
  BY <1>4 DEF FetchUpdate, ReplaceBinary, ExecSelfErr, LifeTypeOK
<1>5. CASE ExecSelf \/ Crash
  BY <1>0, <1>5 DEF ExecSelf, Crash, Forget, LifeTypeOK
<1> QED
  BY <1>1, <1>2, <1>3, <1>4, <1>5, LifeSteps

\* All variables have their types, for any number of processes and requests.
THEOREM AgentTypeCorrect == Spec => []TypeOK
<1>1. Init => LifeTypeOK
  BY AgentMainAssumption DEF Init, LifeTypeOK
<1>2. LifeTypeOK /\ [Next]_vars => LifeTypeOK'
  BY NextLifeType
<1>3. Base /\ Rows /\ LifeTypeOK => TypeOK
  <2> SUFFICES ASSUME Base, Rows, LifeTypeOK PROVE TypeOK
    OBVIOUS
  <2>1. TreeTypeOK /\ ManagerTypeOK /\ HistoryTypeOK /\ ReqTypeOK
    BY DEF Base, Records, TreeInv, Rows, Requests
  <2> QED
    BY <2>1 DEF TypeOK, ReqTypeOK, LifeTypeOK, Methods, Views
<1> QED
  BY <1>1, <1>2, <1>3, AgentInvariance, RowsInvariance, PTL DEF Spec

-----------------------------------------------------------------------------
(* The graceful stop. *)

\* The handlers are done and the processes are being killed, or were.
ClosingPhases == {"mgr", "sandboxMgr", "stopped"}

\* A group holds its number while a member lives or its leader was not waited for ...
Held(p) == InGroup(p) # {} \/ Zombie(p)

\* ... so that no two groups have the same: a signal to one does not depend on another.
OwnGroups == \A p, q \in Procs : Held(p) /\ Held(q) /\ pid[p] = pid[q] => p = q

\* Every process that has a record is over or has a killer once its Manager's TerminateAll began,
\* and a killer that is done leaves no member, unless it was not permitted to.
Cornered(p) ==
    /\ rec[p] = "lost" => InGroup(p) = {}
    /\ killer[p] # "none" => rec[p] # "none"
    /\ killer[p] = "done" /\ p \notin Foreign => InGroup(p) = {}
    /\ phase \in ClosingPhases /\ rec[p] # "none" /\ (~sandboxed[p] \/ phase # "mgr") =>
          killer[p] # "none" \/ Over(p)
    /\ phase = "stopped" => killer[p] \in {"none", "done"}

Closing ==
    /\ update = "idle"
    /\ phase \in ClosingPhases => HandlersDone
    /\ OwnGroups
    /\ \A p \in Procs : Cornered(p)

\* Only a handler that has begun starts a process.
LEMMA Newcomer ==
  ASSUME Base, [Next]_vars, NEW p \in Procs, rec[p] = "none", rec'[p] # "none"
  PROVE  rec'[p] = "wait" /\ Exec(p) /\ \E r \in Reqs : stage[r] = "begin"
<1>0. Requests /\ ManagerTypeOK
  BY DEF Base, Records
<1>1. ASSUME NEW r \in Reqs, StartProcess(r) PROVE rec'[p] = "wait" /\ Exec(p) /\ stage[r] = "begin"
  <2>1. PICK x \in Procs : BackendStart(x, Sandboxed(r))
    BY <1>1 DEF StartProcess
  <2>2. x = p
    BY <1>0, <2>1 DEF BackendStart, ManagerTypeOK
  <2> QED
    BY <1>0, <1>1, <2>1, <2>2 DEF BackendStart, ManagerTypeOK, StartProcess, At
<1>2. ASSUME NEW r \in Reqs, InsertRecord(r) \/ Find(r) \/ Receive(r) PROVE FALSE
  BY <1>2 DEF InsertRecord, Insert, Find, Receive, managerVars
<1>3. CASE Forget
  BY <1>0, <1>3, ForgetRecord
<1>4. CASE Quiet
  BY <1>4 DEF Quiet
<1> QED
  BY <1>0, <1>1, <1>2, <1>3, <1>4, OwnershipSteps

\* Only a new process image loses a record.
LEMMA LosesRecord ==
  ASSUME Base, [Next]_vars, NEW p \in Procs, rec[p] # "lost", rec'[p] = "lost"
  PROVE  Crash \/ ExecSelf
<1>0. Requests /\ ManagerTypeOK
  BY DEF Base, Records
<1>1. CASE UNCHANGED <<treeVars, managerVars>>
  BY <1>1 DEF managerVars
<1>2. ASSUME NEW x \in Procs, TreeStep(x) \/ WaitStep(x) PROVE FALSE
  BY <1>0, <1>2 DEF TreeStep, WaitStep, HandleWait, RemoveScratch, Drain, SetExit, CloseDone, managerVars,
                    ManagerTypeOK
<1>3. ASSUME NEW box \in BOOLEAN, Collect(box) PROVE FALSE
  BY <1>3 DEF Collect
<1>4. ASSUME NEW r \in Reqs, NEW x \in Procs, BackendStart(x, Sandboxed(r)) PROVE FALSE
  BY <1>0, <1>4 DEF BackendStart, ManagerTypeOK
<1>5. ASSUME NEW r \in Reqs, Insert(target[r]) PROVE FALSE
  BY <1>5 DEF Insert
<1>6. CASE UNCHANGED managerVars
  BY <1>6 DEF managerVars
<1> QED
  BY <1>0, <1>1, <1>2, <1>3, <1>4, <1>5, <1>6, ManagerSteps

\* A new process takes a free number, and the others keep theirs.
LEMMA NextOwnGroups ==
  ASSUME Base, OwnGroups, [Next]_vars
  PROVE  OwnGroups'
<1> SUFFICES ASSUME NEW p \in Procs, NEW q \in Procs, Held(p)', Held(q)', pid'[p] = pid'[q], p # q
             PROVE  FALSE
  BY DEF OwnGroups
<1>0. Base' /\ \A x \in Procs : RecEvolves(x)
  BY NextBase
<1>1. ASSUME NEW x \in Procs, Held(x)' PROVE rec'[x] # "none"
  <2>1. TreeOrdered(x)' /\ RecordSound(x)'
    BY <1>0 DEF Base, Records, TreeInv
  <2> QED
    BY <1>1, <2>1 DEF Held, InGroup, Zombie, TreeOrdered, RecordSound
<1>2. ASSUME NEW x \in Procs, rec[x] # "none", Held(x)' PROVE Held(x) /\ pid'[x] = pid[x]
  <2>1. TreeEvolves(x)
    BY <1>0, <1>2 DEF RecEvolves
  <2> QED
    BY <1>2, <2>1 DEF Held, InGroup, Zombie, TreeEvolves
<1>3. ASSUME NEW x \in Procs, NEW y \in Procs, x # y, rec[x] = "none", Held(x)', Held(y)', pid'[x] = pid'[y]
      PROVE  FALSE
  <2>1. Exec(x)
    BY <1>1, <1>3, Newcomer
  <2>2. PICK g \in FreePids : pid' = [pid EXCEPT ![x] = g]
    BY <2>1 DEF Exec
  <2>3. /\ alive' = [alive EXCEPT ![x] = {"leader"}] /\ UNCHANGED reaped
        /\ pid \in [Procs -> Pids \cup {NoPid}] /\ alive \in [Procs -> SUBSET Members]
    BY <2>1 DEF Exec, Base, Records, TreeInv, TreeTypeOK
  <2>4. pid[y] = g /\ alive'[y] = alive[y] /\ pid'[y] = pid[y] /\ reaped'[y] = reaped[y]
    BY <1>3, <2>2, <2>3
  <2>5. y \in GroupOf(g)
    BY <1>3, <2>4 DEF Held, InGroup, Zombie, GroupOf
  <2> QED
    BY <2>2, <2>5 DEF FreePids
<1> QED
  BY <1>2, <1>3 DEF OwnGroups

\* Once Run has returned no handler begins or goes on.
LEMMA HandlersStayDone ==
  ASSUME Base, Closing, [Next]_vars, phase' \in ClosingPhases
  PROVE  HandlersDone'
<1>0. Requests /\ ManagerTypeOK
  BY DEF Base, Records
<1>1. ASSUME HandlersDone, UNCHANGED stage PROVE HandlersDone'
  BY <1>1 DEF HandlersDone
<1>2. CASE UNCHANGED lifeVars
  <2>1. phase \in ClosingPhases /\ HandlersDone
    BY <1>2 DEF lifeVars, Closing
  <2>2. ASSUME NEW r \in Reqs, HandlerStep(r) PROVE FALSE
    <3>1. stage[r] \in {"idle", "done"}
      BY <2>1 DEF HandlersDone
    <3>2. Receive(r)
      BY <2>2, <3>1 DEF HandlerStep, ProcessStep, StdinTaken, ReadStep, Reject, StartProcess, InsertRecord,
                        RecordTheStart, CommandWaited, CommandTimeout, EndRecorded, Reply, Find, Waiting,
                        StdinErr, Lookup, HandlerTerminate, ListMgr, ListSandboxMgr, Summarise, ListReply,
                        ReadHistory, At
    <3> QED
      BY <2>1, <3>2 DEF Receive, ClosingPhases
  <2>3. CASE Forget
    BY <2>3, ForgetShape, <1>0 DEF HandlersDone
  <2>4. CASE UNCHANGED reqVars
    BY <1>1, <2>1, <2>4 DEF reqVars
  <2> QED
    BY <2>2, <2>3, <2>4, RequestSteps
<1>3. ASSUME NEW p \in Procs, KillerStep(p) PROVE HandlersDone'
  BY <1>1, <1>3 DEF KillerStep, Closing, reqVars
<1>4. CASE RunReturns \/ NextManager \/ MainReturns
  BY <1>1, <1>4 DEF RunReturns, NextManager, MainReturns, Closing, ClosingPhases, reqVars
<1>5. CASE FetchUpdate \/ ReplaceBinary \/ ExecSelfErr
  BY <1>1, <1>5 DEF FetchUpdate, ReplaceBinary, ExecSelfErr, Closing, reqVars
<1>6. CASE Stop \/ ExecSelf \/ Crash
  BY <1>6 DEF Stop, ExecSelf, Crash, Forget, ClosingPhases
<1> QED
  BY <1>2, <1>3, <1>4, <1>5, <1>6, LifeSteps

\* handle.Terminate in a goroutine of TerminateAll ends with the group, or with EPERM.
LEMMA KillerIsThorough ==
  ASSUME Base, Closing, LifeTypeOK, NEW p \in Procs, KillerStep(p)
  PROVE  /\ killer'[p] = "done" /\ p \notin Foreign => InGroup(p)' = {}
         /\ killer[p] # "none" /\ killer'[p] # "none"
         /\ \A q \in Procs \ {p} : killer'[q] = killer[q]
<1>0. TreeInv /\ killer \in [Procs -> {"none", "sigterm", "poll", "done"}] /\ OwnGroups
  BY DEF Base, Records, LifeTypeOK, Closing
<1>1. CASE killer[p] = "sigterm" /\ killer' = [killer EXCEPT ![p] = "poll"]
  BY <1>0, <1>1
<1>2. CASE killer[p] = "poll" /\ (GroupGone(p) \/ SendKill(p)) /\ killer' = [killer EXCEPT ![p] = "done"]
  <2>1. InGroup(p)' = {}
    <3>1. CASE GroupGone(p)
      BY <1>0, <3>1, NoGroupNobody, TreeStutter DEF GroupGone
    <3>2. CASE SendKill(p)
      <4>1. Signal(p, {}) /\ {} \in SUBSET {"leader", "child"}
        BY <3>2 DEF SendKill
      <4> QED
        BY <1>0, <4>1, SignalStep
    <3> QED
      BY <1>2, <3>1, <3>2
  <2> QED
    BY <1>0, <1>2, <2>1
<1>3. CASE /\ killer[p] \in {"sigterm", "poll"} /\ SignalRefused(p) /\ UNCHANGED treeVars
           /\ killer' = [killer EXCEPT ![p] = "done"]
  <2>1. PICK q \in Foreign : q \in Procs /\ Held(q) /\ pid[q] = pid[p]
    BY <1>3 DEF SignalRefused, GroupOf, Held
  <2>2. InGroup(p) # {} => p = q
    BY <1>0, <2>1 DEF OwnGroups, Held
  <2>3. InGroup(p)' = InGroup(p)
    BY <1>0, <1>3, TreeStutter
  <2> QED
    BY <1>0, <1>3, <2>1, <2>2, <2>3
<1> QED
  BY <1>1, <1>2, <1>3 DEF KillerStep

\* TerminateAll leaves out only records that are over.
LEMMA TerminateAllCovers ==
  ASSUME Base, HandlersDone, NEW box \in BOOLEAN, killer' = KillersOf(box), LifeTypeOK,
         NEW p \in Procs, rec[p] # "none"
  PROVE  /\ sandboxed[p] = box => killer'[p] # "none" \/ Over(p)
         /\ killer[p] # "none" => killer'[p] # "none"
         /\ killer'[p] = "done" => killer[p] = "done"
<1>1. killer'[p] = IF listed[p] /\ sandboxed[p] = box /\ ~Exited(p) THEN "sigterm" ELSE killer[p]
  BY DEF KillersOf
<1>2. ~listed[p] => Over(p)
  BY DEF Base, Ownership, Unlisted, HandlersDone
<1>3. Exited(p) => Over(p)
  BY DEF Exited, Over
<1>4. listed[p] \in BOOLEAN /\ sandboxed[p] \in BOOLEAN
  BY DEF Base, Records, ManagerTypeOK
<1> QED
  BY <1>1, <1>2, <1>3, <1>4

\* One step per step of the life.
LEMMA NextCornered ==
  ASSUME Base, Closing, LifeTypeOK, [Next]_vars, NEW p \in Procs
  PROVE  Cornered(p)'
<1> DEFINE Goal == Cornered(p)'
<1> SUFFICES Goal
  OBVIOUS
<1>0. /\ Cornered(p) /\ update = "idle" /\ (phase \in ClosingPhases => HandlersDone)
      /\ Base' /\ RecEvolves(p) /\ sandboxed[p] \in BOOLEAN
  BY NextBase DEF Closing, Base, Records, ManagerTypeOK
<1>a. ~ExecSelf
  BY <1>0 DEF ExecSelf
<1>b. InGroup(p) = {} /\ rec[p] # "none" => InGroup(p)' = {}
  BY <1>0 DEF RecEvolves, TreeEvolves
<1>c. rec[p] = "none" /\ rec'[p] # "none" => rec'[p] = "wait" /\ ~HandlersDone
  BY Newcomer DEF HandlersDone
<1>1. CASE Crash
  <2>1. alive'[p] = {} /\ killer'[p] = "none" /\ phase' = "running"
    BY <1>1, CrashTree DEF Crash, Forget, Base, Records
  <2> QED
    BY <2>1 DEF Cornered, InGroup, ClosingPhases
<1>2. CASE ~Crash
  <2>1. rec'[p] = "lost" => rec[p] = "lost"
    BY <1>2, <1>a, LosesRecord
  <2>2. ASSUME killer'[p] # "none" => killer[p] # "none", killer[p] # "none" => killer'[p] # "none",
               killer'[p] = "done" => killer[p] = "done", phase' = phase, phase = "stopped" => killer'[p] = killer[p]
        PROVE  Goal
    BY <1>0, <1>b, <1>c, <2>1, <2>2 DEF Cornered, RecEvolves, Over
  <2>3. CASE UNCHANGED lifeVars
    BY <2>2, <2>3 DEF lifeVars
  <2>4. ASSUME NEW x \in Procs, KillerStep(x) PROVE Goal
    <3>1. UNCHANGED <<phase, rec, sandboxed>> /\ phase # "stopped"
      <4>1. Cornered(x) /\ killer[x] \in {"sigterm", "poll"}
        BY <2>4 DEF KillerStep, Closing
      <4> QED
        BY <2>4, <4>1 DEF KillerStep, managerVars, Cornered
    <3>2. /\ killer'[x] = "done" /\ x \notin Foreign => InGroup(x)' = {}
          /\ killer[x] # "none" /\ killer'[x] # "none"
          /\ \A q \in Procs \ {x} : killer'[q] = killer[q]
      BY <2>4, KillerIsThorough
    <3>3. CASE p = x
      BY <1>0, <1>b, <3>1, <3>2, <3>3 DEF Cornered, Over
    <3>4. CASE p # x
      <4>1. killer'[p] = killer[p]
        BY <3>2, <3>4
      <4> QED
        BY <2>2, <3>1, <4>1
    <3> QED
      BY <3>3, <3>4
  <2>5. CASE Stop
    <3>1. phase' = "stopping" /\ UNCHANGED <<killer, rec>> /\ InGroup(p)' = InGroup(p)
      BY <2>5, TreeStutter DEF Stop, managerVars, Base, Records
    <3> QED
      BY <1>0, <3>1 DEF Cornered, ClosingPhases
  <2>6. ASSUME NEW box \in BOOLEAN, HandlersDone, killer' = KillersOf(box), UNCHANGED <<treeVars, managerVars>>,
               \/ phase' = "mgr" /\ ~box
               \/ phase = "mgr" /\ phase' = "sandboxMgr" /\ box
        PROVE  Goal
    <3>1. UNCHANGED <<rec, sandboxed, listed>> /\ InGroup(p)' = InGroup(p)
      BY <2>6, TreeStutter DEF managerVars, Base, Records
    <3>2. rec[p] # "none" =>
            /\ sandboxed[p] = box => killer'[p] # "none" \/ Over(p)
            /\ killer[p] # "none" => killer'[p] # "none"
            /\ killer'[p] = "done" => killer[p] = "done"
      BY <2>6, TerminateAllCovers
    <3>3. rec[p] = "none" => killer'[p] = "none"
      <4>1. RecordSound(p)
        BY DEF Base, Records
      <4> QED
        BY <1>0, <2>6, <4>1 DEF KillersOf, RecordSound, Cornered
    <3> QED
      BY <1>0, <2>6, <3>1, <3>2, <3>3 DEF Cornered, Over, ClosingPhases
  <2>7. CASE RunReturns
    BY <2>6, <2>7 DEF RunReturns
  <2>8. CASE NextManager
    BY <1>0, <2>6, <2>8 DEF NextManager, ClosingPhases
  <2>9. CASE MainReturns
    <3>1. /\ phase = "sandboxMgr" /\ phase' = "stopped" /\ UNCHANGED <<killer, rec, sandboxed>>
          /\ InGroup(p)' = InGroup(p) /\ killer[p] \in {"none", "done"}
      BY <2>9, TreeStutter DEF MainReturns, KillersDone, managerVars, Base, Records
    <3> QED
      BY <1>0, <3>1 DEF Cornered, Over, ClosingPhases
  <2>10. CASE FetchUpdate \/ ReplaceBinary \/ ExecSelfErr
    BY <2>2, <2>10 DEF FetchUpdate, ReplaceBinary, ExecSelfErr
  <2> HIDE DEF Goal
  <2> QED
    BY <1>2, <1>a, <2>3, <2>4, <2>5, <2>7, <2>8, <2>9, <2>10, LifeSteps
<1> QED
  BY <1>1, <1>2

\* A graceful stop leaves no member of the group of a process that was not already reported as
\* finished, whatever handlers, processes, collectors and crashes did before.  Updates are left out:
\* the image that a re-exec starts does not know the processes of the old one.
THEOREM StopIsThorough ==
  ASSUME AutoUpdate = FALSE
  PROVE  Spec => []KillBoundary
<1>1. Init => Closing /\ LifeTypeOK
  <2> SUFFICES ASSUME Init PROVE Closing /\ LifeTypeOK
    OBVIOUS
  <2>1. LifeTypeOK /\ update = "idle" /\ phase \notin ClosingPhases
    BY AgentMainAssumption DEF Init, LifeTypeOK, ClosingPhases
  <2>2. \A p \in Procs : InGroup(p) = {} /\ ~Zombie(p) /\ killer[p] = "none"
    BY DEF Init, TreeInit, InGroup, Zombie
  <2> QED
    BY <2>1, <2>2 DEF Closing, OwnGroups, Held, Cornered, ClosingPhases
<1>2. Base /\ Closing /\ LifeTypeOK /\ [Next]_vars => Closing' /\ LifeTypeOK'
  <2> SUFFICES ASSUME Base, Closing, LifeTypeOK, [Next]_vars PROVE Closing' /\ LifeTypeOK'
    OBVIOUS
  <2>1. update' = "idle"
    BY LifeSteps
    DEF Closing, lifeVars, KillerStep, Stop, RunReturns, NextManager, MainReturns, FetchUpdate, ReplaceBinary,
        ExecSelfErr, ExecSelf, Crash
  <2>2. OwnGroups'
    BY NextOwnGroups DEF Closing
  <2>3. LifeTypeOK'
    BY NextLifeType
  <2> QED
    BY <2>1, <2>2, <2>3, HandlersStayDone, NextCornered DEF Closing
<1>3. Base /\ Closing => KillBoundary
  <2> SUFFICES ASSUME Base, Closing, phase = "stopped", NEW p \in Procs \ Foreign
               PROVE  InGroup(p) = {} \/ (killer[p] = "none" /\ Finished(p))
    BY DEF KillBoundary
  <2>1. Cornered(p) /\ RecordSound(p) /\ TreeOrdered(p)
    BY DEF Closing, Base, Records, TreeInv
  <2>2. rec[p] = "none" => InGroup(p) = {}
    BY <2>1 DEF RecordSound, TreeOrdered, InGroup
  <2> QED
    BY <2>1, <2>2 DEF Cornered, ClosingPhases, Over, Finished
<1> QED
  BY <1>1, <1>2, <1>3, AgentInvariance, PTL DEF Spec
=============================================================================
