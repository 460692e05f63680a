----------------------------- MODULE ReadQuery -----------------------------
(***************************************************************************)
(* agent/read_query.go and gateway/read_query_tools.go: the fixed read     *)
(* operations.  A tool makes the parameters, the handler checks them and   *)
(* either asks GitHub or runs one host utility with exec.Cmd, whose Run is *)
(* a handful of goroutines: Process.Wait, the watcher of the context, the  *)
(* copier of the output and the timer of WaitDelay (external, from os/exec *)
(* as the handler sets it up).  One of the two output streams is modelled. *)
(***************************************************************************)
EXTENDS ProcessTree

CONSTANTS
    query,          \* the process of the query
    Counts,         \* limit, tail, lines and number as callers give them; 0: not given
    Hours,          \* since, in hours: a duration, or how long ago a timestamp is
    Limit,          \* proto.MaxCommandOutputBytes
    MaxWritten      \* bound on the bytes the query's processes write

Unset == -100
Malformed == -99

ASSUME ReadQueryAssumption ==
    /\ query \in Procs
    /\ Counts \subseteq Int /\ 0 \in Counts
    /\ Hours \subseteq Int \ {Unset, Malformed}
    /\ Limit \in Nat /\ MaxWritten \in Nat

VARIABLES
    stage,          \* where the handler is
    req,            \* ReadQueryParams
    ctx,            \* its context: live, deadline (readQueryTimeout) or canceled (the Agent stops)
    watch,          \* the watcher: off, armed, fired (Cancel was called), expired (WaitDelay passed)
    runErr,         \* the error of cmd.Run
    pipe,           \* the read end of the output: open, eof or closed
    written,        \* bytes written to it
    copied,         \* bytes passed to limitedOutput
    buffer,         \* bytes limitedOutput holds
    truncated,
    cut,            \* an observation: the leader lived when Cancel was called
    res             \* the response

handlerVars == <<stage, req, res>>
outVars == <<pipe, written, copied, buffer, truncated>>
vars == <<treeVars, handlerVars, outVars, ctx, watch, runErr, cut>>

-----------------------------------------------------------------------------
(* The tools: which parameters each has. *)

Fields ==
    [git_status |-> {"dir"}, git_diff |-> {"dir", "pathspec"}, git_log |-> {"dir", "pathspec", "count"},
     docker_ps |-> {"count"}, docker_inspect |-> {"selector"},
     docker_logs |-> {"selector", "count", "since"},
     systemd_status |-> {"selector"}, systemd_units |-> {},
     journal_query |-> {"selector", "count", "since"},
     tmux_sessions |-> {}, tmux_panes |-> {"selector"}, tmux_capture |-> {"selector", "count"},
     github_repo |-> {"selector"}, github_issue |-> {"selector", "number"},
     github_pull_request |-> {"selector", "number"}]

Operations == DOMAIN Fields

\* dir, pathspec and selector: whether the string passes its check.
Requests ==
    {q \in [op : Operations, dir : BOOLEAN, pathspec : BOOLEAN, selector : BOOLEAN,
            count : Counts, number : Counts, since : Hours \cup {Unset, Malformed}] :
        LET has(f) == f \in Fields[q.op] IN
        /\ ~has("dir") => q.dir
        /\ ~has("pathspec") => q.pathspec
        /\ ~has("selector") => q.selector
        /\ ~has("count") => q.count = 0
        /\ ~has("number") => q.number = 0
        /\ ~has("since") => q.since = Unset}

NoReq ==
    [op |-> "none", dir |-> TRUE, pathspec |-> TRUE, selector |-> TRUE, count |-> 0,
     number |-> 0, since |-> Unset]

NoRes == [code |-> "none", exit |-> Unset, timedOut |-> FALSE, out |-> 0, truncated |-> FALSE]

isGitHubReadQuery(op) == op \in {"github_repo", "github_issue", "github_pull_request"}

\* Mutant of boundedInteger: the maximum itself is refused.
boundedBelow(v, default, max) == IF v = 0 THEN default ELSE IF v < 1 \/ v >= max THEN Unset ELSE v

\* Unset stands for the error, here and below.
boundedInteger(v, default, max) == IF v = 0 THEN default ELSE IF v < 1 \/ v > max THEN Unset ELSE v

boundedDuration(v, default, max) ==
    IF v = Unset THEN default ELSE IF v = Malformed \/ v <= 0 \/ v > max THEN Unset ELSE v

\* A timestamp v hours ago.
boundedJournalSince(v) ==
    IF v = Unset THEN 1 ELSE IF v = Malformed \/ v < 0 \/ v > 720 THEN Unset ELSE v

\* How many lines, and since when, the command asks for; 0 where it has no such argument.
Lines(q) ==
    CASE q.op = "git_log" -> boundedInteger(q.count, 20, 200)
      [] q.op \in {"docker_ps", "docker_logs", "journal_query", "tmux_capture"} ->
            boundedInteger(q.count, 100, 500)
      [] OTHER -> 0

Since(q) ==
    CASE q.op = "docker_logs" -> boundedDuration(q.since, 1, 168)
      [] q.op = "journal_query" -> boundedJournalSince(q.since)
      [] OTHER -> 0

\* buildReadQueryCommand and the checks of queryGitHub.
Builds(q) ==
    /\ q.dir /\ q.pathspec /\ q.selector
    /\ Lines(q) # Unset /\ Since(q) # Unset
    /\ q.op \in {"github_issue", "github_pull_request"} => q.number >= 1

-----------------------------------------------------------------------------
Init ==
    /\ TreeInit
    /\ stage = "idle" /\ req = NoReq /\ res = NoRes
    /\ ctx = "live" /\ watch = "off" /\ runErr = "none" /\ cut = FALSE
    /\ pipe = "open" /\ written = 0 /\ copied = 0 /\ buffer = 0 /\ truncated = FALSE

Respond(x) == stage' = "done" /\ res' = x
Refuse(code) == Respond([NoRes EXCEPT !.code = code])

Receive ==
    /\ stage = "idle"
    /\ stage' = "begin"
    /\ req' \in Requests
    /\ UNCHANGED <<treeVars, outVars, ctx, watch, runErr, cut, res>>

\* Query.  A command takes its arguments along; what follows is the same for all of them.
Query ==
    /\ stage = "begin"
    /\ req' = NoReq
    /\ IF ~Builds(req) THEN Refuse("invalid_request")
       ELSE /\ stage' = IF isGitHubReadQuery(req.op) THEN "github" ELSE "start"
            /\ UNCHANGED res
    /\ UNCHANGED <<treeVars, outVars, ctx, watch, runErr, cut>>

\* queryGitHub: a whole, well-formed response within the limit, or an error; a redirect to
\* another host is not followed and is not a 200 either.
QueryGitHub ==
    /\ stage = "github"
    /\ \/ ctx = "live" /\ Respond([NoRes EXCEPT !.code = "ok", !.exit = 0])
       \/ Refuse("internal_error")
    /\ UNCHANGED <<treeVars, outVars, req, ctx, watch, runErr, cut>>

\* The Agent stops; readQueryTimeout passes.
Canceled ==
    /\ ctx = "live" /\ stage \notin {"idle", "begin", "done"}
    /\ ctx' = "canceled"
    /\ UNCHANGED <<treeVars, handlerVars, outVars, watch, runErr, cut>>

Deadline ==
    /\ ctx = "live" /\ stage \notin {"idle", "begin", "github", "done"}
    /\ ctx' = "deadline"
    /\ UNCHANGED <<treeVars, handlerVars, outVars, watch, runErr, cut>>

-----------------------------------------------------------------------------
(* cmd.Run. *)

\* The utility is not installed, cannot be executed, or the context is done already.
StartErr ==
    /\ stage = "start"
    /\ runErr' \in {"not_found"} \cup IF ctx = "live" THEN {"start"} ELSE {"ctx"}
    /\ stage' = "classify"
    /\ UNCHANGED <<treeVars, outVars, req, res, ctx, watch, cut>>

Start ==
    /\ stage = "start" /\ ctx = "live"
    /\ Exec(query)
    /\ stage' = "running"
    /\ watch' = "armed"
    /\ UNCHANGED <<outVars, req, res, ctx, runErr, cut>>

\* The processes of the query.
Tree ==
    /\ \/ \E how \in Endings : LeaderExit(query, how)
       \/ Fork(query) \/ Detach(query) \/ ChildExit(query)
    /\ UNCHANGED <<handlerVars, outVars, ctx, watch, runErr, cut>>

Output ==
    /\ alive[query] # {} /\ pipe = "open" /\ written < MaxWritten
    /\ written' = written + 1
    /\ UNCHANGED <<treeVars, handlerVars, pipe, copied, buffer, truncated, ctx, watch, runErr, cut>>

\* Mutant of LimitedOutput: output that just fits counts as too much.
LimitedOutputFull(n) ==
    /\ buffer' = IF buffer + n > Limit THEN Limit ELSE buffer + n
    /\ truncated' = (truncated \/ buffer + n >= Limit)

\* limitedOutput.Write takes what fits and says that it took everything.
LimitedOutput(n) ==
    /\ buffer' = IF buffer + n > Limit THEN Limit ELSE buffer + n
    /\ truncated' = (truncated \/ buffer + n > Limit)

Copy ==
    /\ pipe = "open"
    /\ \E n \in 1 .. written - copied : copied' = copied + n /\ LimitedOutput(n)
    /\ UNCHANGED <<treeVars, handlerVars, pipe, written, ctx, watch, runErr, cut>>

\* Everybody who could write is gone.
CopyEnds ==
    /\ pipe = "open" /\ stage \in {"running", "reaped", "draining"}
    /\ alive[query] = {} /\ copied = written
    /\ pipe' = "eof"
    /\ UNCHANGED <<treeVars, handlerVars, written, copied, buffer, truncated, ctx, watch, runErr, cut>>

\* Mutant of Kill: only the leader is killed.
KillLeader == Signal(query, {"child"})

\* Cancel: the whole group is killed; ESRCH says that there is none.
Kill == Signal(query, {})

\* The watcher sees the context done and calls Cancel; then WaitDelay runs.
WatchFires ==
    /\ watch = "armed" /\ ctx # "live" /\ stage \in {"running", "reaped"}
    /\ Kill
    /\ watch' = "fired"
    /\ cut' = ("leader" \in alive[query])
    /\ UNCHANGED <<handlerVars, outVars, ctx, runErr>>

\* WaitDelay passes before Process.Wait has returned: the pipe is closed.
WatchExpires ==
    /\ watch = "fired" /\ stage \in {"running", "reaped"}
    /\ watch' = "expired"
    /\ pipe' = IF pipe = "open" THEN "closed" ELSE pipe
    /\ UNCHANGED <<treeVars, handlerVars, written, copied, buffer, truncated, ctx, runErr, cut>>

\* Process.Wait returns.
Wait ==
    /\ stage = "running"
    /\ Waited(query)
    /\ stage' = "reaped"
    /\ runErr' = IF status[query] = "exit0" THEN "none" ELSE "exit"
    /\ UNCHANGED <<req, res, outVars, ctx, watch, cut>>

\* The watcher hands over: it has nothing to say, or says that the context is done (not after an
\* ESRCH, which makes no difference: the context is looked at first).
WatchResult ==
    /\ stage = "reaped"
    /\ stage' = "draining"
    /\ runErr' = IF watch # "armed" /\ runErr = "none" THEN "ctx" ELSE runErr
    /\ watch' = "off"
    /\ UNCHANGED <<treeVars, req, res, outVars, ctx, cut>>

Drained ==
    /\ stage = "draining" /\ pipe # "open"
    /\ stage' = "classify"
    /\ UNCHANGED <<treeVars, req, res, outVars, ctx, watch, runErr, cut>>

\* Mutant of DrainExpires: WaitDelay is not set.
DrainForever == FALSE

\* WaitDelay passes while somebody still holds the pipe: it is closed, and a good exit becomes
\* ErrWaitDelay.
DrainExpires ==
    /\ stage = "draining" /\ pipe = "open"
    /\ pipe' = "closed"
    /\ stage' = "classify"
    /\ runErr' = IF runErr = "none" THEN "wait_delay" ELSE runErr
    /\ UNCHANGED <<treeVars, req, res, written, copied, buffer, truncated, ctx, watch, cut>>

-----------------------------------------------------------------------------
\* ProcessState.ExitCode: -1 for a signal.
ExitCode ==
    CASE status[query] = "exit0" -> 0
      [] status[query] = "signal" -> -1
      [] OTHER -> 1

\* What the context, then the error of Run, make of the output.
Outcome ==
    LET result == [NoRes EXCEPT !.code = "ok", !.out = buffer, !.truncated = truncated]
    IN  CASE ctx = "deadline" -> [result EXCEPT !.timedOut = TRUE]
          [] ctx = "canceled" -> [result EXCEPT !.code = "timeout"]
          [] ctx = "live" /\ runErr = "none" -> [result EXCEPT !.exit = 0]
          [] ctx = "live" /\ runErr = "exit" -> [result EXCEPT !.exit = ExitCode]
          [] ctx = "live" /\ runErr = "not_found" -> [NoRes EXCEPT !.code = "unsupported"]
          [] OTHER -> [NoRes EXCEPT !.code = "internal_error"]

Classify ==
    /\ stage = "classify"
    /\ Respond(Outcome)
    /\ UNCHANGED <<treeVars, req, outVars, ctx, watch, runErr, cut>>

-----------------------------------------------------------------------------
Handler ==
    \/ Query \/ QueryGitHub \/ StartErr \/ Start \/ Wait \/ WatchResult
    \/ Drained \/ DrainExpires \/ Classify

Watcher == WatchFires \/ WatchExpires

Next ==
    \/ Receive \/ Handler \/ Watcher \/ Canceled \/ Deadline
    \/ Tree \/ Output \/ Copy \/ CopyEnds

Spec == Init /\ [][Next]_vars

\* Goroutines are scheduled, timers fire, and the HTTP client has a timeout of its own.
\* Nothing is assumed of the processes: a utility may hang, and leave children behind.
FairSpec ==
    /\ Spec
    /\ WF_vars(Handler) /\ WF_vars(Watcher) /\ WF_vars(Deadline)

-----------------------------------------------------------------------------
(* Properties. *)

\* The bounds the tool descriptions give (read_query_tools.go:95-132): the most lines, the
\* default, and the farthest since in hours.
Documented ==
    [git_log |-> <<200, 20, 0>>, docker_ps |-> <<500, 100, 0>>, docker_logs |-> <<500, 100, 168>>,
     journal_query |-> <<500, 100, 720>>, tmux_capture |-> <<500, 100, 0>>]

\* A request is accepted exactly when its values are in the range its tool's description gives,
\* the ends included, and the command then asks for what the caller or else the description says.
BoundsAsDescribed ==
    stage = "begin" /\ req.op \in DOMAIN Documented =>
        LET d == Documented[req.op]
            fits == req.count \in 0 .. d[1]
            recent == req.since = Unset \/ req.since \in (IF req.op = "docker_logs" THEN 1 ELSE 0) .. d[3]
        IN  /\ Builds(req) <=> (fits /\ recent /\ req.dir /\ req.pathspec /\ req.selector)
            /\ fits => Lines(req) = (IF req.count = 0 THEN d[2] ELSE req.count)

\* Whatever the utility does, hang, fork, or leave a child that keeps the output open, the query is
\* answered: the deadline kills it and WaitDelay ends the wait for its output (read_query.go:367).
QueryReturns == stage = "begin" ~> stage = "done"

\* A query that was cut short leaves nobody of its group behind when it answers, and gives no
\* exit code; only a child that left the group may survive (read_query.go:357).
CutShortMeansGone ==
    stage = "done" /\ cut => InGroup(query) = {} /\ res.exit = Unset

\* A result is honest about its output: it holds the first Limit bytes, says "truncated" exactly
\* when there were more; and exit code 0 is given only when everything that was written has been
\* read and nobody is left who could write more.
OutputHonest ==
    stage = "done" /\ res.code = "ok" /\ pid[query] # NoPid =>
        /\ res.out = IF copied > Limit THEN Limit ELSE copied
        /\ res.truncated <=> copied > Limit
        /\ res.exit = 0 => copied = written /\ alive[query] = {}
=============================================================================
