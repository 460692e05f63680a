---------------------------- MODULE QueryProofs ----------------------------
(***************************************************************************)
(* Proofs about ReadQuery: its three safety invariants, for every set of   *)
(* parameter values, every limit and every process tree.                   *)
(***************************************************************************)
EXTENDS ReadQuery, TreeProofs

-----------------------------------------------------------------------------
(* The bounds of the parameters. *)

\* A handler that is about to check its parameters has those some tool makes.
Asked == stage = "begin" => req \in Requests

\* What a description promises of one tool follows from the checks of its parameters.
LEMMA BoundsOf ==
  ASSUME NEW q \in Requests, q.op \in DOMAIN Documented
  PROVE  LET d == Documented[q.op]
             fits == q.count \in 0 .. d[1]
             recent == q.since = Unset \/ q.since \in (IF q.op = "docker_logs" THEN 1 ELSE 0) .. d[3]
         IN  /\ Builds(q) <=> (fits /\ recent /\ q.dir /\ q.pathspec /\ q.selector)
             /\ fits => Lines(q) = (IF q.count = 0 THEN d[2] ELSE q.count)
<1>1. /\ q.dir \in BOOLEAN /\ q.pathspec \in BOOLEAN /\ q.selector \in BOOLEAN
      /\ q.count \in Int /\ q.since \in Int
  <2>1. q \in [op : Operations, dir : BOOLEAN, pathspec : BOOLEAN, selector : BOOLEAN,
                count : Counts, number : Counts, since : Hours \cup {Unset, Malformed}]
    BY DEF Requests
  <2>2. /\ q.dir \in BOOLEAN /\ q.pathspec \in BOOLEAN /\ q.selector \in BOOLEAN
        /\ q.count \in Counts /\ q.since \in Hours \cup {Unset, Malformed}
    BY <2>1
  <2>3. ASSUME NEW n \in Counts, NEW t \in Hours \cup {Unset, Malformed} PROVE n \in Int /\ t \in Int
    BY ReadQueryAssumption DEF Unset, Malformed
  <2> QED
    BY <2>2, <2>3
<1>2. q.op \in {"git_log", "docker_ps", "docker_logs", "journal_query", "tmux_capture"}
  BY DEF Documented
<1>3. PICK n \in Int, t \in Int : n = q.count /\ t = q.since
  BY <1>1
<1>4. CASE q.op = "git_log"
  <2>1. Documented[q.op] = <<200, 20, 0>>
    BY <1>4 DEF Documented
  <2>2. t = Unset
    BY <1>3, <1>4 DEF Requests, Fields
  <2>3. Lines(q) = boundedInteger(n, 20, 200) /\ Since(q) = 0
    BY <1>3, <1>4 DEF Lines, Since
  <2> QED
    BY <1>1, <1>3, <1>4, <2>1, <2>2, <2>3 DEF Builds, boundedInteger, Unset
<1>5. CASE q.op \in {"docker_ps", "tmux_capture"}
  <2>1. Documented[q.op] = <<500, 100, 0>>
    BY <1>5 DEF Documented
  <2>2. t = Unset
    BY <1>3, <1>5 DEF Requests, Fields
  <2>3. Lines(q) = boundedInteger(n, 100, 500) /\ Since(q) = 0
    BY <1>3, <1>5 DEF Lines, Since
  <2> QED
    BY <1>1, <1>3, <1>5, <2>1, <2>2, <2>3 DEF Builds, boundedInteger, Unset
<1>6. CASE q.op = "docker_logs"
  <2>1. Documented[q.op] = <<500, 100, 168>>
    BY <1>6 DEF Documented
  <2>3. Lines(q) = boundedInteger(n, 100, 500) /\ Since(q) = boundedDuration(t, 1, 168)
    BY <1>3, <1>6 DEF Lines, Since
  <2>4. boundedDuration(t, 1, 168) # Unset <=> t = Unset \/ t \in 1 .. 168
    BY DEF boundedDuration, Unset, Malformed
  <2> QED
    BY <1>1, <1>3, <1>6, <2>1, <2>3, <2>4 DEF Builds, boundedInteger, Unset
<1>7. CASE q.op = "journal_query"
  <2>1. Documented[q.op] = <<500, 100, 720>>
    BY <1>7 DEF Documented
  <2>3. Lines(q) = boundedInteger(n, 100, 500) /\ Since(q) = boundedJournalSince(t)
    BY <1>3, <1>7 DEF Lines, Since
  <2>4. boundedJournalSince(t) # Unset <=> t = Unset \/ t \in 0 .. 720
    BY DEF boundedJournalSince, Unset, Malformed
  <2> QED
    BY <1>1, <1>3, <1>7, <2>1, <2>3, <2>4 DEF Builds, boundedInteger, Unset
<1> QED
  BY <1>2, <1>4, <1>5, <1>6, <1>7

\* Whatever value a caller gives, the handler accepts exactly the documented range, ends included,
\* and asks for the documented default where none is given.
THEOREM QueryBoundsAsDescribed == Spec => []BoundsAsDescribed
<1>1. Init => Asked
  BY DEF Init, Asked
<1>2. Asked /\ [Next]_vars => Asked'
  <2> SUFFICES ASSUME Asked, [Next]_vars PROVE Asked'
    OBVIOUS
  <2>1. CASE UNCHANGED <<stage, req>>
    BY <2>1 DEF Asked
  <2>2. CASE Receive
    BY <2>2 DEF Receive, Asked
  <2>3. CASE Handler
    BY <2>3 DEF Handler, Query, QueryGitHub, StartErr, Start, Wait, WatchResult, Drained, DrainExpires,
                Classify, Respond, Refuse, Asked
  <2> QED
    BY <2>1, <2>2, <2>3 DEF Next, vars, handlerVars, Watcher, WatchFires, WatchExpires, Canceled,
                            Deadline, Tree, Output, Copy, CopyEnds
<1>3. Asked => BoundsAsDescribed
  BY BoundsOf DEF Asked, BoundsAsDescribed
<1> QED
  BY <1>1, <1>2, <1>3, PTL DEF Spec

-----------------------------------------------------------------------------
(* The life of a query. *)

\* The buffer holds the first Limit bytes of what was copied, and the flag says whether there
\* were more.
Counted ==
    /\ written \in Nat /\ copied \in Nat /\ copied <= written
    /\ buffer = IF copied > Limit THEN Limit ELSE copied
    /\ truncated <=> copied > Limit

\* Before the start there is no process, its output was not touched; a handler that goes on to
\* its answer has either started none or is done with the output.
Placed ==
    /\ stage \in {"idle", "begin", "github", "start"} =>
          pid[query] = NoPid /\ pipe = "open" /\ watch = "off" /\ runErr = "none"
    /\ stage \in {"classify", "done"} => pid[query] = NoPid \/ pipe # "open"

\* How the output can have ended: with everybody who could write, or because the context was
\* done, or with an error.  An exit error stands for a leader that did not end with 0.
Ended ==
    /\ pipe = "eof" => alive[query] = {} /\ copied = written
    /\ pipe \in {"open", "eof", "closed"}
    /\ pipe = "closed" => ctx # "live" \/ (stage \in {"classify", "done"} /\ runErr # "none")
    /\ watch \in {"fired", "expired"} => ctx # "live"
    /\ runErr = "exit" => status[query] # "exit0" /\ "leader" \notin alive[query]

\* A query was cut short only by the end of its context, and its group is gone since.
Cut == cut => InGroup(query) = {} /\ ctx # "live"

\* The inductive invariant.
QueryInv == TreeInv /\ Counted /\ Placed /\ Ended /\ Cut /\ CutShortMeansGone /\ OutputHonest

\* The initial states.
LEMMA QueryInitial == Init => QueryInv
<1> SUFFICES ASSUME Init PROVE QueryInv
  OBVIOUS
<1>1. TreeInv
  BY TreeInitial DEF Init
<1>2. pid[query] = NoPid
  BY ReadQueryAssumption DEF Init, TreeInit
<1> QED
  BY <1>1, <1>2, ReadQueryAssumption
  DEF Init, QueryInv, Counted, Placed, Ended, Cut, CutShortMeansGone, OutputHonest

\* What Classify answers: nothing about an exit when the context is done, and exit code 0 only
\* for a run that ended well.
LEMMA OutcomeIs ==
  /\ Outcome.exit # Unset => ctx = "live"
  /\ Outcome.exit = 0 => ctx = "live" /\ (runErr = "none" \/ (runErr = "exit" /\ status[query] = "exit0"))
  /\ Outcome.code = "ok" => Outcome.out = buffer /\ Outcome.truncated = truncated
<1> DEFINE result == [NoRes EXCEPT !.code = "ok", !.out = buffer, !.truncated = truncated]
<1>1. /\ NoRes.exit = Unset /\ result.exit = Unset /\ result.out = buffer /\ result.truncated = truncated
      /\ Unset # 0
  BY DEF NoRes, Unset
<1>2. CASE ctx = "deadline"
  <2>1. Outcome = [result EXCEPT !.timedOut = TRUE]
    BY <1>2 DEF Outcome
  <2> QED
    BY <1>1, <1>2, <2>1 DEF NoRes
<1>3. CASE ctx = "canceled"
  <2>1. Outcome = [result EXCEPT !.code = "timeout"]
    BY <1>3 DEF Outcome
  <2> QED
    BY <1>1, <1>3, <2>1 DEF NoRes
<1>4. CASE ctx = "live" /\ runErr = "none"
  <2>1. Outcome = [result EXCEPT !.exit = 0]
    BY <1>4 DEF Outcome
  <2>2. Outcome.out = buffer /\ Outcome.truncated = truncated
    BY <2>1 DEF NoRes
  <2> QED
    BY <1>4, <2>2
<1>5. CASE ctx = "live" /\ runErr = "exit"
  <2>1. Outcome = [result EXCEPT !.exit = ExitCode]
    BY <1>5 DEF Outcome
  <2>2. ExitCode = 0 => status[query] = "exit0"
    BY DEF ExitCode
  <2> QED
    BY <1>1, <1>5, <2>1, <2>2 DEF NoRes
<1>6. CASE ctx = "live" /\ runErr = "not_found"
  <2>1. Outcome = [NoRes EXCEPT !.code = "unsupported"]
    BY <1>6 DEF Outcome
  <2> QED
    BY <1>1, <1>6, <2>1 DEF NoRes
<1>7. CASE ctx \notin {"deadline", "canceled"} /\ ~(ctx = "live" /\ runErr \in {"none", "exit", "not_found"})
  <2>1. Outcome = [NoRes EXCEPT !.code = "internal_error"]
    BY <1>7 DEF Outcome
  <2> QED
    BY <1>1, <1>7, <2>1 DEF NoRes
<1> QED
  BY <1>2, <1>3, <1>4, <1>5, <1>6, <1>7

\* One step per action.
LEMMA NextQuery ==
  ASSUME QueryInv, [Next]_vars
  PROVE  QueryInv'
<1> USE ReadQueryAssumption DEF handlerVars, outVars
<1>0. TreeInv /\ Counted /\ Placed /\ Ended /\ Cut /\ CutShortMeansGone /\ OutputHonest
  BY DEF QueryInv
<1>s. UNCHANGED treeVars => TreeInv' /\ TreeEvolves(query) /\ UNCHANGED <<pid, alive, status, reaped>>
                            /\ InGroup(query)' = InGroup(query)
  BY <1>0, TreeStutter DEF treeVars
<1>1. CASE UNCHANGED vars
  BY <1>0, <1>1, <1>s DEF vars, QueryInv, Counted, Placed, Ended, Cut, CutShortMeansGone, OutputHonest
<1>2. CASE Receive
  BY <1>0, <1>2, <1>s DEF Receive, QueryInv, Counted, Placed, Ended, Cut, CutShortMeansGone, OutputHonest
<1>3. CASE Query
  BY <1>0, <1>3, <1>s
  DEF Query, Refuse, Respond, NoRes, QueryInv, Counted, Placed, Ended, Cut, CutShortMeansGone, OutputHonest
<1>4. CASE QueryGitHub
  BY <1>0, <1>4, <1>s
  DEF QueryGitHub, Refuse, Respond, NoRes, QueryInv, Counted, Placed, Ended, Cut, CutShortMeansGone, OutputHonest
<1>5. CASE StartErr
  BY <1>0, <1>5, <1>s DEF StartErr, QueryInv, Counted, Placed, Ended, Cut, CutShortMeansGone, OutputHonest
<1>6. CASE Start
  <2>1. pid[query] = NoPid /\ Exec(query)
    BY <1>0, <1>6 DEF Start, Placed
  <2>2. TreeInv' /\ pid'[query] # NoPid /\ status' = status
    BY <1>0, <2>1, ExecStep
  <2> QED
    BY <1>0, <1>6, <2>2 DEF Start, QueryInv, Counted, Placed, Ended, Cut, CutShortMeansGone, OutputHonest
<1>7. CASE Wait
  <2>1. Waited(query) /\ "leader" \notin alive[query] /\ UNCHANGED <<pid, alive, status>>
    BY <1>7 DEF Wait, Waited, Zombie
  <2>2. TreeInv' /\ TreeEvolves(query)
    BY <1>0, <2>1, MoveStep DEF TreeMove
  <2> QED
    BY <1>0, <1>7, <2>1, <2>2
    DEF Wait, TreeEvolves, QueryInv, Counted, Placed, Ended, Cut, CutShortMeansGone, OutputHonest
<1>8. CASE WatchResult
  BY <1>0, <1>8, <1>s DEF WatchResult, QueryInv, Counted, Placed, Ended, Cut, CutShortMeansGone, OutputHonest
<1>9. CASE Drained
  BY <1>0, <1>9, <1>s DEF Drained, QueryInv, Counted, Placed, Ended, Cut, CutShortMeansGone, OutputHonest
<1>10. CASE DrainExpires
  BY <1>0, <1>10, <1>s DEF DrainExpires, QueryInv, Counted, Placed, Ended, Cut, CutShortMeansGone, OutputHonest
<1>11. CASE Classify
  <2>1. /\ stage = "classify" /\ stage' = "done" /\ res' = Outcome
        /\ UNCHANGED <<treeVars, req, outVars, ctx, watch, runErr, cut>>
    BY <1>11 DEF Classify, Respond
  <2>2. CutShortMeansGone'
    BY <1>0, <1>s, <2>1, OutcomeIs DEF Cut, CutShortMeansGone
  <2>3. OutputHonest'
    BY <1>0, <1>s, <2>1, OutcomeIs DEF Counted, Placed, Ended, OutputHonest
  <2> QED
    BY <1>0, <1>s, <2>1, <2>2, <2>3 DEF QueryInv, Counted, Placed, Ended, Cut
<1>12. CASE WatchFires
  <2>1. Signal(query, {}) /\ {} \in SUBSET {"leader", "child"}
    BY <1>12 DEF WatchFires, Kill
  <2>2. TreeInv' /\ TreeEvolves(query) /\ InGroup(query)' = {}
    BY <1>0, <2>1, SignalStep
  <2> QED
    BY <1>0, <1>12, <2>2
    DEF WatchFires, TreeEvolves, QueryInv, Counted, Placed, Ended, Cut, CutShortMeansGone, OutputHonest
<1>13. CASE WatchExpires
  BY <1>0, <1>13, <1>s DEF WatchExpires, QueryInv, Counted, Placed, Ended, Cut, CutShortMeansGone, OutputHonest
<1>14. CASE Canceled \/ Deadline
  BY <1>0, <1>14, <1>s
  DEF Canceled, Deadline, QueryInv, Counted, Placed, Ended, Cut, CutShortMeansGone, OutputHonest
<1>15. CASE Tree
  <2>1. TreeMove(query) /\ UNCHANGED <<handlerVars, outVars, ctx, watch, runErr, cut>>
    BY <1>15 DEF Tree, TreeMove
  <2>2. TreeInv' /\ TreeEvolves(query)
    BY <1>0, <2>1, MoveStep
  <2> QED
    BY <1>0, <2>1, <2>2
    DEF TreeEvolves, QueryInv, Counted, Placed, Ended, Cut, CutShortMeansGone, OutputHonest
<1>16. CASE Output
  BY <1>0, <1>16, <1>s DEF Output, QueryInv, Counted, Placed, Ended, Cut, CutShortMeansGone, OutputHonest
<1>17. CASE Copy
  <2>1. PICK n \in 1 .. written - copied : copied' = copied + n /\ LimitedOutput(n)
    BY <1>17 DEF Copy
  <2>2. pipe = "open" /\ UNCHANGED <<treeVars, handlerVars, pipe, written, ctx, watch, runErr, cut>>
    BY <1>17 DEF Copy
  <2>3. Counted'
    <3>1. n \in Nat /\ n <= written - copied /\ Limit \in Nat
      BY <1>0, <2>1 DEF Counted
    <3>2. /\ buffer' = IF buffer + n > Limit THEN Limit ELSE buffer + n
          /\ truncated' <=> truncated \/ buffer + n > Limit
      BY <2>1 DEF LimitedOutput
    <3>3. /\ written \in Nat /\ copied \in Nat /\ copied <= written
          /\ buffer = (IF copied > Limit THEN Limit ELSE copied) /\ (truncated <=> copied > Limit)
      BY <1>0 DEF Counted
    <3>4. buffer + n > Limit \/ copied > Limit <=> copied + n > Limit
      BY <3>1, <3>3, <2>1
    <3>5. buffer' = IF copied + n > Limit THEN Limit ELSE copied + n
      BY <3>1, <3>2, <3>3, <2>1
    <3> QED
      BY <2>1, <2>2, <3>1, <3>2, <3>3, <3>4, <3>5 DEF Counted
  <2>4. OutputHonest'
    BY <1>0, <1>s, <2>2 DEF Placed, OutputHonest
  <2> QED
    BY <1>0, <1>s, <2>2, <2>3, <2>4 DEF QueryInv, Placed, Ended, Cut, CutShortMeansGone
<1>18. CASE CopyEnds
  BY <1>0, <1>18, <1>s DEF CopyEnds, QueryInv, Counted, Placed, Ended, Cut, CutShortMeansGone, OutputHonest
<1> QED
  BY <1>1, <1>2, <1>3, <1>4, <1>5, <1>6, <1>7, <1>8, <1>9, <1>10, <1>11, <1>12, <1>13, <1>14, <1>15,
     <1>16, <1>17, <1>18 DEF Next, Handler, Watcher

\* The invariant of a query holds always.
THEOREM QueryInvariance == Spec => []QueryInv
<1> QED
  BY QueryInitial, NextQuery, PTL DEF Spec

\* A query that the deadline or the stop cut short leaves nobody of its group behind and gives no
\* exit code, whoever else got the group's number.
THEOREM QueryCutShort == Spec => []CutShortMeansGone
<1>1. QueryInv => CutShortMeansGone
  BY DEF QueryInv
<1> QED
  BY <1>1, QueryInvariance, PTL

\* A result is honest about its output, for every limit and every amount of output.
THEOREM QueryOutputHonest == Spec => []OutputHonest
<1>1. QueryInv => OutputHonest
  BY DEF QueryInv
<1> QED
  BY <1>1, QueryInvariance, PTL
=============================================================================
