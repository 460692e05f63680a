------------------------------ MODULE History ------------------------------
(***************************************************************************)
(* agent/history.go: the executions table.  An execution is the process it *)
(* started; its row is written when it starts and completed when it ends.  *)
(* The table outlives the Agent, the writers do not.  SQLite is external:  *)
(* a statement takes effect, or answers SQLITE_BUSY or another error.      *)
(***************************************************************************)
EXTENDS Integers

CONSTANTS
    Execs,          \* executions
    MaxBusy,        \* bound on the SQLITE_BUSY answers of a behaviour
    MaxDbErrors     \* bound on the other errors

ASSUME HistoryAssumption == MaxBusy \in Nat /\ MaxDbErrors \in Nat

recordEndMaxRetries == 3

VARIABLES
    row,            \* row[e]: "absent", "open" (ended_at NULL) or "ended"
    rowCode,        \* rowCode[e]: its exit_code
    end,            \* end[e]: where the writer of its end is
    endCode,        \* endCode[e]: the exit code that writer has
    attempt,        \* attempt[e]: its retries
    busy,           \* SQLITE_BUSY answers so far
    dbErrors        \* other errors so far

historyVars == <<row, rowCode, end, endCode, attempt, busy, dbErrors>>

Codes == {"nil", "0", "1", "111", "-1"}

HistoryTypeOK ==
    /\ row \in [Execs -> {"absent", "open", "ended"}]
    /\ rowCode \in [Execs -> Codes]
    /\ end \in [Execs -> {"none", "wait", "write", "done", "lost"}]
    /\ endCode \in [Execs -> Codes]
    /\ attempt \in [Execs -> 0 .. recordEndMaxRetries]
    /\ busy \in 0 .. MaxBusy
    /\ dbErrors \in 0 .. MaxDbErrors

HistoryInit ==
    /\ row = [e \in Execs |-> "absent"]
    /\ rowCode = [e \in Execs |-> "nil"]
    /\ end = [e \in Execs |-> "none"]
    /\ endCode = [e \in Execs |-> "nil"]
    /\ attempt = [e \in Execs |-> 0]
    /\ busy = 0
    /\ dbErrors = 0

\* RecordStart: the INSERT succeeds, or its error is logged and nothing is retried.
RecordStart(e) ==
    \/ /\ row' = [row EXCEPT ![e] = "open"]
       /\ UNCHANGED <<rowCode, busy, dbErrors>>
    \/ /\ busy < MaxBusy
       /\ busy' = busy + 1
       /\ UNCHANGED <<row, rowCode, dbErrors>>
    \/ /\ dbErrors < MaxDbErrors
       /\ dbErrors' = dbErrors + 1
       /\ UNCHANGED <<row, rowCode, busy>>

\* Mutant of UpdateOk: an upsert, which brings a purged row back.
UpdateOkUpserts(e) ==
    /\ end[e] = "write"
    /\ row' = [row EXCEPT ![e] = "ended"]
    /\ rowCode' = [rowCode EXCEPT ![e] = endCode[e]]
    /\ end' = [end EXCEPT ![e] = "done"]
    /\ UNCHANGED <<endCode, attempt, busy, dbErrors>>

\* An UPDATE of RecordEnd that succeeds, whether or not the row is still there.
UpdateOk(e) ==
    /\ end[e] = "write"
    /\ row' = [row EXCEPT ![e] = IF @ = "absent" THEN @ ELSE "ended"]
    /\ rowCode' = [rowCode EXCEPT ![e] = IF row[e] = "absent" THEN @ ELSE endCode[e]]
    /\ end' = [end EXCEPT ![e] = "done"]
    /\ UNCHANGED <<endCode, attempt, busy, dbErrors>>

\* One that answers SQLITE_BUSY: it is tried again, recordEndMaxRetries times at most.
UpdateBusy(e) ==
    /\ end[e] = "write"
    /\ busy < MaxBusy
    /\ busy' = busy + 1
    /\ IF attempt[e] < recordEndMaxRetries
       THEN attempt' = [attempt EXCEPT ![e] = @ + 1] /\ UNCHANGED end
       ELSE end' = [end EXCEPT ![e] = "done"] /\ UNCHANGED attempt
    /\ UNCHANGED <<row, rowCode, endCode, dbErrors>>

\* Any other error is logged, and RecordEnd is over.
UpdateErr(e) ==
    /\ end[e] = "write"
    /\ dbErrors < MaxDbErrors
    /\ dbErrors' = dbErrors + 1
    /\ end' = [end EXCEPT ![e] = "done"]
    /\ UNCHANGED <<row, rowCode, endCode, attempt, busy>>

RecordEndStep(e) == UpdateOk(e) \/ UpdateBusy(e) \/ UpdateErr(e)

\* A tick of StartGC: rows that started before the cutoff go, ended or not.  Which rows are
\* that old is left open.
PurgeOlderThan ==
    /\ \E S \in SUBSET {e \in Execs : row[e] # "absent"} :
        /\ S # {}
        /\ row' = [e \in Execs |-> IF e \in S THEN "absent" ELSE row[e]]
        /\ rowCode' = [e \in Execs |-> IF e \in S THEN "nil" ELSE rowCode[e]]
    /\ UNCHANGED <<end, endCode, attempt, busy, dbErrors>>
=============================================================================
