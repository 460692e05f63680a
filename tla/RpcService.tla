----------------------------- MODULE RpcService -----------------------------
(***************************************************************************)
(* What the relay promises an MCP client, with no connection, registry or  *)
(* message in sight: a call is carried out at most once; an answer comes   *)
(* from its execution; a refusal means it is never carried out; anything   *)
(* else tells the caller nothing, and the call may yet be carried out      *)
(* after the caller was told.                                              *)
(***************************************************************************)
EXTENDS Naturals

CONSTANT Calls

VARIABLES
    stage,       \* stage[k]: "idle", "open", "done"
    execs,       \* execs[k]: how often call k was carried out
    outcome      \* outcome[k]: what the caller was told

svars == <<stage, execs, outcome>>

Init ==
    /\ stage = [k \in Calls |-> "idle"]
    /\ execs = [k \in Calls |-> 0]
    /\ outcome = [k \in Calls |-> "none"]

Open(k) ==
    /\ stage[k] = "idle"
    /\ stage' = [stage EXCEPT ![k] = "open"]
    /\ UNCHANGED <<execs, outcome>>

Refuse(k) ==
    /\ stage[k] = "idle"
    /\ stage' = [stage EXCEPT ![k] = "done"]
    /\ outcome' = [outcome EXCEPT ![k] = "refused"]
    /\ UNCHANGED execs

Execute(k) ==
    /\ stage[k] # "idle"
    /\ outcome[k] \in {"none", "unknown"}
    /\ execs[k] = 0
    /\ execs' = [execs EXCEPT ![k] = 1]
    /\ UNCHANGED <<stage, outcome>>

Answer(k) ==
    /\ stage[k] = "open"
    /\ execs[k] = 1
    /\ stage' = [stage EXCEPT ![k] = "done"]
    /\ outcome' = [outcome EXCEPT ![k] = "answered"]
    /\ UNCHANGED execs

\* The callers of the calls in S lose track of them, all at once when the service stops.
GiveUp(S) ==
    /\ \A k \in S : stage[k] = "open"
    /\ stage' = [k \in Calls |-> IF k \in S THEN "done" ELSE stage[k]]
    /\ outcome' = [k \in Calls |-> IF k \in S THEN "unknown" ELSE outcome[k]]
    /\ UNCHANGED execs

Next ==
    \/ \E k \in Calls : Open(k) \/ Refuse(k) \/ Execute(k) \/ Answer(k)
    \/ \E S \in SUBSET Calls : GiveUp(S)

Spec == Init /\ [][Next]_svars
=============================================================================
