----------------------------- MODULE AgentSide -----------------------------
(***************************************************************************)
(* The Agent's half of a connection: Connection.Run and runOnce            *)
(* (agent/connection.go) and the goroutine that serves each request        *)
(* through the dispatcher (agent/dispatch.go).                             *)
(***************************************************************************)
EXTENDS Transport

VARIABLES
    ag,          \* ag[c]: where runOnce is with connection c
    cur,         \* cur[a]: the connection runOnce of Agent a serves
    running,     \* running[c]: requests read from c, not yet carried out
    replying,    \* replying[c]: requests carried out, response not yet written
    applied      \* applied[k]: how many times the handler of call k ran

agentVars == <<ag, cur, running, replying, applied>>

AgentTypeOK ==
    /\ ag \in [Conns -> {"none", "hello", "serving", "ended"}]
    /\ cur \in [Agents -> Conns \cup {NoConn}]
    /\ running \in [Conns -> SUBSET Msg]
    /\ replying \in [Conns -> SUBSET Msg]
    /\ applied \in [Calls -> Nat]

AgentInit ==
    /\ ag = [c \in Conns |-> "none"]
    /\ cur = [a \in Agents |-> NoConn]
    /\ running = [c \in Conns |-> {}]
    /\ replying = [c \in Conns |-> {}]
    /\ applied = [k \in Calls |-> 0]

\* Run calls runOnce again once the last one returned and the backoff elapsed; Dial succeeds.
Dial(a, c) ==
    /\ cur[a] = NoConn
    /\ ag[c] = "none"
    /\ \A b \in Conns : b < c => ag[b] # "none"
    /\ ag' = [ag EXCEPT ![c] = "hello"]
    /\ cur' = [cur EXCEPT ![a] = c]
    /\ agWs' = [agWs EXCEPT ![c] = "open"]
    /\ owner' = [owner EXCEPT ![c] = a]
    /\ UNCHANGED <<running, replying, applied>>

\* runOnce returns: the deferred CloseNow, and Run is free to dial again.
Return(c) ==
    /\ ag' = [ag EXCEPT ![c] = "ended"]
    /\ agWs' = Closed(agWs, c, "closed")
    /\ cur' = [cur EXCEPT ![owner[c]] = NoConn]

\* The hello is written.
WriteHello(c) ==
    /\ ag[c] = "hello"
    /\ ag' = [ag EXCEPT ![c] = "serving"]
    /\ hello' = [hello EXCEPT ![c] = (link[c] = "up")]
    /\ UNCHANGED <<cur, running, replying, applied, link, gwWs, agWs, owner, toAgent, toGw>>

\* The write of the hello fails.
WriteHelloErr(c) ==
    /\ ag[c] = "hello"
    /\ AgFails(c)
    /\ Return(c)
    /\ UNCHANGED <<running, replying, applied, link, gwWs, owner, hello, toAgent, toGw>>

\* runOnce reads a request and starts a goroutine for it.
ReadRequest(c) ==
    /\ ag[c] = "serving"
    /\ agWs[c] = "open"
    /\ \E m \in toAgent[c] :
        /\ toAgent' = [toAgent EXCEPT ![c] = @ \ {m}]
        /\ running' = [running EXCEPT ![c] = @ \cup {m}]
    /\ UNCHANGED <<ag, cur, replying, applied, link, gwWs, agWs, owner, hello, toGw>>

\* runOnce's Read fails.  The goroutines it started go on: c.wg is not scoped to runOnce.
ReadErr(c) ==
    /\ ag[c] = "serving"
    /\ AgFails(c)
    /\ Return(c)
    /\ UNCHANGED <<running, replying, applied, link, gwWs, owner, hello, toAgent, toGw>>

\* A request above the read limit: the library closes the connection, Read fails.
ReadTooBig(c) ==
    /\ ag[c] = "serving"
    /\ agWs[c] = "open"
    /\ \E m \in toAgent[c] :
        /\ <<m.call, "request">> \in OverLimit
        /\ toAgent' = [toAgent EXCEPT ![c] = @ \ {m}]
    /\ Return(c)
    /\ UNCHANGED <<running, replying, applied, link, gwWs, owner, hello, toGw>>

\* Mutant of AgentPingFail: the failure is logged and the connection left alone.
AgentPingFailIgnored(c) ==
    /\ ag[c] = "serving"
    /\ AgFails(c)
    /\ UNCHANGED <<agentVars, transportVars>>

\* pingLoop: a failed ping closes the connection.
AgentPingFail(c) ==
    /\ ag[c] = "serving"
    /\ agWs[c] = "open"
    /\ AgFails(c)
    /\ agWs' = Closed(agWs, c, "closed")
    /\ UNCHANGED <<agentVars, link, gwWs, owner, hello, toAgent, toGw>>

\* Mutant of Handle: the request is dispatched again.
HandleAgain(c) ==
    /\ \E m \in running[c] :
        /\ replying' = [replying EXCEPT ![c] = @ \cup {m}]
        /\ applied' = [applied EXCEPT ![m.call] = @ + 1]
    /\ UNCHANGED <<ag, cur, running, transportVars>>

\* The goroutine of a request: Dispatch runs the handler of its method.
Handle(c) ==
    /\ \E m \in running[c] :
        /\ running' = [running EXCEPT ![c] = @ \ {m}]
        /\ replying' = [replying EXCEPT ![c] = @ \cup {m}]
        /\ applied' = [applied EXCEPT ![m.call] = @ + 1]
    /\ UNCHANGED <<ag, cur, transportVars>>

\* The handler panics, before or after its effect: the panic is recovered and no
\* response is written.
HandlePanic(c) ==
    /\ \E m \in running[c] :
        /\ running' = [running EXCEPT ![c] = @ \ {m}]
        /\ \/ applied' = [applied EXCEPT ![m.call] = @ + 1]
           \/ UNCHANGED applied
    /\ UNCHANGED <<ag, cur, replying, transportVars>>

\* Mutant of Reply: the response is written on the Agent's current connection.
ReplyOnCurrent(c) ==
    \E m \in replying[c], b \in Conns :
        /\ cur[owner[c]] = b
        /\ agWs[b] = "open"
        /\ replying' = [replying EXCEPT ![c] = @ \ {m}]
        /\ toGw' = Sent(toGw, b, m)
        /\ UNCHANGED <<ag, cur, running, applied, link, gwWs, agWs, owner, hello, toAgent>>

\* The response is written, on the connection the request came from.
Reply(c) ==
    /\ agWs[c] = "open"
    /\ \E m \in replying[c] :
        /\ replying' = [replying EXCEPT ![c] = @ \ {m}]
        /\ toGw' = Sent(toGw, c, m)
    /\ UNCHANGED <<ag, cur, running, applied, link, gwWs, agWs, owner, hello, toAgent>>

\* The write fails: CloseNow makes runOnce's blocked Read return.
ReplyErr(c) ==
    /\ AgFails(c)
    /\ \E m \in replying[c] : replying' = [replying EXCEPT ![c] = @ \ {m}]
    /\ agWs' = Closed(agWs, c, "closed")
    /\ UNCHANGED <<ag, cur, running, applied, link, gwWs, owner, hello, toAgent, toGw>>

\* The Agent process dies and is started again: every request it was serving is lost.
AgentCrash(a) ==
    LET mine == {c \in Conns : owner[c] = a} IN
    /\ mine # {}
    /\ ag' = [c \in Conns |-> IF c \in mine THEN "ended" ELSE ag[c]]
    /\ agWs' = [c \in Conns |-> IF c \in mine THEN "closed" ELSE agWs[c]]
    /\ cur' = [cur EXCEPT ![a] = NoConn]
    /\ running' = [c \in Conns |-> IF c \in mine THEN {} ELSE running[c]]
    /\ replying' = [c \in Conns |-> IF c \in mine THEN {} ELSE replying[c]]
    /\ UNCHANGED <<applied, link, gwWs, owner, hello, toAgent, toGw>>
=============================================================================
