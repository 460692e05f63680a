------------------------------- MODULE Relay -------------------------------
(***************************************************************************)
(* The relay: the Gateway and the Agents joined by their connections.      *)
(* Every step is a step of one Gateway goroutine, of one Agent goroutine,  *)
(* or a fault of the environment; only the dial involves both sides.       *)
(***************************************************************************)
EXTENDS Gateway, AgentSide

CONSTANT MaxFaults     \* bound on the faults of a behaviour

ASSUME FaultsAssumption == MaxFaults \in Nat

VARIABLE faults        \* faults so far

vars == <<gatewayVars, agentVars, transportVars, faults>>

Init ==
    /\ TransportInit
    /\ GatewayInit
    /\ AgentInit
    /\ faults = 0

\* websocket.Dial on one side, websocket.Accept on the other.
Connect(a, c) ==
    /\ Dial(a, c)
    /\ Accept(c)
    /\ UNCHANGED <<link, hello, toAgent, toGw, faults>>

\* The steps of the Gateway's handler of connection c.
ConnStep(c) ==
    \/ ReadHello(c)
    \/ HelloErr(c)
    \/ CloseOld(c)
    \/ ReadLoopRead(c)
    \/ ReadLoopSend(c)
    \/ ReadLoopErr(c)
    \/ ReadLoopTooBig(c)
    \/ PingFail(c)
    \/ Unregister(c)
    \/ CloseOne(c)

\* The steps of call k.
CallStep(k) ==
    \/ Get(k)
    \/ Begin(k)
    \/ EncodeErr(k)
    \/ WriteFlush(k)
    \/ WriteErr(k)
    \/ WriteOk(k)
    \/ SelectResponse(k)
    \/ SelectTimeout(k)
    \/ SelectClosed(k)
    \/ Cleanup(k)
    \/ CtxCancel(k)

ProcessStep == Exit \/ Start

\* The steps of the Agent's goroutines of connection c.
AgentStep(c) ==
    \/ WriteHello(c)
    \/ WriteHelloErr(c)
    \/ ReadRequest(c)
    \/ ReadErr(c)
    \/ ReadTooBig(c)
    \/ AgentPingFail(c)
    \/ Handle(c)
    \/ HandlePanic(c)
    \/ Reply(c)
    \/ ReplyErr(c)

\* What the environment does to the system, at most MaxFaults times: a network loss, a
\* stop or a crash of the Gateway, a crash of an Agent.
Fault ==
    /\ faults < MaxFaults
    /\ faults' = faults + 1
    /\ \/ \E c \in Conns : LinkDown(c) /\ UNCHANGED <<gatewayVars, agentVars>>
       \/ CloseAll /\ UNCHANGED agentVars
       \/ Crash /\ UNCHANGED agentVars
       \/ \E a \in Agents : AgentCrash(a) /\ UNCHANGED gatewayVars

Next ==
    \/ \E a \in Agents, c \in Conns : Connect(a, c)
    \/ \E c \in Conns : ConnStep(c) /\ UNCHANGED <<agentVars, faults>>
    \/ \E k \in Calls : CallStep(k) /\ UNCHANGED <<agentVars, faults>>
    \/ ProcessStep /\ UNCHANGED <<agentVars, faults>>
    \/ \E c \in Conns : AgentStep(c) /\ UNCHANGED <<gatewayVars, faults>>
    \/ Fault

Spec == Init /\ [][Next]_vars

\* Fairness.  A goroutine that can take a step takes it; a Read or a Ping that must fail
\* fails within its timeout; a stopped Gateway exits and its supervisor restarts it.
\* Nothing is assumed of a link that is down, of clients (they need not cancel), of panics
\* or of faults, and an Agent whose connection is lost need not come back.
ConnProgress(c) ==
    \/ ReadHello(c) /\ link[c] = "up"
    \/ HelloErr(c) /\ GwSeesClose(c)
    \/ CloseOld(c)
    \/ (ReadLoopRead(c) \/ ReadLoopTooBig(c)) /\ link[c] = "up"
    \/ ReadLoopSend(c)
    \/ ReadLoopErr(c) /\ GwSeesClose(c)
    \/ PingFail(c)
    \/ Unregister(c)
    \/ CloseOne(c)

CallProgress(k) ==
    \/ Begin(k) \/ WriteFlush(k) \/ WriteErr(k) \/ WriteOk(k)
    \/ SelectResponse(k) \/ SelectTimeout(k) \/ SelectClosed(k) \/ Cleanup(k)

AgentProgress(c) ==
    \/ WriteHello(c)
    \/ (ReadRequest(c) \/ ReadTooBig(c)) /\ link[c] = "up"
    \/ ReadErr(c) /\ AgSeesClose(c)
    \/ AgentPingFail(c)
    \/ Handle(c)
    \/ Reply(c) \/ ReplyErr(c)

Fairness ==
    /\ \A c \in Conns : WF_vars(ConnProgress(c) /\ UNCHANGED <<agentVars, faults>>)
    /\ \A k \in Calls : WF_vars(CallProgress(k) /\ UNCHANGED <<agentVars, faults>>)
    /\ \A c \in Conns : WF_vars(AgentProgress(c) /\ UNCHANGED <<gatewayVars, faults>>)
    /\ WF_vars(ProcessStep /\ UNCHANGED <<agentVars, faults>>)

FairSpec == Spec /\ Fairness

\* Run's loop: an Agent that is switched on dials again after each backoff.
Redials == \A a \in Agents : WF_vars(\E c \in Conns : Connect(a, c))

-----------------------------------------------------------------------------
(* Safety. *)

\* The shapes of the state; the registry and CloseAll's snapshot hold connections only, never a
\* nil (gateway/registry.go).
TypeOK ==
    /\ TransportTypeOK
    /\ GatewayTypeOK
    /\ AgentTypeOK
    /\ faults \in 0 .. MaxFaults

\* Multiplexing: the response a Call returns was produced by that call's own request,
\* whatever other calls, late responses, reconnects and restarts are under way
\* (agentconn.go: request_id, pending, readLoop; connection.go: a goroutine answers on
\* the connection its request came from).
ResponseCorrelation == \A k \in Calls : result[k] = "response" => answer[k] = k

\* readLoop never blocks in ch <- &resp, so one abandoned call cannot stop the delivery
\* of the others' responses: a looked-up channel always has room.
ReadLoopNeverBlocks == \A c \in Conns : \A h \in hand[c] : ChanHasRoom(h.to)

\* No handler runs twice for one call: neither reconnects nor restarts resend a request.
AtMostOnce == \A k \in Calls : applied[k] <= 1

\* Frames and goroutines that still carry call k.
InFlight(k) ==
    \E c \in Conns : \E m \in toAgent[c] \cup running[c] \cup replying[c] \cup toGw[c] : m.call = k

\* What a caller may conclude: a response means the handler ran exactly once, and
\* device_offline means it did not run and never will.
OutcomeHonest ==
    \A k \in Calls :
        /\ result[k] = "response" => applied[k] = 1
        /\ result[k] = "device_offline" => applied[k] = 0 /\ ~InFlight(k)

\* An entry of the registry is a connection of an Agent of that very device which
\* presented the secret, and whose handler has yet to unregister it.
RegistryRoutes ==
    \A d \in Devices : reg[d] # NoConn =>
        /\ owner[reg[d]] \in Trusted
        /\ DeviceOfConn(reg[d]) = d
        /\ gw[reg[d]] \in {"replacing", "serving", "ended"}

\* A connection that is served but no longer registered is closed, or somebody is about
\* to close it: no Agent is left attached to a connection nothing routes to.
NoZombie ==
    \A c \in Conns :
        /\ gw[c] \in {"replacing", "serving"}
        /\ gwWs[c] = "open"
        /\ reg[DeviceOfConn(c)] # c
        => c \in closeList \/ \E b \in Conns : gw[b] = "replacing" /\ old[b] = c

\* Call's deferred delete: only a call in progress has an entry in pending.
NoPendingLeak ==
    \A c \in Conns : \A p \in pending[c] :
        callConn[p.call] = c /\ call[p.call] \in {"write", "flushed", "wait", "cleanup"}

\* The new connection wins: a device loses its entry only when the registered connection
\* itself ended or the Gateway stops, never because an older connection unregisters.
NewConnectionWins ==
    [][\A d \in Devices :
          reg[d] # NoConn /\ reg'[d] = NoConn => gw[reg[d]] = "ended" \/ sys' # "up"]_vars

\* What a client may conclude from a lost connection and the tool's announcement alone
\* (mcptools.go: ReadOnlyHint; agentconn.go: IsMutatingMethod): a call of a tool that can change the
\* device is never reported as a plain transport_lost, which invites a repetition, and a call of a
\* read-only one never as execution_unknown.
LostOutcomeByHint ==
    \A k \in Calls :
        /\ result[k] = "transport_lost" => ToolOf[k] \in readOnlyTools
        /\ result[k] = "execution_unknown" => ToolOf[k] \notin readOnlyTools

\* internal/proto/message.go:35: when the transport is lost while a mutating method is in
\* flight, "the caller must see execution_unknown".  Not so when the loss makes ws.Write
\* return an error after the frame was written: Call then returns that error as it is.
LostMutationIsUnknown ==
    \A k \in Calls :
        /\ IsMutatingMethod(methodOf(ToolOf[k]))
        /\ call[k] = "done"
        /\ applied[k] = 1
        /\ ~ctxDone[k]
        /\ result[k] \notin {"response", "gone"}
        => result[k] = "execution_unknown"

-----------------------------------------------------------------------------
(* Liveness. *)

LostConn(c) == link[c] = "down" \/ agWs[c] = "closed"

\* A call waiting on a connection whose link or whose Agent's end is gone does return:
\* the keepalive turns the silent loss into an error, even if the Agent never comes back
\* (agentconn.go:147).
LostCallsReturn ==
    \A k \in Calls :
        (call[k] = "wait" /\ LostConn(callConn[k])) ~> call[k] = "done"

\* Such a connection leaves the registry.
DeadConnsLeave ==
    \A d \in Devices : \A c \in Conns :
        (reg[d] = c /\ LostConn(c)) ~> reg[d] # c

\* After the last fault a trusted Agent that dials again ends up connected and registered for good, on the
\* connection it is itself serving.  A late hello of a dead connection may still displace
\* the live one, but not for ever.
Reconnects ==
    Redials =>
    \A a \in Trusted : <>[](cur[a] # NoConn /\ reg[DeviceOf[a]] = cur[a] /\ gw[cur[a]] = "serving")

-----------------------------------------------------------------------------
(* The promise of the relay to MCP clients, which it implements. *)

Outcome(k) ==
    IF call[k] # "done" THEN "none"
    ELSE CASE result[k] = "response" -> "answered"
           [] result[k] = "device_offline" -> "refused"
           [] OTHER -> "unknown"

Stage(k) == IF call[k] = "idle" THEN "idle" ELSE IF call[k] = "done" THEN "done" ELSE "open"

Service == INSTANCE RpcService WITH
    stage <- [k \in Calls |-> Stage(k)],
    execs <- applied,
    outcome <- [k \in Calls |-> Outcome(k)]

\* Every behaviour of the relay is one of the at-most-once RPC service.
ImplementsService == Service!Spec
=============================================================================
