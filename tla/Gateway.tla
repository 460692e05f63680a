------------------------------ MODULE Gateway ------------------------------
(***************************************************************************)
(* The Gateway: the WebSocket server and its hello handshake               *)
(* (gateway/wsserver.go), the registry of connected devices                *)
(* (gateway/registry.go), the multiplexed RPCs of an AgentConn             *)
(* (gateway/agentconn.go), their routing from the MCP tools                *)
(* (gateway/mcptools.go) and the shutdown (gateway/cmd/main.go).           *)
(***************************************************************************)
EXTENDS Transport, McpTools

CONSTANTS
    Devices,     \* device_ids
    DeviceOf,    \* DeviceOf[a]: the device_id in Agent a's hello
    Trusted,     \* Agents whose hello carries the right secret
    TargetOf,    \* TargetOf[k]: the device_id call k names
    ToolOf       \* ToolOf[k]: the MCP tool whose handler makes call k

ASSUME GatewayAssumption ==
    /\ DeviceOf \in [Agents -> Devices]
    /\ Trusted \subseteq Agents
    /\ TargetOf \in [Calls -> Devices]
    /\ ToolOf \in [Calls -> Tools]

VARIABLES
    sys,         \* the process: "up", "closing" from the signal on, "down"
    closeList,   \* CloseAll's snapshot: the connections it has yet to close
    reg,         \* Registry.conns
    gw,          \* gw[c]: where the handler of connection c is
    old,         \* old[c]: the connection c replaced and Register has yet to close
    nextID,      \* nextID[c]: AgentConn.nextID
    pending,     \* pending[c]: AgentConn.pending, request_id -> the call's channel
    hand,        \* hand[c]: the response readLoop is sending to a channel
    call,        \* call[k]: where Call is
    callConn,    \* callConn[k]: the AgentConn deviceCall got
    callId,      \* callId[k]: its request_id
    ch,          \* ch[k]: the content of its response channel
    ctxDone,     \* ctxDone[k]: its context was cancelled
    result,      \* result[k]: what Call returned
    answer       \* answer[k]: the call whose execution produced the response it returned

connVars == <<sys, closeList, reg, gw, old, hand>>
callVars == <<nextID, pending, call, callConn, callId, ch, ctxDone, result, answer>>
gatewayVars == <<connVars, callVars>>

Results == {"none", "device_offline", "encode_error", "write_error", "response", "timeout",
            "execution_unknown", "transport_lost", "gone"}

GatewayTypeOK ==
    /\ sys \in {"up", "closing", "down"}
    /\ closeList \subseteq Conns
    /\ reg \in [Devices -> Conns \cup {NoConn}]
    /\ gw \in [Conns -> {"none", "hello", "replacing", "serving", "ended", "done"}]
    /\ old \in [Conns -> Conns \cup {NoConn}]
    /\ nextID \in [Conns -> Nat]
    /\ pending \in [Conns -> SUBSET Msg]
    /\ hand \in [Conns -> SUBSET [to : Calls, msg : Msg]]
    /\ call \in [Calls -> {"idle", "got", "write", "flushed", "wait", "cleanup", "done"}]
    /\ callConn \in [Calls -> Conns \cup {NoConn}]
    /\ callId \in [Calls -> Nat]
    /\ ch \in [Calls -> SUBSET Calls]
    /\ ctxDone \in [Calls -> BOOLEAN]
    /\ result \in [Calls -> Results]
    /\ answer \in [Calls -> Calls \cup {NoCall}]

GatewayInit ==
    /\ sys = "up"
    /\ closeList = {}
    /\ reg = [d \in Devices |-> NoConn]
    /\ gw = [c \in Conns |-> "none"]
    /\ old = [c \in Conns |-> NoConn]
    /\ nextID = [c \in Conns |-> 0]
    /\ pending = [c \in Conns |-> {}]
    /\ hand = [c \in Conns |-> {}]
    /\ call = [k \in Calls |-> "idle"]
    /\ callConn = [k \in Calls |-> NoConn]
    /\ callId = [k \in Calls |-> 0]
    /\ ch = [k \in Calls |-> {}]
    /\ ctxDone = [k \in Calls |-> FALSE]
    /\ result = [k \in Calls |-> "none"]
    /\ answer = [k \in Calls |-> NoCall]

-----------------------------------------------------------------------------
(* The handler of one connection: accept, hello, register, serve, unregister. *)

DeviceOfConn(c) == DeviceOf[owner[c]]

\* websocket.Accept.  The agent listener accepts until Shutdown, so also while CloseAll runs.
Accept(c) ==
    /\ sys # "down"
    /\ gw[c] = "none"
    /\ gw' = [gw EXCEPT ![c] = "hello"]
    /\ gwWs' = [gwWs EXCEPT ![c] = "open"]
    /\ UNCHANGED <<sys, closeList, reg, old, hand, callVars>>

\* Mutant of Register: the replaced connection is never closed.
RegisterKeepsOld(c) ==
    /\ reg' = [reg EXCEPT ![DeviceOfConn(c)] = c]
    /\ gw' = [gw EXCEPT ![c] = "serving"]
    /\ UNCHANGED old

\* Register: the entry is swapped under the lock; the connection it held, if any, is
\* closed afterwards (CloseOld) and readLoop starts only then.
Register(c) ==
    LET d == DeviceOfConn(c) IN
    /\ reg' = [reg EXCEPT ![d] = c]
    /\ old' = [old EXCEPT ![c] = reg[d]]
    /\ gw' = [gw EXCEPT ![c] = IF reg[d] = NoConn THEN "serving" ELSE "replacing"]

\* Mutant of ReadHello: the secret is not verified.
ReadHelloUnverified(c) ==
    /\ gw[c] = "hello"
    /\ hello[c]
    /\ gwWs[c] # "closed"
    /\ hello' = [hello EXCEPT ![c] = FALSE]
    /\ Register(c)
    /\ UNCHANGED <<sys, closeList, hand, callVars, gwWs, link, agWs, owner, toAgent, toGw>>

\* The hello arrives and its secret is verified.
ReadHello(c) ==
    /\ gw[c] = "hello"
    /\ hello[c]
    /\ gwWs[c] # "closed"
    /\ hello' = [hello EXCEPT ![c] = FALSE]
    /\ \/ /\ owner[c] \in Trusted
          /\ Register(c)
          /\ UNCHANGED gwWs
       \/ /\ owner[c] \notin Trusted
          /\ gw' = [gw EXCEPT ![c] = "done"]
          /\ gwWs' = Closed(gwWs, c, "closing")
          /\ UNCHANGED <<reg, old>>
    /\ UNCHANGED <<sys, closeList, hand, callVars, link, agWs, owner, toAgent, toGw>>

\* The read of the hello fails.
HelloErr(c) ==
    /\ gw[c] = "hello"
    /\ GwFails(c)
    /\ gw' = [gw EXCEPT ![c] = "done"]
    /\ gwWs' = Closed(gwWs, c, "closing")
    /\ UNCHANGED <<sys, closeList, reg, old, hand, callVars, link, agWs, owner, hello, toAgent, toGw>>

\* The end of Register: old.Close(), outside the registry's lock.
CloseOld(c) ==
    /\ gw[c] = "replacing"
    /\ gwWs' = Closed(gwWs, old[c], "closing")
    /\ gw' = [gw EXCEPT ![c] = "serving"]
    /\ old' = [old EXCEPT ![c] = NoConn]
    /\ UNCHANGED <<sys, closeList, reg, hand, callVars, link, agWs, owner, hello, toAgent, toGw>>

\* readLoop reads a response and looks its request_id up in pending.
ReadLoopRead(c) ==
    /\ gw[c] = "serving"
    /\ hand[c] = {}
    /\ gwWs[c] # "closed"
    /\ \E m \in toGw[c] :
        /\ toGw' = [toGw EXCEPT ![c] = @ \ {m}]
        /\ hand' = [hand EXCEPT ![c] =
                       {[to |-> p.call, msg |-> m] : p \in {q \in pending[c] : q.id = m.id}}]
    /\ UNCHANGED <<sys, closeList, reg, gw, old, callVars, link, gwWs, agWs, owner, hello, toAgent>>

\* Mutant of ChanHasRoom: an unbuffered channel, which needs its receiver in the select.
ChanUnbuffered(k) == ch[k] = {} /\ call[k] = "wait"

\* A response channel has room for one response: make(chan *proto.Response, 1).
ChanHasRoom(k) == ch[k] = {}

\* readLoop's ch <- &resp, outside the lock.
ReadLoopSend(c) ==
    /\ gw[c] = "serving"
    /\ \E h \in hand[c] :
        /\ ChanHasRoom(h.to)
        /\ ch' = [ch EXCEPT ![h.to] = @ \cup {h.msg.call}]
    /\ hand' = [hand EXCEPT ![c] = {}]
    /\ UNCHANGED <<sys, closeList, reg, gw, old, nextID, pending, call, callConn, callId,
                   ctxDone, result, answer, transportVars>>

\* readLoop's Read fails: it returns and its deferred close(c.closed) runs.
ReadLoopErr(c) ==
    /\ gw[c] = "serving"
    /\ hand[c] = {}
    /\ GwFails(c)
    /\ gw' = [gw EXCEPT ![c] = "ended"]
    /\ UNCHANGED <<sys, closeList, reg, old, hand, callVars, transportVars>>

\* A response above the read limit: the library closes the connection, Read fails.
ReadLoopTooBig(c) ==
    /\ gw[c] = "serving"
    /\ hand[c] = {}
    /\ gwWs[c] # "closed"
    /\ \E m \in toGw[c] :
        /\ <<m.call, "response">> \in OverLimit
        /\ toGw' = [toGw EXCEPT ![c] = @ \ {m}]
    /\ gwWs' = Closed(gwWs, c, "closing")
    /\ gw' = [gw EXCEPT ![c] = "ended"]
    /\ UNCHANGED <<sys, closeList, reg, old, hand, callVars, link, agWs, owner, hello, toAgent>>

\* Mutant of PingFail: the failure is logged and the connection left alone.
PingFailIgnored(c) ==
    /\ gw[c] = "serving"
    /\ GwFails(c)
    /\ UNCHANGED <<gatewayVars, transportVars>>

\* pingLoop: no pong within pingTimeout, or the ping cannot be written: CloseNow.
PingFail(c) ==
    /\ gw[c] = "serving"
    /\ gwWs[c] = "open"
    /\ GwFails(c)
    /\ gwWs' = Closed(gwWs, c, "closed")
    /\ UNCHANGED <<gatewayVars, link, agWs, owner, hello, toAgent, toGw>>

\* Mutants of Unregister: without the identity check; and a handler that never unregisters.
UnregisterAny(c) ==
    /\ gw[c] = "ended"
    /\ reg' = [reg EXCEPT ![DeviceOfConn(c)] = NoConn]
    /\ gw' = [gw EXCEPT ![c] = "done"]
    /\ UNCHANGED <<sys, closeList, old, hand, callVars, transportVars>>

UnregisterNever(c) ==
    /\ gw[c] = "ended"
    /\ gw' = [gw EXCEPT ![c] = "done"]
    /\ UNCHANGED <<sys, closeList, reg, old, hand, callVars, transportVars>>

\* The handler's deferred Unregister, with its identity check.
Unregister(c) ==
    /\ gw[c] = "ended"
    /\ reg' = [reg EXCEPT ![DeviceOfConn(c)] = IF @ = c THEN NoConn ELSE @]
    /\ gw' = [gw EXCEPT ![c] = "done"]
    /\ UNCHANGED <<sys, closeList, old, hand, callVars, transportVars>>

-----------------------------------------------------------------------------
(* One RPC: deviceCall, then Call on the connection it found. *)

\* deviceCall: reg.Get, device_offline when there is no entry.
Get(k) ==
    LET c == reg[TargetOf[k]] IN
    /\ sys # "down"
    /\ call[k] = "idle"
    /\ \/ /\ c = NoConn
          /\ call' = [call EXCEPT ![k] = "done"]
          /\ result' = [result EXCEPT ![k] = "device_offline"]
          /\ UNCHANGED callConn
       \/ /\ c # NoConn
          /\ call' = [call EXCEPT ![k] = "got"]
          /\ callConn' = [callConn EXCEPT ![k] = c]
          /\ UNCHANGED result
    /\ UNCHANGED <<connVars, nextID, pending, callId, ch, ctxDone, answer, transportVars>>

\* Call takes the next request_id and inserts its channel into pending.  The id is
\* private to the call until the request is written, so the two are one step.
Begin(k) ==
    LET c == callConn[k]
        id == nextID[c] + 1
    IN
    /\ call[k] = "got"
    /\ nextID' = [nextID EXCEPT ![c] = id]
    /\ callId' = [callId EXCEPT ![k] = id]
    /\ pending' = [pending EXCEPT ![c] =
                      {p \in @ : p.id # id} \cup {[id |-> id, call |-> k]}]
    /\ call' = [call EXCEPT ![k] = "write"]
    /\ UNCHANGED <<connVars, callConn, ch, ctxDone, result, answer, transportVars>>

\* json.Marshal returns an error: of the params, in NewRequest, before the call has a
\* request_id; or of the request, after it has its entry in pending.  Nothing is written.
EncodeErr(k) ==
    /\ \/ call[k] = "got" /\ call' = [call EXCEPT ![k] = "done"]
       \/ call[k] = "write" /\ call' = [call EXCEPT ![k] = "cleanup"]
    /\ result' = [result EXCEPT ![k] = "encode_error"]
    /\ UNCHANGED <<connVars, nextID, pending, callConn, callId, ch, ctxDone, answer, transportVars>>

\* ws.Write, under writeMu, hands the frame to the network.
WriteFlush(k) ==
    LET c == callConn[k] IN
    /\ call[k] = "write"
    /\ gwWs[c] = "open"
    /\ toAgent' = Sent(toAgent, c, [id |-> callId[k], call |-> k])
    /\ call' = [call EXCEPT ![k] = "flushed"]
    /\ UNCHANGED <<connVars, nextID, pending, callConn, callId, ch, ctxDone, result, answer,
                   link, gwWs, agWs, owner, hello, toGw>>

\* Mutants of WriteErr: a failed write is retried on the device's next connection; it is
\* reported as device_offline; it returns without the deferred delete.
WriteErrRetried(k) ==
    LET c == callConn[k] IN
    /\ \/ call[k] = "write" /\ GwFails(c)
       \/ call[k] = "flushed" /\ gwWs[c] # "open"
    /\ call' = [call EXCEPT ![k] = "idle"]
    /\ UNCHANGED <<connVars, nextID, pending, callConn, callId, ch, ctxDone, result, answer, transportVars>>

WriteErrOffline(k) ==
    LET c == callConn[k] IN
    /\ \/ call[k] = "write" /\ GwFails(c)
       \/ call[k] = "flushed" /\ gwWs[c] # "open"
    /\ call' = [call EXCEPT ![k] = "cleanup"]
    /\ result' = [result EXCEPT ![k] = "device_offline"]
    /\ UNCHANGED <<connVars, nextID, pending, callConn, callId, ch, ctxDone, answer, transportVars>>

WriteErrLeaks(k) ==
    LET c == callConn[k] IN
    /\ call[k] \in {"write", "flushed"}
    /\ GwFails(c) \/ ctxDone[k]
    /\ gwWs' = IF ctxDone[k] THEN Closed(gwWs, c, "closed") ELSE gwWs
    /\ call' = [call EXCEPT ![k] = "done"]
    /\ result' = [result EXCEPT ![k] = "write_error"]
    /\ UNCHANGED <<connVars, nextID, pending, callConn, callId, ch, ctxDone, answer,
                   link, agWs, owner, hello, toAgent, toGw>>

\* ws.Write returns an error: nothing was written, or the frame was and the connection
\* was closed before Write returned.  A context that ends during the write closes the
\* connection, for every call on it.
WriteErr(k) ==
    LET c == callConn[k] IN
    /\ \/ call[k] = "write" /\ (GwFails(c) \/ ctxDone[k])
       \/ call[k] = "flushed" /\ (gwWs[c] # "open" \/ ctxDone[k])
    /\ gwWs' = IF ctxDone[k] THEN Closed(gwWs, c, "closed") ELSE gwWs
    /\ call' = [call EXCEPT ![k] = "cleanup"]
    /\ result' = [result EXCEPT ![k] = "write_error"]
    /\ UNCHANGED <<connVars, nextID, pending, callConn, callId, ch, ctxDone, answer,
                   link, agWs, owner, hello, toAgent, toGw>>

\* ws.Write returns nil and Call enters its select.
WriteOk(k) ==
    /\ call[k] = "flushed"
    /\ call' = [call EXCEPT ![k] = "wait"]
    /\ UNCHANGED <<connVars, nextID, pending, callConn, callId, ch, ctxDone, result, answer,
                   transportVars>>

\* select, case resp := <-ch.
SelectResponse(k) ==
    /\ call[k] = "wait"
    /\ \E j \in ch[k] :
        /\ answer' = [answer EXCEPT ![k] = j]
        /\ ch' = [ch EXCEPT ![k] = @ \ {j}]
    /\ result' = [result EXCEPT ![k] = "response"]
    /\ call' = [call EXCEPT ![k] = "cleanup"]
    /\ UNCHANGED <<connVars, nextID, pending, callConn, callId, ctxDone, transportVars>>

\* select, case <-ctx.Done().
SelectTimeout(k) ==
    /\ call[k] = "wait"
    /\ ctxDone[k]
    /\ result' = [result EXCEPT ![k] = "timeout"]
    /\ call' = [call EXCEPT ![k] = "cleanup"]
    /\ UNCHANGED <<connVars, nextID, pending, callConn, callId, ch, ctxDone, answer, transportVars>>

\* select, case <-c.closed.
SelectClosed(k) ==
    /\ call[k] = "wait"
    /\ gw[callConn[k]] \in {"ended", "done"}
    /\ result' = [result EXCEPT ![k] =
                     IF IsMutatingMethod(methodOf(ToolOf[k])) THEN "execution_unknown" ELSE "transport_lost"]
    /\ call' = [call EXCEPT ![k] = "cleanup"]
    /\ UNCHANGED <<connVars, nextID, pending, callConn, callId, ch, ctxDone, answer, transportVars>>

\* Call's deferred delete(c.pending, req.RequestID).
Cleanup(k) ==
    /\ call[k] = "cleanup"
    /\ pending' = [pending EXCEPT ![callConn[k]] = {p \in @ : p.id # callId[k]}]
    /\ call' = [call EXCEPT ![k] = "done"]
    /\ UNCHANGED <<connVars, nextID, callConn, callId, ch, ctxDone, result, answer, transportVars>>

\* The MCP client gives up: its HTTP request's context is cancelled.
CtxCancel(k) ==
    /\ call[k] \in {"got", "write", "flushed", "wait"}
    /\ ~ctxDone[k]
    /\ ctxDone' = [ctxDone EXCEPT ![k] = TRUE]
    /\ UNCHANGED <<connVars, nextID, pending, call, callConn, callId, ch, result, answer, transportVars>>

-----------------------------------------------------------------------------
(* The process: SIGTERM, CloseAll, exit; and its restart. *)

\* Mutant of CloseAll: the snapshot keeps a nil for a device without a connection.
CloseAllNil ==
    /\ sys = "up"
    /\ sys' = "closing"
    /\ closeList' = {reg[d] : d \in Devices}
    /\ reg' = [d \in Devices |-> NoConn]
    /\ UNCHANGED <<gw, old, hand, callVars, transportVars>>

\* The signal: CloseAll snapshots the registry and empties it, under the lock.
CloseAll ==
    /\ sys = "up"
    /\ sys' = "closing"
    /\ closeList' = {reg[d] : d \in Devices} \ {NoConn}
    /\ reg' = [d \in Devices |-> NoConn]
    /\ UNCHANGED <<gw, old, hand, callVars, transportVars>>

\* CloseAll's loop over its snapshot, outside the lock.
CloseOne(c) ==
    /\ sys = "closing"
    /\ c \in closeList
    /\ closeList' = closeList \ {c}
    /\ gwWs' = Closed(gwWs, c, "closing")
    /\ UNCHANGED <<sys, reg, gw, old, hand, callVars, link, agWs, owner, hello, toAgent, toGw>>

\* The process is gone: its sockets are closed by the kernel, its memory is lost, and
\* the MCP clients of the calls in progress lose their HTTP connection.
Halt ==
    LET inProgress == {k \in Calls : call[k] \notin {"idle", "done"}} IN
    /\ sys' = "down"
    /\ closeList' = {}
    /\ reg' = [d \in Devices |-> NoConn]
    /\ gw' = [c \in Conns |-> IF gw[c] = "none" THEN "none" ELSE "done"]
    /\ gwWs' = [c \in Conns |-> IF gwWs[c] = "none" THEN "none" ELSE "closed"]
    /\ old' = [c \in Conns |-> NoConn]
    /\ pending' = [c \in Conns |-> {}]
    /\ hand' = [c \in Conns |-> {}]
    /\ call' = [k \in Calls |-> IF k \in inProgress THEN "done" ELSE call[k]]
    /\ result' = [k \in Calls |-> IF k \in inProgress THEN "gone" ELSE result[k]]
    /\ UNCHANGED <<nextID, callConn, callId, ch, ctxDone, answer, link, agWs, owner, hello, toAgent, toGw>>

\* Both servers are shut down; main returns as soon as the MCP listener is closed,
\* without waiting for the calls in progress.
Exit ==
    /\ sys = "closing"
    /\ closeList = {}
    /\ Halt

\* The process dies without a signal it handles.
Crash ==
    /\ sys # "down"
    /\ Halt

\* main: a fresh Registry and two listeners.
Start ==
    /\ sys = "down"
    /\ sys' = "up"
    /\ UNCHANGED <<closeList, reg, gw, old, hand, callVars, transportVars>>
=============================================================================
