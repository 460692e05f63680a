----------------------------- MODULE Transport -----------------------------
(***************************************************************************)
(* The WebSocket connections between Agents and the Gateway, as the code   *)
(* uses them through github.com/coder/websocket (an external library).     *)
(*                                                                         *)
(* A connection has a Gateway end, an Agent end, a link between them and   *)
(* the frames in transit.  A frame is never duplicated or corrupted.  The  *)
(* order of the frames of one direction is not kept: every request runs in *)
(* a goroutine of its own (agent/connection.go:119) and a response finds   *)
(* its call by request_id, so neither end can observe that order.          *)
(***************************************************************************)
EXTENDS Naturals

CONSTANTS
    Agents,      \* Agent processes
    Conns,       \* connections, numbered in the order in which they are dialled
    Calls,       \* RPCs the MCP clients ask for
    NoAgent, NoConn, NoCall,   \* none of them
    OverLimit    \* the calls whose request, or response, may exceed MaxRPCMessageBytes

ASSUME ConnsAssumption == Conns \subseteq Nat
ASSUME NonesAssumption == NoAgent \notin Agents /\ NoConn \notin Conns /\ NoCall \notin Calls
ASSUME OverLimitAssumption == OverLimit \subseteq Calls \X {"request", "response"}

VARIABLES
    link,        \* link[c]: "up", or "down" when the network stops carrying frames
    gwWs,        \* gwWs[c]: the Gateway's *websocket.Conn; "closing" after Close
    agWs,        \* agWs[c]: the Agent's *websocket.Conn
    owner,       \* owner[c]: the Agent that dialled c (its hello names it)
    hello,       \* hello[c]: the hello frame is in transit
    toAgent,     \* toAgent[c]: request frames in transit
    toGw         \* toGw[c]: response frames in transit

transportVars == <<link, gwWs, agWs, owner, hello, toAgent, toGw>>

\* A request or response frame: its request_id, and the call whose payload it carries.
Msg == [id : Nat, call : Calls]

TransportTypeOK ==
    /\ link \in [Conns -> {"up", "down"}]
    /\ gwWs \in [Conns -> {"none", "open", "closing", "closed"}]
    /\ agWs \in [Conns -> {"none", "open", "closed"}]
    /\ owner \in [Conns -> Agents \cup {NoAgent}]
    /\ hello \in [Conns -> BOOLEAN]
    /\ toAgent \in [Conns -> SUBSET Msg]
    /\ toGw \in [Conns -> SUBSET Msg]

TransportInit ==
    /\ link = [c \in Conns |-> "up"]
    /\ gwWs = [c \in Conns |-> "none"]
    /\ agWs = [c \in Conns |-> "none"]
    /\ owner = [c \in Conns |-> NoAgent]
    /\ hello = [c \in Conns |-> FALSE]
    /\ toAgent = [c \in Conns |-> {}]
    /\ toGw = [c \in Conns |-> {}]

\* When ws.Read, ws.Write or ws.Ping on one end can return an error: the end was
\* closed locally, the peer closed, or the network is gone.
GwFails(c) == gwWs[c] # "open" \/ link[c] = "down" \/ agWs[c] = "closed"
AgFails(c) == agWs[c] # "open" \/ link[c] = "down" \/ gwWs[c] # "open"

\* When ws.Read is certain to return an error in the end.  A link that silently
\* drops everything is not such a case: only a failed ping reveals it.
GwSeesClose(c) == gwWs[c] # "open" \/ (link[c] = "up" /\ agWs[c] = "closed")
AgSeesClose(c) == agWs[c] # "open" \/ (link[c] = "up" /\ gwWs[c] # "open")

\* A frame handed to the network: lost when the link is down, although the write succeeds.
Sent(queue, c, m) ==
    IF link[c] = "up" THEN [queue EXCEPT ![c] = @ \cup {m}] ELSE queue

\* ws.Close sends a close frame, ws.CloseNow drops the connection at once.
Closed(ws, c, how) == [ws EXCEPT ![c] = IF @ = "open" THEN how ELSE @]

\* The network stops carrying frames; neither end is told.  Frames that already
\* reached the receiving host can still be read.
LinkDown(c) ==
    /\ agWs[c] = "open" \/ gwWs[c] = "open"
    /\ link[c] = "up"
    /\ link' = [link EXCEPT ![c] = "down"]
    /\ UNCHANGED <<gwWs, agWs, owner, hello, toAgent, toGw>>
=============================================================================
