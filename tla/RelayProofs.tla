---------------------------- MODULE RelayProofs ----------------------------
(***************************************************************************)
(* Theorems about Relay, for every set of Agents, devices, connections and *)
(* calls and every number of faults.                                       *)
(***************************************************************************)
EXTENDS Relay, TLAPS


-----------------------------------------------------------------------------
(* Type correctness. *)

\* A call in progress holds a connection.  TypeOK alone is not inductive: Begin reads
\* nextID[callConn[k]].
CallsRouted == \A k \in Calls : call[k] \notin {"idle", "done"} => callConn[k] \in Conns

\* The initial state has the types.
LEMMA InitTypeOK == Init => TypeOK
<1> SUFFICES ASSUME Init PROVE TypeOK
  OBVIOUS
<1>1. TransportTypeOK
  BY DEF Init, TransportInit, TransportTypeOK
<1>2. GatewayTypeOK
  BY DEF Init, GatewayInit, GatewayTypeOK, Results
<1>3. AgentTypeOK
  BY DEF Init, AgentInit, AgentTypeOK
<1>4. faults \in 0 .. MaxFaults
  BY FaultsAssumption DEF Init
<1> QED
  BY <1>1, <1>2, <1>3, <1>4 DEF TypeOK

\* Each step preserves the types: one step per action.
LEMMA NextTypeOK == TypeOK /\ CallsRouted /\ [Next]_vars => TypeOK'
<1> SUFFICES ASSUME TypeOK, CallsRouted, [Next]_vars PROVE TypeOK'
  OBVIOUS
<1> USE DEF TypeOK, TransportTypeOK, GatewayTypeOK, AgentTypeOK
<1>1. ASSUME NEW a \in Agents, NEW c \in Conns, Connect(a, c)
      PROVE  TypeOK'
  BY <1>1 DEF Connect, Dial, Accept, callVars
<1>2. ASSUME NEW c \in Conns, ConnStep(c), UNCHANGED <<agentVars, faults>>
      PROVE  TypeOK'
  <2> USE <1>2 DEF agentVars
  <2>1. CASE ReadHello(c)
    <3>0. hello' \in [Conns -> BOOLEAN]
      BY <2>1 DEF ReadHello
    <3>1. CASE owner[c] \in Trusted
      <4>1. PICK d \in Devices : d = DeviceOfConn(c)
        BY <3>1, GatewayAssumption DEF DeviceOfConn
      <4>2. /\ reg' \in [Devices -> Conns \cup {NoConn}]
            /\ old' \in [Conns -> Conns \cup {NoConn}]
            /\ gw' \in [Conns -> {"none", "hello", "replacing", "serving", "ended", "done"}]
        <5>1. /\ reg' = [reg EXCEPT ![d] = c]
              /\ old' = [old EXCEPT ![c] = reg[d]]
              /\ gw' = [gw EXCEPT ![c] = IF reg[d] = NoConn THEN "serving" ELSE "replacing"]
          BY <2>1, <3>1, <4>1 DEF ReadHello, Register
        <5> QED
          BY <5>1
      <4> QED
        BY <2>1, <3>0, <3>1, <4>2 DEF ReadHello, callVars
    <3>2. CASE owner[c] \notin Trusted
      BY <2>1, <3>0, <3>2, SMTT(60) DEF ReadHello, Closed, callVars
    <3> QED
      BY <3>1, <3>2
  <2>2. CASE HelloErr(c)
    BY <2>2 DEF HelloErr, Closed, callVars
  <2>3. CASE CloseOld(c)
    BY <2>3 DEF CloseOld, Closed, callVars
  <2>4. CASE ReadLoopRead(c)
    BY <2>4 DEF ReadLoopRead, Msg, callVars
  <2>5. CASE ReadLoopSend(c)
    BY <2>5 DEF ReadLoopSend, Msg, transportVars
  <2>6. CASE ReadLoopErr(c)
    BY <2>6 DEF ReadLoopErr, callVars, transportVars
  <2>7. CASE ReadLoopTooBig(c)
    BY <2>7 DEF ReadLoopTooBig, Closed, callVars
  <2>8. CASE PingFail(c)
    BY <2>8 DEF PingFail, Closed, gatewayVars, connVars, callVars
  <2>9. CASE Unregister(c)
    BY <2>9, GatewayAssumption DEF Unregister, callVars, transportVars
  <2>10. CASE CloseOne(c)
    BY <2>10 DEF CloseOne, Closed, callVars
  <2> QED
    BY <2>1, <2>2, <2>3, <2>4, <2>5, <2>6, <2>7, <2>8, <2>9, <2>10 DEF ConnStep
<1>3. ASSUME NEW k \in Calls, CallStep(k), UNCHANGED <<agentVars, faults>>
      PROVE  TypeOK'
  <2> USE <1>3 DEF agentVars
  <2>1. CASE Get(k)
    <3>1. reg[TargetOf[k]] \in Conns \cup {NoConn}
      BY GatewayAssumption
    <3>2. CASE reg[TargetOf[k]] = NoConn
      <4>1. /\ call' = [call EXCEPT ![k] = "done"]
            /\ result' = [result EXCEPT ![k] = "device_offline"]
            /\ UNCHANGED <<connVars, nextID, pending, callConn, callId, ch, ctxDone, answer, transportVars>>
        BY <2>1, <3>2 DEF Get
      <4> QED
        BY <4>1 DEF Results, connVars, transportVars
    <3>3. CASE reg[TargetOf[k]] # NoConn
      <4>1. /\ call' = [call EXCEPT ![k] = "got"]
            /\ callConn' = [callConn EXCEPT ![k] = reg[TargetOf[k]]]
            /\ UNCHANGED <<connVars, nextID, pending, callId, ch, ctxDone, result, answer, transportVars>>
        BY <2>1, <3>3 DEF Get
      <4> QED
        BY <3>1, <4>1 DEF connVars, transportVars
    <3> QED
      BY <3>2, <3>3
  <2>2. CASE Begin(k)
    <3> DEFINE c == callConn[k]
    <3> DEFINE id == nextID[c] + 1
    <3>1. c \in Conns /\ id \in Nat
      BY <2>2, SMTT(60) DEF Begin, CallsRouted
    <3>2. [id |-> id, call |-> k] \in Msg
      BY <3>1 DEF Msg
    <3> HIDE DEF c, id
    <3>3. /\ nextID' = [nextID EXCEPT ![c] = id]
          /\ callId' = [callId EXCEPT ![k] = id]
          /\ pending' = [pending EXCEPT ![c] = {p \in pending[c] : p.id # id} \cup {[id |-> id, call |-> k]}]
          /\ call' = [call EXCEPT ![k] = "write"]
          /\ UNCHANGED <<connVars, callConn, ch, ctxDone, result, answer, transportVars>>
      BY <2>2, <3>1 DEF Begin, c, id
    <3> QED
      BY <3>1, <3>2, <3>3 DEF connVars, transportVars
  <2>3. CASE WriteFlush(k)
    <3>1. callConn[k] \in Conns
      BY <2>3 DEF WriteFlush, CallsRouted
    <3>2. [id |-> callId[k], call |-> k] \in Msg
      BY DEF Msg
    <3>3. toAgent' \in [Conns -> SUBSET Msg]
      BY <2>3, <3>1, <3>2 DEF WriteFlush, Sent
    <3> QED
      BY <2>3, <3>3 DEF WriteFlush, connVars
  <2>4. CASE WriteErr(k)
    BY <2>4 DEF WriteErr, Closed, Results, connVars
  <2>5. CASE WriteOk(k)
    BY <2>5 DEF WriteOk, connVars, transportVars
  <2>6. CASE SelectResponse(k)
    BY <2>6 DEF SelectResponse, Results, connVars, transportVars
  <2>7. CASE SelectTimeout(k)
    BY <2>7 DEF SelectTimeout, Results, connVars, transportVars
  <2>8. CASE SelectClosed(k)
    BY <2>8 DEF SelectClosed, Results, connVars, transportVars
  <2>9. CASE Cleanup(k)
    BY <2>9 DEF Cleanup, connVars, transportVars
  <2>10. CASE CtxCancel(k)
    BY <2>10 DEF CtxCancel, connVars, transportVars
  <2>11. CASE EncodeErr(k)
    BY <2>11 DEF EncodeErr, Results, connVars, transportVars
  <2> QED
    BY <2>1, <2>2, <2>3, <2>4, <2>5, <2>6, <2>7, <2>8, <2>9, <2>10, <2>11 DEF CallStep
<1>4. ASSUME Halt, UNCHANGED agentVars, faults' \in 0 .. MaxFaults
      PROVE  TypeOK'
  BY <1>4 DEF Halt, Results, agentVars
<1>5. ASSUME ProcessStep, UNCHANGED <<agentVars, faults>>
      PROVE  TypeOK'
  BY <1>4, <1>5 DEF ProcessStep, Exit, Start, agentVars, callVars, transportVars
<1>6. ASSUME NEW c \in Conns, AgentStep(c), UNCHANGED <<gatewayVars, faults>>
      PROVE  TypeOK'
  <2> USE <1>6 DEF gatewayVars, connVars, callVars
  <2>1. CASE WriteHello(c)
    BY <2>1 DEF WriteHello
  <2>2. CASE WriteHelloErr(c)
    BY <2>2 DEF WriteHelloErr, Return, Closed
  <2>3. CASE ReadRequest(c)
    BY <2>3 DEF ReadRequest
  <2>4. CASE ReadErr(c)
    BY <2>4 DEF ReadErr, Return, Closed
  <2>5. CASE ReadTooBig(c)
    <3>1. toAgent' \in [Conns -> SUBSET Msg]
      BY <2>5 DEF ReadTooBig
    <3> QED
      BY <2>5, <3>1 DEF ReadTooBig, Return, Closed
  <2>6. CASE AgentPingFail(c)
    BY <2>6 DEF AgentPingFail, Closed, agentVars
  <2>7. CASE Handle(c)
    BY <2>7 DEF Handle, Msg, transportVars
  <2>8. CASE HandlePanic(c)
    <3>1. PICK m \in running[c] :
            /\ running' = [running EXCEPT ![c] = @ \ {m}]
            /\ applied' = [applied EXCEPT ![m.call] = @ + 1] \/ UNCHANGED applied
      BY <2>8 DEF HandlePanic
    <3>2. applied' \in [Calls -> Nat]
      <4>1. m.call \in Calls
        BY DEF Msg
      <4>2. applied[m.call] + 1 \in Nat
        BY <4>1
      <4> QED
        BY <3>1, <4>1, <4>2, SMTT(60)
    <3> QED
      BY <2>8, <3>1, <3>2 DEF HandlePanic, transportVars
  <2>9. CASE Reply(c)
    BY <2>9 DEF Reply, Sent
  <2>10. CASE ReplyErr(c)
    BY <2>10 DEF ReplyErr, Closed
  <2> QED
    BY <2>1, <2>2, <2>3, <2>4, <2>5, <2>6, <2>7, <2>8, <2>9, <2>10 DEF AgentStep
<1>7. ASSUME Fault
      PROVE  TypeOK'
  <2>1. faults' \in 0 .. MaxFaults
    BY <1>7, FaultsAssumption DEF Fault
  <2>2. ASSUME NEW c \in Conns, LinkDown(c), UNCHANGED <<gatewayVars, agentVars>>
        PROVE  TypeOK'
    BY <2>1, <2>2 DEF LinkDown, gatewayVars, connVars, callVars, agentVars
  <2>3. CASE CloseAll /\ UNCHANGED agentVars
    BY <2>1, <2>3 DEF CloseAll, agentVars, callVars, transportVars
  <2>4. CASE Crash /\ UNCHANGED agentVars
    BY <1>4, <2>1, <2>4 DEF Crash
  <2>5. ASSUME NEW a \in Agents, AgentCrash(a), UNCHANGED gatewayVars
        PROVE  TypeOK'
    BY <2>1, <2>5 DEF AgentCrash, gatewayVars, connVars, callVars
  <2> QED
    BY <1>7, <2>2, <2>3, <2>4, <2>5 DEF Fault
<1>8. CASE UNCHANGED vars
  BY <1>8 DEF vars, gatewayVars, connVars, callVars, agentVars, transportVars
<1> QED
  BY <1>1, <1>2, <1>3, <1>5, <1>6, <1>7, <1>8 DEF Next


\* No call has started yet.
LEMMA InitCallsRouted == Init => CallsRouted
  BY DEF Init, GatewayInit, CallsRouted

\* Only Get moves a call out of idle, and it takes the connection from the registry.
LEMMA NextCallsRouted == TypeOK /\ CallsRouted /\ [Next]_vars => CallsRouted'
<1> SUFFICES ASSUME TypeOK, CallsRouted, [Next]_vars PROVE CallsRouted'
  OBVIOUS
<1> USE DEF CallsRouted
<1>1. ASSUME UNCHANGED <<call, callConn>>
      PROVE  CallsRouted'
  BY <1>1
<1>2. ASSUME NEW k \in Calls, CallStep(k)
      PROVE  CallsRouted'
  <2> USE DEF TypeOK, GatewayTypeOK
  <2>1. CASE Get(k)
    BY <2>1, GatewayAssumption DEF Get
  <2>2. CASE Begin(k) \/ EncodeErr(k) \/ WriteFlush(k) \/ WriteErr(k) \/ WriteOk(k) \/ SelectResponse(k)
          \/ SelectTimeout(k) \/ SelectClosed(k) \/ Cleanup(k) \/ CtxCancel(k)
    BY <2>2 DEF Begin, EncodeErr, WriteFlush, WriteErr, WriteOk, SelectResponse, SelectTimeout,
                SelectClosed, Cleanup, CtxCancel
  <2> QED
    BY <1>2, <2>1, <2>2 DEF CallStep
<1>3. ASSUME Halt
      PROVE  CallsRouted'
  BY <1>3 DEF Halt, TypeOK, GatewayTypeOK
<1>4. ASSUME NEW c \in Conns, ConnStep(c)
      PROVE  UNCHANGED <<call, callConn>>
  BY <1>4 DEF ConnStep, ReadHello, HelloErr, CloseOld, ReadLoopRead, ReadLoopSend, ReadLoopErr,
      ReadLoopTooBig, PingFail, Unregister, CloseOne, gatewayVars, callVars
<1>5. ASSUME Fault
      PROVE  CallsRouted'
  BY <1>1, <1>3, <1>5 DEF Fault, CloseAll, Crash, gatewayVars, callVars
<1>6. ASSUME ProcessStep
      PROVE  CallsRouted'
  BY <1>1, <1>3, <1>6 DEF ProcessStep, Exit, Start, callVars
<1> QED
  BY <1>1, <1>2, <1>4, <1>5, <1>6
  DEF Next, Connect, Accept, vars, gatewayVars, callVars

\* Every variable keeps its type: in particular a connection taken from the registry, from
\* old or from CloseAll's snapshot is a connection.
THEOREM TypeCorrect == Spec => []TypeOK
<1>1. Init => TypeOK /\ CallsRouted
  BY InitTypeOK, InitCallsRouted
<1>2. TypeOK /\ CallsRouted /\ [Next]_vars => TypeOK' /\ CallsRouted'
  BY NextTypeOK, NextCallsRouted
<1> QED
  BY <1>1, <1>2, PTL DEF Spec

-----------------------------------------------------------------------------
(* Correlation and at-most-once execution: the inductive invariant. *)

\* Everything that carries a request_id of connection c.
Frames(c) == toAgent[c] \cup running[c] \cup replying[c] \cup toGw[c] \cup pending[c]

\* It belongs to a call that was made on c under that very request_id.
FramesMatch ==
    \A c \in Conns : \A m \in Frames(c) :
        m.id # 0 /\ callConn[m.call] = c /\ callId[m.call] = m.id

HandMatches ==
    \A c \in Conns : \A h \in hand[c] : h.to = h.msg.call /\ callConn[h.to] = c

\* request_ids: one per call that passed Begin, never above nextID, never shared.
IdsTaken ==
    \A k \in Calls :
        /\ call[k] \in {"idle", "got"} => callId[k] = 0
        /\ call[k] \in {"write", "flushed", "wait", "cleanup"} => callId[k] # 0
        /\ callId[k] # 0 => callConn[k] \in Conns /\ callId[k] <= nextID[callConn[k]]

IdsUnique ==
    \A j, k \in Calls :
        callId[j] # 0 /\ callId[j] = callId[k] /\ callConn[j] = callConn[k] => j = k

\* A response channel only ever holds its own call's response.
ChanOwn == \A k \in Calls : ch[k] \subseteq {k}

Correlated ==
    FramesMatch /\ HandMatches /\ IdsTaken /\ IdsUnique /\ ChanOwn /\ ResponseCorrelation

\* Nothing carries a call that was not written yet.
Unsent ==
    \A k \in Calls : call[k] \in {"idle", "got", "write"} =>
        /\ applied[k] = 0
        /\ \A c \in Conns : \A m \in toAgent[c] \cup running[c] : m.call # k

\* A call is carried out when its request leaves running: it is in one place at a time.
Once ==
    /\ \A k \in Calls : applied[k] \in {0, 1}
    /\ \A k \in Calls : callId[k] = 0 => applied[k] = 0
    /\ \A c \in Conns : \A m \in toAgent[c] : applied[m.call] = 0 /\ m \notin running[c]
    /\ \A c \in Conns : \A m \in running[c] : applied[m.call] = 0
    /\ \A c \in Conns : \A m \in replying[c] \cup toGw[c] : applied[m.call] = 1
    /\ \A c \in Conns : \A h \in hand[c] : applied[h.to] = 1

\* So is its response.
ResponseOnce ==
    \A c \in Conns :
        /\ \A m \in replying[c] : m \notin toGw[c]
        /\ \A m \in replying[c] \cup toGw[c] : ch[m.call] = {} /\ \A h \in hand[c] : h.to # m.call
        /\ \A h \in hand[c] : ch[h.to] = {}

Answered ==
    \A k \in Calls :
        /\ ch[k] # {} \/ result[k] = "response" => applied[k] = 1
        /\ result[k] = "device_offline" => callId[k] = 0 /\ call[k] = "done"

IInv == TypeOK /\ CallsRouted /\ Correlated /\ Unsent /\ Once /\ ResponseOnce /\ Answered

coreVars == <<toAgent, running, replying, toGw, pending, hand, callConn, callId, nextID,
              call, ch, applied, result, answer>>

CoreInv == Correlated /\ Unsent /\ Once /\ ResponseOnce /\ Answered

\* The facts about frames the steps below need: records of Msg are determined by their
\* fields, and two frames of one call are the same frame.
LEMMA SameFrame ==
  ASSUME TypeOK, CoreInv, NEW b \in Conns, NEW c \in Conns,
         NEW m \in Frames(b), NEW n \in Frames(c), m.call = n.call
  PROVE  b = c /\ m = n
<1>1. m \in Msg /\ n \in Msg
  BY DEF TypeOK, TransportTypeOK, GatewayTypeOK, AgentTypeOK, Frames
<1>2. b = c /\ m.id = n.id
  BY DEF CoreInv, Correlated, FramesMatch
<1> QED
  BY <1>1, <1>2 DEF Msg

\* Steps that only remove frames, and leave calls and executions alone.
LEMMA Shrink ==
  ASSUME TypeOK, CoreInv,
         \A c \in Conns : /\ toAgent'[c] \subseteq toAgent[c]
                          /\ running'[c] \subseteq running[c]
                          /\ replying'[c] \subseteq replying[c]
                          /\ toGw'[c] \subseteq toGw[c],
         UNCHANGED <<pending, hand, callConn, callId, nextID, call, ch, applied, result, answer>>
  PROVE  CoreInv'
<1> USE DEF CoreInv
<1>1. Correlated'
  BY DEF Correlated, FramesMatch, HandMatches, IdsTaken, IdsUnique, ChanOwn, ResponseCorrelation, Frames
<1>2. Unsent'
  BY DEF Unsent
<1>3. Once'
  BY DEF Once
<1>4. ResponseOnce'
  BY DEF ResponseOnce
<1>5. Answered'
  BY DEF Answered
<1> QED
  BY <1>1, <1>2, <1>3, <1>4, <1>5

\* At the start there are no frames, no pending entries and no executions.
LEMMA InitCoreInv == Init => CoreInv
<1> SUFFICES ASSUME Init PROVE CoreInv
  OBVIOUS
<1> USE DEF Init, TransportInit, GatewayInit, AgentInit
<1>1. Correlated
  BY DEF Correlated, FramesMatch, HandMatches, IdsTaken, IdsUnique, ChanOwn, ResponseCorrelation, Frames
<1>2. Unsent /\ Once /\ ResponseOnce /\ Answered
  BY DEF Unsent, Once, ResponseOnce, Answered
<1> QED
  BY <1>1, <1>2 DEF CoreInv

\* The steps of Call.
LEMMA CallCoreInv ==
  ASSUME TypeOK, CallsRouted, CoreInv, NEW k \in Calls, CallStep(k), UNCHANGED <<agentVars, faults>>
  PROVE  CoreInv'
<1> USE DEF CoreInv, agentVars, transportVars, connVars
<1> USE DEF TypeOK, TransportTypeOK, GatewayTypeOK, AgentTypeOK
<1>1. CASE Get(k)
  <2>1. callId[k] = 0 /\ applied[k] = 0 /\ (callConn' = callConn \/ callConn' = [callConn EXCEPT ![k] = reg[TargetOf[k]]])
    BY <1>1 DEF Get, Correlated, IdsTaken, Unsent
  <2>2. Correlated'
    <3>1. FramesMatch'
      <4>1. \A c \in Conns : \A m \in Frames(c) : m.call # k /\ m.call \in Calls
        BY <2>1 DEF Correlated, FramesMatch, Frames, Msg
      <4>2. UNCHANGED <<toAgent, running, replying, toGw, pending, callId>>
        BY <1>1 DEF Get
      <4> QED
        BY <2>1, <4>1, <4>2 DEF Correlated, FramesMatch, Frames
    <3>2. HandMatches'
      BY <1>1, <2>1 DEF Get, Correlated, HandMatches, Once
    <3>3. IdsTaken' /\ IdsUnique'
      BY <1>1, <2>1 DEF Get, Correlated, IdsTaken, IdsUnique
    <3>4. ChanOwn' /\ ResponseCorrelation'
      BY <1>1 DEF Get, Correlated, ChanOwn, ResponseCorrelation
    <3> QED
      BY <3>1, <3>2, <3>3, <3>4 DEF Correlated
  <2>3. Unsent'
    BY <1>1, <2>1 DEF Get, Unsent
  <2>4. Once' /\ ResponseOnce'
    BY <1>1 DEF Get, Once, ResponseOnce
  <2>5. Answered'
    BY <1>1, <2>1 DEF Get, Answered
  <2> QED
    BY <2>2, <2>3, <2>4, <2>5
<1>2. CASE Begin(k)
  <2>1. PICK c \in Conns : c = callConn[k]
    BY <1>2 DEF Begin, CallsRouted
  <2>2. PICK id \in Nat \ {0} : id = nextID[c] + 1
    BY <2>1
  <2>3. /\ call[k] = "got"
        /\ nextID' = [nextID EXCEPT ![c] = id]
        /\ callId' = [callId EXCEPT ![k] = id]
        /\ pending' = [pending EXCEPT ![c] = {p \in pending[c] : p.id # id} \cup {[id |-> id, call |-> k]}]
        /\ call' = [call EXCEPT ![k] = "write"]
        /\ UNCHANGED <<toAgent, running, replying, toGw, hand, callConn, ch, applied, result, answer>>
    BY <1>2, <2>1, <2>2 DEF Begin
  <2>4. callId[k] = 0 /\ applied[k] = 0
    BY <2>3 DEF Correlated, IdsTaken, Unsent
  <2>5. \A j \in Calls : callConn[j] = c => callId[j] < id
    <3> SUFFICES ASSUME NEW j \in Calls, callConn[j] = c PROVE callId[j] < id
      OBVIOUS
    <3>1. callId[j] = 0 \/ callId[j] <= nextID[c]
      BY DEF Correlated, IdsTaken
    <3>2. callId[j] \in Nat /\ nextID[c] \in Nat
      OBVIOUS
    <3> QED
      BY <2>2, <3>1, <3>2
  <2>6. FramesMatch'
    BY <2>1, <2>2, <2>3, <2>4 DEF Correlated, FramesMatch, Frames
  <2>7. HandMatches' /\ IdsTaken' /\ ChanOwn' /\ ResponseCorrelation'
    BY <2>1, <2>2, <2>3, <2>5 DEF Correlated, HandMatches, IdsTaken, ChanOwn, ResponseCorrelation
  <2>8. IdsUnique'
    BY <2>1, <2>2, <2>3, <2>4, <2>5 DEF Correlated, IdsUnique
  <2>9. Unsent' /\ Once' /\ ResponseOnce'
    BY <2>2, <2>3, <2>4 DEF Unsent, Once, ResponseOnce
  <2>10. Answered'
    BY <2>3, <2>4 DEF Answered
  <2> QED
    BY <2>6, <2>7, <2>8, <2>9, <2>10 DEF Correlated
<1>3. CASE WriteFlush(k)
  <2>1. PICK c \in Conns : c = callConn[k]
    BY <1>3 DEF WriteFlush, CallsRouted
  <2> DEFINE m == [id |-> callId[k], call |-> k]
  <2>2. /\ call[k] = "write"
        /\ toAgent' = toAgent \/ toAgent' = [toAgent EXCEPT ![c] = @ \cup {m}]
        /\ call' = [call EXCEPT ![k] = "flushed"]
        /\ UNCHANGED <<running, replying, toGw, pending, hand, callConn, callId, nextID, ch, applied, result, answer>>
    BY <1>3, <2>1 DEF WriteFlush, Sent
  <2>3. callId[k] # 0 /\ applied[k] = 0 /\ m.call = k /\ m.id = callId[k]
    BY <2>2 DEF Correlated, IdsTaken, Unsent
  <2>4. \A b \in Conns : m \notin running[b]
    BY <2>2, <2>3 DEF Unsent
  <2>5. \A b \in Conns : \A n \in toAgent'[b] : n \in toAgent[b] \/ (n = m /\ b = c)
    BY <2>2
  <2> HIDE DEF m
  <2>6. Correlated'
    BY <2>1, <2>2, <2>3, <2>5 DEF Correlated, FramesMatch, HandMatches, IdsTaken, IdsUnique, ChanOwn,
       ResponseCorrelation, Frames
  <2>7. Unsent'
    BY <2>2, <2>3, <2>5 DEF Unsent
  <2>8. Once'
    BY <2>2, <2>3, <2>4, <2>5 DEF Once
  <2>9. ResponseOnce' /\ Answered'
    BY <2>2 DEF ResponseOnce, Answered
  <2> QED
    BY <2>6, <2>7, <2>8, <2>9
<1>4. CASE WriteErr(k) \/ WriteOk(k) \/ SelectTimeout(k) \/ SelectClosed(k)
  <2>1. /\ call[k] \in {"write", "flushed", "wait"}
        /\ call' = [call EXCEPT ![k] = "wait"] \/ call' = [call EXCEPT ![k] = "cleanup"]
        /\ result' = result \/ \E r \in {"write_error", "timeout", "execution_unknown", "transport_lost"} :
                                   result' = [result EXCEPT ![k] = r]
        /\ UNCHANGED <<toAgent, running, replying, toGw, pending, hand, callConn, callId, nextID, ch, applied, answer>>
    BY <1>4 DEF WriteErr, WriteOk, SelectTimeout, SelectClosed
  <2>2. callId[k] # 0
    BY <2>1 DEF Correlated, IdsTaken
  <2>3. Correlated'
    <3>1. FramesMatch' /\ HandMatches'
      BY <2>1, <2>2 DEF Correlated, FramesMatch, HandMatches, Frames
    <3>2. IdsTaken' /\ IdsUnique'
      BY <2>1, <2>2 DEF Correlated, IdsTaken, IdsUnique
    <3>3. ChanOwn' /\ ResponseCorrelation'
      BY <2>1, <2>2 DEF Correlated, ChanOwn, ResponseCorrelation
    <3> QED
      BY <3>1, <3>2, <3>3 DEF Correlated
  <2>4. Unsent' /\ Once' /\ ResponseOnce'
    BY <2>1 DEF Unsent, Once, ResponseOnce
  <2>5. Answered'
    BY <2>1 DEF Answered
  <2> QED
    BY <2>3, <2>4, <2>5
<1>5. CASE SelectResponse(k)
  <2>1. /\ call[k] = "wait" /\ k \in ch[k]
        /\ answer' = [answer EXCEPT ![k] = k]
        /\ ch' = [ch EXCEPT ![k] = {}]
        /\ result' = [result EXCEPT ![k] = "response"]
        /\ call' = [call EXCEPT ![k] = "cleanup"]
        /\ UNCHANGED <<toAgent, running, replying, toGw, pending, hand, callConn, callId, nextID, applied>>
    <3>1. PICK j \in ch[k] : /\ answer' = [answer EXCEPT ![k] = j]
                             /\ ch' = [ch EXCEPT ![k] = @ \ {j}]
      BY <1>5 DEF SelectResponse
    <3>2. ch[k] = {k} /\ j = k
      BY <3>1 DEF Correlated, ChanOwn
    <3>3. ch[k] \ {k} = {}
      BY <3>2
    <3>4. /\ call[k] = "wait"
          /\ result' = [result EXCEPT ![k] = "response"]
          /\ call' = [call EXCEPT ![k] = "cleanup"]
          /\ UNCHANGED <<toAgent, running, replying, toGw, pending, hand, callConn, callId, nextID, applied>>
      BY <1>5 DEF SelectResponse
    <3>5. /\ answer' = [answer EXCEPT ![k] = k]
          /\ ch' = [ch EXCEPT ![k] = {}]
      BY <3>1, <3>2, <3>3
    <3> QED
      BY <3>2, <3>4, <3>5
  <2>2. callId[k] # 0 /\ applied[k] = 1
    BY <2>1 DEF Correlated, IdsTaken, Answered
  <2>3. Correlated'
    <3>1. FramesMatch' /\ HandMatches'
      BY <2>1, <2>2 DEF Correlated, FramesMatch, HandMatches, Frames
    <3>2. IdsTaken' /\ IdsUnique'
      BY <2>1, <2>2 DEF Correlated, IdsTaken, IdsUnique
    <3>3. ChanOwn' /\ ResponseCorrelation'
      BY <2>1, <2>2 DEF Correlated, ChanOwn, ResponseCorrelation
    <3> QED
      BY <3>1, <3>2, <3>3 DEF Correlated
  <2>4. Unsent' /\ Once' /\ ResponseOnce'
    BY <2>1 DEF Unsent, Once, ResponseOnce
  <2>5. Answered'
    BY <2>1, <2>2 DEF Answered
  <2> QED
    BY <2>3, <2>4, <2>5
<1>6. CASE Cleanup(k)
  <2>1. /\ call' = [call EXCEPT ![k] = "done"]
        /\ \A c \in Conns : pending'[c] \subseteq pending[c]
        /\ UNCHANGED <<toAgent, running, replying, toGw, hand, callConn, callId, nextID, ch, applied, result, answer>>
    BY <1>6 DEF Cleanup
  <2>2. Correlated'
    <3>1. FramesMatch' /\ HandMatches'
      BY <2>1 DEF Correlated, FramesMatch, HandMatches, Frames
    <3>2. IdsTaken' /\ IdsUnique'
      BY <2>1 DEF Correlated, IdsTaken, IdsUnique
    <3>3. ChanOwn' /\ ResponseCorrelation'
      BY <2>1 DEF Correlated, ChanOwn, ResponseCorrelation
    <3> QED
      BY <3>1, <3>2, <3>3 DEF Correlated
  <2>3. Unsent'
    BY <2>1 DEF Unsent
  <2>4. Once' /\ ResponseOnce'
    BY <2>1 DEF Once, ResponseOnce
  <2>5. Answered'
    BY <2>1 DEF Answered
  <2> QED
    BY <2>2, <2>3, <2>4, <2>5
<1>7. CASE CtxCancel(k)
  BY <1>7, Shrink DEF CtxCancel
<1>8. CASE EncodeErr(k)
  <2>1. /\ \/ call[k] = "got" /\ call' = [call EXCEPT ![k] = "done"]
           \/ call[k] = "write" /\ call' = [call EXCEPT ![k] = "cleanup"]
        /\ result' = [result EXCEPT ![k] = "encode_error"]
        /\ UNCHANGED <<toAgent, running, replying, toGw, pending, hand, callConn, callId, nextID, ch, applied, answer>>
    BY <1>8 DEF EncodeErr
  <2>2. FramesMatch' /\ HandMatches'
    BY <2>1 DEF Correlated, FramesMatch, HandMatches, Frames
  <2>3. IdsTaken' /\ IdsUnique'
    BY <2>1 DEF Correlated, IdsTaken, IdsUnique
  <2>4. ChanOwn' /\ ResponseCorrelation'
    BY <2>1 DEF Correlated, ChanOwn, ResponseCorrelation
  <2>5. Unsent' /\ Once' /\ ResponseOnce' /\ Answered'
    BY <2>1 DEF Unsent, Once, ResponseOnce, Answered
  <2> QED
    BY <2>2, <2>3, <2>4, <2>5 DEF Correlated
<1> QED
  BY <1>1, <1>2, <1>3, <1>4, <1>5, <1>6, <1>7, <1>8 DEF CallStep

\* The steps of readLoop that move a response.
LEMMA ConnCoreInv ==
  ASSUME TypeOK, CoreInv, NEW c \in Conns, ConnStep(c), UNCHANGED <<agentVars, faults>>
  PROVE  CoreInv'
<1> USE DEF agentVars, transportVars, callVars
<1>1. CASE ReadLoopRead(c)
  <2>1. PICK m \in toGw[c] :
          /\ toGw' = [toGw EXCEPT ![c] = @ \ {m}]
          /\ hand' = [hand EXCEPT ![c] =
                         {[to |-> p.call, msg |-> m] : p \in {q \in pending[c] : q.id = m.id}}]
    BY <1>1 DEF ReadLoopRead
  <2>2. hand[c] = {} /\ UNCHANGED <<toAgent, running, replying, pending, callConn, callId, nextID,
                                    call, ch, applied, result, answer>>
    BY <1>1 DEF ReadLoopRead
  <2>3. m \in Frames(c) /\ m.call \in Calls
    BY DEF Frames, TypeOK, TransportTypeOK, Msg
  <2>4. \A p \in pending[c] : p.id = m.id => p.call = m.call
    <3> SUFFICES ASSUME NEW p \in pending[c], p.id = m.id PROVE p.call = m.call
      OBVIOUS
    <3>1. p \in Frames(c) /\ p.call \in Calls
      BY DEF Frames, TypeOK, GatewayTypeOK, Msg
    <3>2. /\ callConn[p.call] = c /\ callId[p.call] = p.id /\ p.id # 0
          /\ callConn[m.call] = c /\ callId[m.call] = m.id
      BY <2>3, <3>1 DEF CoreInv, Correlated, FramesMatch
    <3> QED
      BY <2>3, <3>1, <3>2 DEF CoreInv, Correlated, IdsUnique
  <2>5. \A h \in hand'[c] : h.to = m.call /\ h.msg = m
    BY <2>1, <2>4 DEF TypeOK, GatewayTypeOK
  <2>6. \A b \in Conns : b # c => hand'[b] = hand[b] /\ toGw'[b] = toGw[b]
    BY <2>1 DEF TypeOK, GatewayTypeOK, TransportTypeOK
  <2>7. toGw'[c] = toGw[c] \ {m}
    BY <2>1 DEF TypeOK, TransportTypeOK
  <2>8. /\ callConn[m.call] = c /\ applied[m.call] = 1 /\ ch[m.call] = {}
        /\ m \notin replying[c]
    BY <2>3 DEF CoreInv, Correlated, FramesMatch, Once, ResponseOnce
  <2>9. \A b \in Conns : toGw'[b] \subseteq toGw[b]
    BY <2>6, <2>7
  <2>10. FramesMatch'
    BY <2>2, <2>9 DEF CoreInv, Correlated, FramesMatch, Frames
  <2>11. HandMatches'
    BY <2>2, <2>5, <2>6, <2>8 DEF CoreInv, Correlated, HandMatches
  <2>12. IdsTaken' /\ IdsUnique' /\ ChanOwn' /\ ResponseCorrelation'
    BY <2>2 DEF CoreInv, Correlated, IdsTaken, IdsUnique, ChanOwn, ResponseCorrelation
  <2>13. Unsent'
    BY <2>2 DEF CoreInv, Unsent
  <2>14. Once'
    BY <2>2, <2>5, <2>6, <2>8, <2>9 DEF CoreInv, Once
  <2>15. ResponseOnce'
    <3>1. \A n \in replying[c] \cup toGw'[c] : n.call # m.call
      <4> SUFFICES ASSUME NEW n \in replying[c] \cup toGw'[c], n.call = m.call PROVE FALSE
        OBVIOUS
      <4>1. n \in Frames(c) /\ n # m
        BY <2>7, <2>8 DEF Frames
      <4> QED
        BY <2>3, <4>1, SameFrame
    <3> QED
      BY <2>2, <2>5, <2>6, <2>8, <2>9, <3>1 DEF CoreInv, ResponseOnce
  <2>16. Answered'
    BY <2>2 DEF CoreInv, Answered
  <2> QED
    BY <2>10, <2>11, <2>12, <2>13, <2>14, <2>15, <2>16 DEF CoreInv, Correlated
<1>2. CASE ReadLoopSend(c)
  <2>1. PICK h \in hand[c] : ch' = [ch EXCEPT ![h.to] = @ \cup {h.msg.call}]
    BY <1>2 DEF ReadLoopSend
  <2>2. /\ hand' = [hand EXCEPT ![c] = {}]
        /\ UNCHANGED <<toAgent, running, replying, toGw, pending, callConn, callId, nextID,
                       call, applied, result, answer>>
    BY <1>2 DEF ReadLoopSend
  <2>3. h.to \in Calls /\ h.msg.call = h.to /\ callConn[h.to] = c /\ applied[h.to] = 1
    BY DEF CoreInv, Correlated, HandMatches, Once, TypeOK, GatewayTypeOK
  <2>4. hand'[c] = {} /\ \A b \in Conns : b # c => hand'[b] = hand[b]
    BY <2>2 DEF TypeOK, GatewayTypeOK
  <2>5. \A k \in Calls : ch'[k] = ch[k] \/ (k = h.to /\ ch'[k] \subseteq {k})
    BY <2>1, <2>3 DEF TypeOK, GatewayTypeOK, CoreInv, Correlated, ChanOwn
  <2>6. Correlated'
    <3>1. FramesMatch' /\ IdsTaken' /\ IdsUnique' /\ ResponseCorrelation'
      BY <2>2 DEF CoreInv, Correlated, FramesMatch, IdsTaken, IdsUnique, ResponseCorrelation, Frames
    <3>2. HandMatches'
      BY <2>2, <2>4 DEF CoreInv, Correlated, HandMatches
    <3>3. ChanOwn'
      BY <2>5 DEF CoreInv, Correlated, ChanOwn
    <3> QED
      BY <3>1, <3>2, <3>3 DEF Correlated
  <2>7. Unsent'
    BY <2>2 DEF CoreInv, Unsent
  <2>8. Once'
    BY <2>2, <2>4 DEF CoreInv, Once
  <2>9. ResponseOnce'
    <3>1. \A b \in Conns : \A n \in replying[b] \cup toGw[b] : n.call # h.to /\ n.call \in Calls
      <4> SUFFICES ASSUME NEW b \in Conns, NEW n \in replying[b] \cup toGw[b]
                   PROVE  n.call # h.to /\ n.call \in Calls
        OBVIOUS
      <4>1. callConn[n.call] = b /\ n.call \in Calls
        BY DEF CoreInv, Correlated, FramesMatch, Frames, TypeOK, TransportTypeOK, AgentTypeOK, Msg
      <4>2. b = c => n.call # h.to
        BY DEF CoreInv, ResponseOnce
      <4> QED
        BY <2>3, <4>1, <4>2
    <3>2. \A b \in Conns : b # c => \A g \in hand[b] : g.to # h.to /\ g.to \in Calls
      BY <2>3 DEF CoreInv, Correlated, HandMatches, TypeOK, GatewayTypeOK
    <3> QED
      BY <2>2, <2>4, <2>5, <3>1, <3>2, SMTT(60) DEF CoreInv, ResponseOnce
  <2>10. Answered'
    BY <2>2, <2>3, <2>5 DEF CoreInv, Answered
  <2> QED
    BY <2>6, <2>7, <2>8, <2>9, <2>10 DEF CoreInv
<1>3. CASE ReadLoopTooBig(c)
  BY <1>3, Shrink DEF ReadLoopTooBig, TypeOK, TransportTypeOK
<1>4. CASE ReadHello(c) \/ HelloErr(c) \/ CloseOld(c) \/ ReadLoopErr(c) \/ PingFail(c)
            \/ Unregister(c) \/ CloseOne(c)
  BY <1>4, Shrink DEF ReadHello, HelloErr, CloseOld, ReadLoopErr, PingFail, Unregister, CloseOne,
     gatewayVars, connVars
<1> QED
  BY <1>1, <1>2, <1>3, <1>4 DEF ConnStep

\* The steps of the Agent's goroutines.
LEMMA AgentCoreInv ==
  ASSUME TypeOK, CoreInv, NEW c \in Conns, AgentStep(c), UNCHANGED <<gatewayVars, faults>>
  PROVE  CoreInv'
<1> USE DEF gatewayVars, connVars, callVars, transportVars
<1> DEFINE rest == <<pending, hand, callConn, callId, nextID, call, ch, result, answer>>
<1>1. UNCHANGED rest
  OBVIOUS
<1>2. \A b \in Conns : \A m \in Frames(b) : m.call \in Calls
  BY DEF Frames, TypeOK, TransportTypeOK, GatewayTypeOK, AgentTypeOK, Msg
<1>3. CASE ReadRequest(c)
  <2>1. PICK m \in toAgent[c] :
          /\ toAgent' = [toAgent EXCEPT ![c] = @ \ {m}]
          /\ running' = [running EXCEPT ![c] = @ \cup {m}]
          /\ UNCHANGED <<replying, applied, toGw>>
    BY <1>3 DEF ReadRequest
  <2>2. \A b \in Conns : /\ toAgent'[b] \subseteq toAgent[b]
                         /\ \A n \in running'[b] : n \in running[b] \/ n \in toAgent[b]
    BY <2>1 DEF TypeOK, TransportTypeOK, AgentTypeOK
  <2>3. m \notin toAgent'[c] /\ \A b \in Conns : \A n \in running'[b] : n \in running[b] \/ (n = m /\ b = c)
    BY <2>1 DEF TypeOK, TransportTypeOK, AgentTypeOK
  <2>4. Correlated'
    BY <1>1, <2>1, <2>2 DEF CoreInv, Correlated, FramesMatch, HandMatches, IdsTaken, IdsUnique,
       ChanOwn, ResponseCorrelation, Frames
  <2>5. Unsent'
    BY <1>1, <2>1, <2>2 DEF CoreInv, Unsent
  <2>6. Once'
    BY <1>1, <2>1, <2>2, <2>3 DEF CoreInv, Once
  <2>7. ResponseOnce' /\ Answered'
    BY <1>1, <2>1 DEF CoreInv, ResponseOnce, Answered
  <2> QED
    BY <2>4, <2>5, <2>6, <2>7 DEF CoreInv
<1>4. ASSUME NEW m \in running[c],
             running' = [running EXCEPT ![c] = @ \ {m}],
             applied' = [applied EXCEPT ![m.call] = @ + 1],
             replying' = replying \/ replying' = [replying EXCEPT ![c] = @ \cup {m}],
             UNCHANGED <<toAgent, toGw>>
      PROVE  CoreInv'
  <2>1. m \in Frames(c) /\ m.call \in Calls /\ applied[m.call] = 0 /\ callId[m.call] # 0
    BY <1>2 DEF Frames, CoreInv, Correlated, FramesMatch, Once
  <2>2. /\ applied'[m.call] = 1
        /\ \A k \in Calls : k # m.call => applied'[k] = applied[k]
    BY <1>4, <2>1 DEF TypeOK, AgentTypeOK
  <2>3. \A b \in Conns : /\ running'[b] \subseteq running[b]
                         /\ replying[b] \subseteq replying'[b]
                         /\ \A n \in replying'[b] : n \in replying[b] \/ (n = m /\ b = c)
    BY <1>4 DEF TypeOK, AgentTypeOK
  <2>4. m \notin running'[c] /\ m \notin toAgent[c]
    BY <1>4 DEF CoreInv, Once, TypeOK, AgentTypeOK
  <2>5. \A b \in Conns : \A n \in toAgent[b] \cup running'[b] : n.call # m.call /\ n.call \in Calls
    <3> SUFFICES ASSUME NEW b \in Conns, NEW n \in toAgent[b] \cup running'[b]
                 PROVE  n.call # m.call /\ n.call \in Calls
      OBVIOUS
    <3>1. n \in Frames(b) /\ (b = c => n # m)
      BY <2>3, <2>4 DEF Frames
    <3> QED
      BY <1>2, <2>1, <3>1, SameFrame
  <2>6. \A b \in Conns : \A n \in replying[b] \cup toGw[b] : n.call # m.call /\ n.call \in Calls
    BY <1>2, <2>1 DEF CoreInv, Once, Frames
  <2>7. \A b \in Conns : \A h \in hand[b] : h.to # m.call /\ h.to \in Calls
    BY <2>1 DEF CoreInv, Once, TypeOK, GatewayTypeOK
  <2>8. ch[m.call] = {}
    BY <2>1 DEF CoreInv, Answered
  <2>9. Correlated'
    <3>1. \A b \in Conns : \A n \in Frames(b)' : n \in Frames(b)
      BY <1>1, <1>4, <2>1, <2>3 DEF Frames
    <3>2. FramesMatch'
      BY <1>1, <3>1 DEF CoreInv, Correlated, FramesMatch
    <3> QED
      BY <1>1, <3>2 DEF CoreInv, Correlated, HandMatches, IdsTaken, IdsUnique, ChanOwn, ResponseCorrelation
  <2>10. Unsent'
    <3>1. call[m.call] \notin {"idle", "got", "write"}
      BY <2>1 DEF CoreInv, Unsent
    <3> QED
      BY <1>1, <1>4, <2>2, <2>3, <3>1 DEF CoreInv, Unsent
  <2>11. Once'
    <3>1. \A k \in Calls : applied'[k] \in {0, 1} /\ (callId'[k] = 0 => applied'[k] = 0)
      BY <1>1, <2>1, <2>2 DEF CoreInv, Once
    <3>2. \A b \in Conns : \A n \in toAgent'[b] : applied'[n.call] = 0 /\ n \notin running'[b]
      BY <1>4, <2>2, <2>3, <2>5 DEF CoreInv, Once
    <3>3. \A b \in Conns : \A n \in running'[b] : applied'[n.call] = 0
      BY <2>2, <2>3, <2>5 DEF CoreInv, Once
    <3>4. \A b \in Conns : \A n \in replying'[b] \cup toGw'[b] : applied'[n.call] = 1
      BY <1>4, <2>2, <2>3, <2>6 DEF CoreInv, Once
    <3>5. \A b \in Conns : \A h \in hand'[b] : applied'[h.to] = 1
      BY <1>1, <2>2, <2>7 DEF CoreInv, Once
    <3> QED
      BY <3>1, <3>2, <3>3, <3>4, <3>5 DEF Once
  <2>12. ResponseOnce'
    <3>1. m \notin toGw[c]
      BY <2>6
    <3> QED
      BY <1>1, <1>4, <2>3, <2>7, <2>8, <3>1 DEF CoreInv, ResponseOnce
  <2>13. Answered'
    BY <1>1, <2>1, <2>2 DEF CoreInv, Answered
  <2> QED
    BY <2>9, <2>10, <2>11, <2>12, <2>13 DEF CoreInv
<1>5. CASE Handle(c)
  BY <1>4, <1>5 DEF Handle
<1>6. CASE HandlePanic(c)
  <2>1. PICK m \in running[c] :
          /\ running' = [running EXCEPT ![c] = @ \ {m}]
          /\ applied' = [applied EXCEPT ![m.call] = @ + 1] \/ UNCHANGED applied
    BY <1>6 DEF HandlePanic
  <2>2. UNCHANGED <<replying, toAgent, toGw>>
    BY <1>6 DEF HandlePanic
  <2>3. CASE UNCHANGED applied
    <3>1. \A b \in Conns : running'[b] \subseteq running[b]
      BY <2>1 DEF TypeOK, AgentTypeOK
    <3> QED
      BY <1>1, <2>2, <2>3, <3>1, Shrink
  <2> QED
    BY <1>4, <2>1, <2>2, <2>3
<1>7. CASE Reply(c)
  <2>1. PICK m \in replying[c] :
          /\ replying' = [replying EXCEPT ![c] = @ \ {m}]
          /\ toGw' = toGw \/ toGw' = [toGw EXCEPT ![c] = @ \cup {m}]
          /\ UNCHANGED <<running, applied, toAgent>>
    BY <1>7 DEF Reply, Sent
  <2>2. \A b \in Conns : /\ replying'[b] \subseteq replying[b]
                         /\ \A n \in toGw'[b] : n \in toGw[b] \/ (n = m /\ b = c)
    BY <2>1 DEF TypeOK, TransportTypeOK, AgentTypeOK
  <2>3. m \notin replying'[c]
    BY <2>1 DEF TypeOK, AgentTypeOK
  <2>4. FramesMatch'
    BY <1>1, <2>1, <2>2 DEF CoreInv, Correlated, FramesMatch, Frames
  <2>5. Correlated'
    BY <1>1, <2>4 DEF CoreInv, Correlated, HandMatches, IdsTaken, IdsUnique, ChanOwn, ResponseCorrelation
  <2>6. Unsent' /\ Answered'
    BY <1>1, <2>1 DEF CoreInv, Unsent, Answered
  <2>7. Once'
    BY <1>1, <2>1, <2>2 DEF CoreInv, Once
  <2>8. ResponseOnce'
    BY <1>1, <2>1, <2>2, <2>3 DEF CoreInv, ResponseOnce
  <2> QED
    BY <2>5, <2>6, <2>7, <2>8 DEF CoreInv
<1>8. CASE ReadTooBig(c)
  BY <1>1, <1>8, Shrink DEF ReadTooBig, TypeOK, TransportTypeOK
<1>9. CASE ReplyErr(c)
  BY <1>1, <1>9, Shrink DEF ReplyErr, TypeOK, AgentTypeOK
<1>10. CASE WriteHello(c) \/ WriteHelloErr(c) \/ ReadErr(c) \/ AgentPingFail(c)
  BY <1>1, <1>10, Shrink DEF WriteHello, WriteHelloErr, ReadErr, AgentPingFail, agentVars
<1> QED
  BY <1>3, <1>5, <1>6, <1>7, <1>8, <1>9, <1>10 DEF AgentStep

\* A Gateway that stops forgets its calls; the frames it sent live on.
LEMMA HaltCoreInv ==
  ASSUME TypeOK, CoreInv, Halt, UNCHANGED agentVars
  PROVE  CoreInv'
<1> USE DEF agentVars, TypeOK, GatewayTypeOK
<1>1. /\ pending' = [c \in Conns |-> {}]
      /\ hand' = [c \in Conns |-> {}]
      /\ UNCHANGED <<toAgent, running, replying, toGw, callConn, callId, nextID, ch, applied, answer>>
  BY DEF Halt
<1>2. \A k \in Calls : \/ call'[k] = call[k] /\ result'[k] = result[k]
                       \/ call[k] # "idle" /\ call'[k] = "done" /\ result'[k] = "gone"
  BY DEF Halt
<1>3. Correlated'
  BY <1>1, <1>2 DEF CoreInv, Correlated, FramesMatch, HandMatches, IdsTaken, IdsUnique, ChanOwn,
     ResponseCorrelation, Frames
<1>4. Unsent'
  BY <1>1, <1>2 DEF CoreInv, Unsent
<1>5. Once' /\ ResponseOnce'
  BY <1>1 DEF CoreInv, Once, ResponseOnce
<1>6. Answered'
  BY <1>1, <1>2 DEF CoreInv, Answered
<1> QED
  BY <1>3, <1>4, <1>5, <1>6 DEF CoreInv

\* Each step preserves the facts about ids and executions: one step per kind of action.
LEMMA NextCoreInv == TypeOK /\ CallsRouted /\ CoreInv /\ [Next]_vars => CoreInv'
<1> SUFFICES ASSUME TypeOK, CallsRouted, CoreInv, [Next]_vars PROVE CoreInv'
  OBVIOUS
<1>1. ASSUME UNCHANGED coreVars
      PROVE  CoreInv'
  BY <1>1, Shrink DEF coreVars
<1>2. ASSUME NEW a \in Agents, NEW c \in Conns, Connect(a, c)
      PROVE  CoreInv'
  BY <1>1, <1>2 DEF coreVars, Connect, Dial, Accept, callVars
<1>3. ASSUME ProcessStep, UNCHANGED <<agentVars, faults>>
      PROVE  CoreInv'
  BY <1>1, <1>3, HaltCoreInv DEF ProcessStep, Exit, Start, coreVars, agentVars, callVars, transportVars
<1>4. ASSUME Fault
      PROVE  CoreInv'
  <2>1. ASSUME NEW c \in Conns, LinkDown(c), UNCHANGED <<gatewayVars, agentVars>>
        PROVE  CoreInv'
    BY <1>1, <2>1 DEF LinkDown, coreVars, gatewayVars, connVars, callVars, agentVars
  <2>2. CASE CloseAll /\ UNCHANGED agentVars
    BY <1>1, <2>2 DEF CloseAll, coreVars, agentVars, callVars, transportVars
  <2>3. CASE Crash /\ UNCHANGED agentVars
    BY <2>3, HaltCoreInv DEF Crash
  <2>4. ASSUME NEW a \in Agents, AgentCrash(a), UNCHANGED gatewayVars
        PROVE  CoreInv'
    BY <2>4, Shrink DEF AgentCrash, gatewayVars, connVars, callVars
  <2> QED
    BY <1>4, <2>1, <2>2, <2>3, <2>4 DEF Fault
<1>5. CASE UNCHANGED vars
  BY <1>1, <1>5 DEF vars, coreVars, gatewayVars, connVars, callVars, agentVars, transportVars
<1> QED
  BY <1>2, <1>3, <1>4, <1>5, ConnCoreInv, CallCoreInv, AgentCoreInv DEF Next

\* IInv is inductive.
THEOREM Invariance == Spec => []IInv
<1>1. Init => IInv
  BY InitTypeOK, InitCallsRouted, InitCoreInv DEF IInv, CoreInv
<1>2. IInv /\ [Next]_vars => IInv'
  BY NextTypeOK, NextCallsRouted, NextCoreInv DEF IInv, CoreInv
<1> QED
  BY <1>1, <1>2, PTL DEF Spec

\* A Call never returns the response of another call (agentconn.go, connection.go), for any
\* number of calls, connections, reconnects, restarts and faults.
THEOREM Correlation == Spec => []ResponseCorrelation
<1>1. IInv => ResponseCorrelation
  BY DEF IInv, Correlated
<1> QED
  BY <1>1, Invariance, PTL

\* No request is carried out twice: neither side ever resends one.
THEOREM ExecutedOnce == Spec => []AtMostOnce
<1>1. IInv => AtMostOnce
  BY DEF IInv, Once, AtMostOnce
<1> QED
  BY <1>1, Invariance, PTL

\* A response means the call was carried out; device_offline that it was not and never will be.
THEOREM HonestOutcomes == Spec => []OutcomeHonest
<1>1. IInv => OutcomeHonest
  <2> SUFFICES ASSUME IInv, NEW k \in Calls
               PROVE  /\ result[k] = "response" => applied[k] = 1
                      /\ result[k] = "device_offline" => applied[k] = 0 /\ ~InFlight(k)
    BY DEF OutcomeHonest
  <2>1. result[k] = "response" => applied[k] = 1
    BY DEF IInv, Answered
  <2>2. ASSUME result[k] = "device_offline"
        PROVE  applied[k] = 0 /\ ~InFlight(k)
    <3>1. callId[k] = 0
      BY <2>2 DEF IInv, Answered
    <3>2. applied[k] = 0
      BY <3>1 DEF IInv, Once
    <3>3. ~InFlight(k)
      BY <3>1 DEF IInv, Correlated, FramesMatch, Frames, InFlight
    <3> QED
      BY <3>2, <3>3
  <2> QED
    BY <2>1, <2>2
<1> QED
  BY <1>1, Invariance, PTL

\* readLoop's send to a call's channel never blocks, so no call can stop the others.
THEOREM ReadLoopProgress == Spec => []ReadLoopNeverBlocks
<1>1. IInv => ReadLoopNeverBlocks
  BY DEF IInv, ResponseOnce, ReadLoopNeverBlocks, ChanHasRoom
<1> QED
  BY <1>1, Invariance, PTL

-----------------------------------------------------------------------------
(* The tools' announcements and the methods' classes agree. *)

\* A tool is announced as read-only exactly when the method it calls is not a mutating one.
LEMMA HintsAgree == \A t \in Tools : IsMutatingMethod(methodOf(t)) <=> t \notin readOnlyTools
<1> SUFFICES ASSUME NEW t \in Tools
             PROVE  IsMutatingMethod(tool(t).method) <=> ~tool(t).readOnlyHint
  BY DEF methodOf, readOnlyTools
<1> USE DEF tool, reads, changes, IsMutatingMethod, mutatingMethods, deviceTools, commandTools,
            processTools, executionTools, filesystemTools, readQueryTools
<1>1. CASE t \in DOMAIN deviceTools
  BY <1>1
<1>2. CASE t \in DOMAIN commandTools
  BY <1>2
<1>3. CASE t \in DOMAIN processTools
  BY <1>3
<1>4. CASE t \in DOMAIN executionTools
  BY <1>4
<1>5. CASE t \in DOMAIN filesystemTools
  BY <1>5
<1>6. CASE t \in DOMAIN readQueryTools
  BY <1>6
<1> QED
  BY <1>1, <1>2, <1>3, <1>4, <1>5, <1>6 DEF Tools, toolGroups

\* A lost connection is reported in the way the called tool's announcement promises, for every
\* assignment of tools to calls.
THEOREM LossReportedByHint == Spec => []LostOutcomeByHint
<1>1. Init => LostOutcomeByHint
  BY DEF Init, GatewayInit, LostOutcomeByHint
<1>2. LostOutcomeByHint /\ TypeOK /\ [Next]_vars => LostOutcomeByHint'
  <2> SUFFICES ASSUME LostOutcomeByHint, TypeOK, [Next]_vars, NEW k \in Calls
               PROVE  /\ result'[k] = "transport_lost" => ToolOf[k] \in readOnlyTools
                      /\ result'[k] = "execution_unknown" => ToolOf[k] \notin readOnlyTools
    BY DEF LostOutcomeByHint
  <2>0. ASSUME \/ result'[k] = result[k]
               \/ result'[k] \notin {"transport_lost", "execution_unknown"}
        PROVE  /\ result'[k] = "transport_lost" => ToolOf[k] \in readOnlyTools
               /\ result'[k] = "execution_unknown" => ToolOf[k] \notin readOnlyTools
    BY <2>0 DEF LostOutcomeByHint
  <2>1. ASSUME NEW j \in Calls, CallStep(j)
        PROVE  /\ result'[k] = "transport_lost" => ToolOf[k] \in readOnlyTools
               /\ result'[k] = "execution_unknown" => ToolOf[k] \notin readOnlyTools
    <3>1. CASE SelectClosed(j)
      <4>1. result' = [result EXCEPT ![j] = IF IsMutatingMethod(methodOf(ToolOf[j]))
                                            THEN "execution_unknown" ELSE "transport_lost"]
        BY <3>1 DEF SelectClosed
      <4>2. IsMutatingMethod(methodOf(ToolOf[j])) <=> ToolOf[j] \notin readOnlyTools
        BY HintsAgree, GatewayAssumption
      <4> QED
        BY <4>1, <4>2 DEF LostOutcomeByHint, TypeOK, GatewayTypeOK
    <3>2. CASE ~SelectClosed(j)
      BY <2>0, <2>1, <3>2 DEF CallStep, Get, Begin, EncodeErr, WriteFlush, WriteErr, WriteOk, SelectResponse,
         SelectTimeout, Cleanup, CtxCancel, TypeOK, GatewayTypeOK
    <3> QED
      BY <3>1, <3>2
  <2>2. CASE Fault
    BY <2>0, <2>2 DEF Fault, CloseAll, Crash, Halt, callVars, gatewayVars, TypeOK, GatewayTypeOK
  <2>3. CASE ProcessStep
    BY <2>0, <2>3 DEF ProcessStep, Exit, Halt, Start, callVars, TypeOK, GatewayTypeOK
  <2>4. ASSUME NEW c \in Conns, ConnStep(c)
        PROVE  UNCHANGED result
    BY <2>4 DEF ConnStep, ReadHello, HelloErr, CloseOld, ReadLoopRead, ReadLoopSend, ReadLoopErr,
       ReadLoopTooBig, PingFail, Unregister, CloseOne, gatewayVars, callVars
  <2>5. ASSUME NEW a \in Agents, NEW c \in Conns, Connect(a, c)
        PROVE  UNCHANGED result
    BY <2>5 DEF Connect, Accept, callVars
  <2> QED
    BY <2>0, <2>1, <2>2, <2>3, <2>4, <2>5 DEF Next, vars, gatewayVars, callVars
<1> QED
  BY <1>1, <1>2, TypeCorrect, PTL DEF Spec

-----------------------------------------------------------------------------
(* The relay implements the at-most-once RPC service. *)

\* A step that changes neither where the calls are, nor their executions, nor their results.
LEMMA ServiceStutters ==
  ASSUME UNCHANGED <<call, applied, result>>
  PROVE  UNCHANGED Service!svars
BY DEF Service!svars, Stage, Outcome

\* A step of one call is the service's Open, Refuse, Answer or GiveUp, or invisible.
LEMMA ServiceCallStep ==
  ASSUME IInv, NEW k \in Calls, CallStep(k), UNCHANGED agentVars
  PROVE  Service!Next \/ UNCHANGED Service!svars
<1> USE DEF IInv, TypeOK, GatewayTypeOK
<1>0. UNCHANGED applied
  BY DEF agentVars
<1> DEFINE stage == [j \in Calls |-> Stage(j)]
<1> DEFINE outcome == [j \in Calls |-> Outcome(j)]
<1>1. CASE Get(k)
  <2>1. CASE reg[TargetOf[k]] = NoConn
    <3>1. /\ call[k] = "idle"
          /\ call' = [call EXCEPT ![k] = "done"]
          /\ result' = [result EXCEPT ![k] = "device_offline"]
      BY <1>1, <2>1 DEF Get
    <3>2. stage[k] = "idle" /\ stage' = [stage EXCEPT ![k] = "done"]
      BY <3>1 DEF Stage
    <3>3. outcome' = [outcome EXCEPT ![k] = "refused"]
      <4>1. Outcome(k)' = "refused"
        BY <3>1 DEF Outcome
      <4>2. ASSUME NEW j \in Calls, j # k PROVE Outcome(j)' = Outcome(j)
        BY <3>1, <4>2 DEF Outcome
      <4> QED
        BY <4>1, <4>2
    <3>4. Service!Refuse(k)
      BY <1>0, <3>2, <3>3 DEF Service!Refuse
    <3> QED
      BY <3>4 DEF Service!Next
  <2>2. CASE reg[TargetOf[k]] # NoConn
    <3>1. /\ call[k] = "idle"
          /\ call' = [call EXCEPT ![k] = "got"]
          /\ UNCHANGED result
      BY <1>1, <2>2 DEF Get
    <3>2. stage[k] = "idle" /\ stage' = [stage EXCEPT ![k] = "open"]
      BY <3>1 DEF Stage
    <3>3. outcome' = outcome
      BY <3>1 DEF Outcome
    <3>4. Service!Open(k)
      BY <1>0, <3>2, <3>3 DEF Service!Open
    <3> QED
      BY <3>4 DEF Service!Next
  <2> QED
    BY <2>1, <2>2
<1>2. CASE Cleanup(k)
  <2>1. call[k] = "cleanup" /\ call' = [call EXCEPT ![k] = "done"] /\ UNCHANGED result
    BY <1>2 DEF Cleanup
  <2>2. stage[k] = "open" /\ stage' = [stage EXCEPT ![k] = "done"]
    BY <2>1 DEF Stage
  <2>3. CASE result[k] = "response"
    <3>1. applied[k] = 1
      BY <2>3 DEF Answered
    <3>2. outcome' = [outcome EXCEPT ![k] = "answered"]
      BY <2>1, <2>3 DEF Outcome
    <3>3. Service!Answer(k)
      BY <1>0, <2>2, <3>1, <3>2 DEF Service!Answer
    <3> QED
      BY <3>3 DEF Service!Next
  <2>4. CASE result[k] # "response"
    <3>1. result[k] # "device_offline"
      BY <2>1 DEF Answered
    <3>2. outcome' = [j \in Calls |-> IF j \in {k} THEN "unknown" ELSE outcome[j]]
      BY <2>1, <2>4, <3>1 DEF Outcome
    <3>3. stage' = [j \in Calls |-> IF j \in {k} THEN "done" ELSE stage[j]]
      BY <2>2 DEF Stage
    <3>4. Service!GiveUp({k})
      BY <1>0, <2>2, <3>2, <3>3 DEF Service!GiveUp
    <3> QED
      BY <3>4 DEF Service!Next
  <2> QED
    BY <2>3, <2>4
<1>3. CASE \/ Begin(k) \/ WriteFlush(k) \/ WriteErr(k) \/ WriteOk(k) \/ SelectResponse(k)
           \/ SelectTimeout(k) \/ SelectClosed(k) \/ CtxCancel(k)
           \/ EncodeErr(k) /\ call[k] = "write"
  <2>1. /\ \A j \in Calls : j # k => call'[j] = call[j] /\ result'[j] = result[j]
        /\ call[k] \notin {"idle", "done"} /\ call'[k] \notin {"idle", "done"}
    BY <1>3 DEF Begin, EncodeErr, WriteFlush, WriteErr, WriteOk, SelectResponse, SelectTimeout, SelectClosed,
       CtxCancel
  <2>2. stage' = stage
    BY <2>1 DEF Stage
  <2>3. outcome' = outcome
    <3>1. Outcome(k)' = "none" /\ Outcome(k) = "none"
      BY <2>1 DEF Outcome
    <3>2. ASSUME NEW j \in Calls, j # k PROVE Outcome(j)' = Outcome(j)
      <4>1. call'[j] = call[j] /\ result'[j] = result[j]
        BY <2>1, <3>2
      <4> QED
        BY <4>1, Zenon DEF Outcome
    <3> QED
      BY <3>1, <3>2
  <2> QED
    BY <1>0, <2>2, <2>3 DEF Service!svars
<1>4. CASE EncodeErr(k) /\ call[k] = "got"
  <2>1. call' = [call EXCEPT ![k] = "done"] /\ result' = [result EXCEPT ![k] = "encode_error"]
    BY <1>4 DEF EncodeErr
  <2>2. stage[k] = "open" /\ stage' = [j \in Calls |-> IF j \in {k} THEN "done" ELSE stage[j]]
    BY <1>4, <2>1 DEF Stage
  <2>3. outcome' = [j \in Calls |-> IF j \in {k} THEN "unknown" ELSE outcome[j]]
    BY <2>1 DEF Outcome
  <2>4. Service!GiveUp({k})
    BY <1>0, <2>2, <2>3 DEF Service!GiveUp
  <2> QED
    BY <2>4 DEF Service!Next
<1> QED
  BY <1>1, <1>2, <1>3, <1>4 DEF CallStep, EncodeErr

\* The Gateway stops: the clients of the calls in progress are told nothing.
LEMMA ServiceHalt ==
  ASSUME IInv, Halt, UNCHANGED agentVars
  PROVE  Service!Next
<1> USE DEF IInv, TypeOK, GatewayTypeOK
<1> DEFINE stage == [j \in Calls |-> Stage(j)]
<1> DEFINE outcome == [j \in Calls |-> Outcome(j)]
<1> DEFINE S == {k \in Calls : call[k] \notin {"idle", "done"}}
<1>1. /\ call' = [k \in Calls |-> IF k \in S THEN "done" ELSE call[k]]
      /\ result' = [k \in Calls |-> IF k \in S THEN "gone" ELSE result[k]]
      /\ UNCHANGED applied
  BY DEF Halt, agentVars
<1>2. \A k \in S : stage[k] = "open"
  BY DEF Stage
<1>3. stage' = [k \in Calls |-> IF k \in S THEN "done" ELSE stage[k]]
  BY <1>1 DEF Stage
<1>4. outcome' = [k \in Calls |-> IF k \in S THEN "unknown" ELSE outcome[k]]
  BY <1>1 DEF Outcome
<1>5. Service!GiveUp(S)
  BY <1>1, <1>2, <1>3, <1>4 DEF Service!GiveUp
<1>6. S \in SUBSET Calls
  OBVIOUS
<1> QED
  BY <1>5, <1>6 DEF Service!Next

\* A handler that runs is the one execution of its call, which was neither answered nor refused.
LEMMA ServiceExecute ==
  ASSUME IInv, UNCHANGED gatewayVars, NEW c \in Conns, NEW m \in running[c],
         applied' = [applied EXCEPT ![m.call] = @ + 1]
  PROVE  Service!Next
<1> USE DEF IInv, TypeOK, GatewayTypeOK, AgentTypeOK
<1> DEFINE stage == [j \in Calls |-> Stage(j)]
<1> DEFINE outcome == [j \in Calls |-> Outcome(j)]
<1>1. PICK k \in Calls : k = m.call
  BY DEF Msg
<1>2. applied[k] = 0 /\ applied' = [applied EXCEPT ![k] = 1]
  <2>1. applied[k] = 0
    BY <1>1 DEF Once
  <2>2. applied' = [applied EXCEPT ![k] = applied[k] + 1]
    BY <1>1
  <2>3. applied[k] + 1 = 1
    BY <2>1
  <2> QED
    BY <2>1, <2>2, <2>3, Zenon
<1>3. call[k] # "idle"
  BY <1>1 DEF Unsent
<1>4. result[k] # "response"
  BY <1>2 DEF Answered
<1>5. result[k] # "device_offline"
  BY <1>1 DEF Answered, Correlated, FramesMatch, Frames
<1>6. stage[k] # "idle" /\ outcome[k] \in {"none", "unknown"}
  BY <1>3, <1>4, <1>5 DEF Stage, Outcome
<1>7. stage' = stage /\ outcome' = outcome
  BY DEF Stage, Outcome, gatewayVars, callVars
<1>8. Service!Execute(k)
  BY <1>2, <1>6, <1>7 DEF Service!Execute
<1> QED
  BY <1>8 DEF Service!Next

\* The relay keeps its promise to MCP clients, whatever the connections, restarts and faults: a
\* call is carried out at most once, is answered only after that, and is refused only if it never
\* is.
THEOREM ServiceImplemented == Spec => ImplementsService
<1>1. Init => Service!Init
  <2> SUFFICES ASSUME Init PROVE Service!Init
    OBVIOUS
  <2>1. [k \in Calls |-> Stage(k)] = [k \in Calls |-> "idle"]
    BY DEF Init, GatewayInit, Stage
  <2>2. [k \in Calls |-> Outcome(k)] = [k \in Calls |-> "none"]
    BY DEF Init, GatewayInit, Outcome
  <2> QED
    BY <2>1, <2>2 DEF Service!Init, Init, AgentInit
<1>2. IInv /\ [Next]_vars => [Service!Next]_Service!svars
  <2> SUFFICES ASSUME IInv, [Next]_vars PROVE Service!Next \/ UNCHANGED Service!svars
    OBVIOUS
  <2>1. ASSUME NEW a \in Agents, NEW c \in Conns, Connect(a, c)
        PROVE  UNCHANGED Service!svars
    BY <2>1, ServiceStutters DEF Connect, Dial, Accept, callVars
  <2>2. ASSUME NEW c \in Conns, ConnStep(c), UNCHANGED <<agentVars, faults>>
        PROVE  UNCHANGED Service!svars
    <3>1. UNCHANGED <<call, result>>
      BY <2>2 DEF ConnStep, ReadHello, HelloErr, CloseOld, ReadLoopRead, ReadLoopSend, ReadLoopErr,
         ReadLoopTooBig, PingFail, Unregister, CloseOne, gatewayVars, callVars
    <3> QED
      BY <2>2, <3>1, ServiceStutters DEF agentVars
  <2>3. ASSUME NEW k \in Calls, CallStep(k), UNCHANGED <<agentVars, faults>>
        PROVE  Service!Next \/ UNCHANGED Service!svars
    BY <2>3, ServiceCallStep
  <2>4. ASSUME ProcessStep, UNCHANGED <<agentVars, faults>>
        PROVE  Service!Next \/ UNCHANGED Service!svars
    <3>1. CASE Exit
      BY <2>4, <3>1, ServiceHalt DEF Exit
    <3>2. CASE Start
      BY <2>4, <3>2, ServiceStutters DEF Start, callVars, agentVars
    <3> QED
      BY <2>4, <3>1, <3>2 DEF ProcessStep
  <2>5. ASSUME NEW c \in Conns, AgentStep(c), UNCHANGED <<gatewayVars, faults>>
        PROVE  Service!Next \/ UNCHANGED Service!svars
    <3>1. \/ UNCHANGED applied
          \/ \E m \in running[c] : applied' = [applied EXCEPT ![m.call] = @ + 1]
      BY <2>5 DEF AgentStep, WriteHello, WriteHelloErr, ReadRequest, ReadErr, ReadTooBig,
         AgentPingFail, Handle, HandlePanic, Reply, ReplyErr, agentVars
    <3>2. CASE UNCHANGED applied
      BY <2>5, <3>2, ServiceStutters DEF gatewayVars, callVars
    <3> QED
      BY <2>5, <3>1, <3>2, ServiceExecute
  <2>6. CASE Fault
    <3>1. CASE Crash /\ UNCHANGED agentVars
      BY <3>1, ServiceHalt DEF Crash
    <3>2. CASE CloseAll /\ UNCHANGED agentVars
      BY <3>2, ServiceStutters DEF CloseAll, callVars, agentVars
    <3>3. ASSUME NEW c \in Conns, LinkDown(c), UNCHANGED <<gatewayVars, agentVars>>
          PROVE  UNCHANGED Service!svars
      BY <3>3, ServiceStutters DEF gatewayVars, callVars, agentVars
    <3>4. ASSUME NEW a \in Agents, AgentCrash(a), UNCHANGED gatewayVars
          PROVE  UNCHANGED Service!svars
      BY <3>4, ServiceStutters DEF AgentCrash, gatewayVars, callVars
    <3> QED
      BY <2>6, <3>1, <3>2, <3>3, <3>4 DEF Fault
  <2>7. CASE UNCHANGED vars
    BY <2>7, ServiceStutters DEF vars, gatewayVars, callVars, agentVars
  <2> QED
    BY <2>1, <2>2, <2>3, <2>4, <2>5, <2>6, <2>7 DEF Next
<1> QED
  BY <1>1, <1>2, Invariance, PTL DEF Spec, ImplementsService, Service!Spec
=============================================================================
