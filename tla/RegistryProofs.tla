--------------------------- MODULE RegistryProofs ---------------------------
(***************************************************************************)
(* Theorems about the registry and the pending tables of Relay, for every  *)
(* set of Agents, devices, connections and calls and every number of       *)
(* faults: what the registry routes to, what happens to a connection it    *)
(* forgets, and that no call leaves an entry behind.                       *)
(***************************************************************************)
EXTENDS RelayProofs

-----------------------------------------------------------------------------
(* The inductive invariant of the registry. *)

\* A handler got past the hello only with the secret, and every accepted connection has an Agent.
Verified ==
    \A c \in Conns :
        /\ gw[c] # "none" => owner[c] \in Agents
        /\ gw[c] \in {"replacing", "serving", "ended"} => owner[c] \in Trusted

\* CloseAll's snapshot lives only while the Gateway stops.
SnapshotBounded == closeList # {} => sys = "closing"

RegInv == Verified /\ SnapshotBounded /\ RegistryRoutes /\ NoZombie

regVars == <<sys, closeList, reg, gw, old, owner>>

\* A connection whose Agent's end is closed, or a socket that stops being open, disturbs nothing.
LEMMA RegQuiet ==
  ASSUME RegInv, UNCHANGED regVars,
         \A c \in Conns : gwWs'[c] = "open" => gwWs[c] = "open"
  PROVE  RegInv'
BY DEF RegInv, regVars, Verified, SnapshotBounded, RegistryRoutes, NoZombie, DeviceOfConn

\* No connection is known yet.
LEMMA InitRegInv == Init => RegInv
BY DEF Init, GatewayInit, TransportInit, RegInv, Verified, SnapshotBounded, RegistryRoutes, NoZombie

\* The handler of one connection.  Register, CloseOld, Unregister and the end of readLoop move the
\* connection along; each leaves a connection it forgets to somebody who will close it.
LEMMA ConnRegInv ==
  ASSUME TypeOK, RegInv, NEW c \in Conns, ConnStep(c)
  PROVE  RegInv'
<1> USE DEF TypeOK, GatewayTypeOK, TransportTypeOK
<1>0. /\ Verified /\ SnapshotBounded /\ RegistryRoutes /\ NoZombie
  BY DEF RegInv
<1>1. CASE ReadHello(c)
  <2>1. /\ gw[c] = "hello" /\ owner[c] \in Agents
        /\ UNCHANGED <<sys, closeList, owner>>
    BY <1>0, <1>1 DEF ReadHello, Verified
  <2>2. CASE owner[c] \in Trusted
    <3>1. PICK d \in Devices : d = DeviceOfConn(c)
      BY <2>1, GatewayAssumption DEF DeviceOfConn
    <3>2. /\ reg' = [reg EXCEPT ![d] = c]
          /\ old' = [old EXCEPT ![c] = reg[d]]
          /\ gw' = [gw EXCEPT ![c] = IF reg[d] = NoConn THEN "serving" ELSE "replacing"]
          /\ UNCHANGED gwWs
      BY <1>1, <2>2, <3>1 DEF ReadHello, Register
    <3>3. Verified' /\ SnapshotBounded'
      BY <1>0, <2>1, <2>2, <3>2 DEF Verified, SnapshotBounded
    <3>4. RegistryRoutes'
      <4> SUFFICES ASSUME NEW e \in Devices, reg'[e] # NoConn
                   PROVE  /\ owner[reg'[e]] \in Trusted
                          /\ DeviceOf[owner[reg'[e]]] = e
                          /\ gw'[reg'[e]] \in {"replacing", "serving", "ended"}
        BY <2>1 DEF RegistryRoutes, DeviceOfConn
      <4>1. CASE e = d
        BY <2>2, <3>1, <3>2, <4>1 DEF DeviceOfConn
      <4>2. CASE e # d
        <5>1. reg'[e] = reg[e] /\ reg[e] \in Conns
          BY <3>2, <4>2
        <5>2. reg[e] # c
          BY <1>0, <2>1, <5>1 DEF RegistryRoutes
        <5> QED
          BY <1>0, <3>2, <5>1, <5>2 DEF RegistryRoutes, DeviceOfConn
      <4> QED
        BY <4>1, <4>2
    <3>5. NoZombie'
      <4> SUFFICES ASSUME NEW x \in Conns, gw'[x] \in {"replacing", "serving"}, gwWs[x] = "open",
                          reg'[DeviceOfConn(x)] # x
                   PROVE  x \in closeList \/ \E b \in Conns : gw'[b] = "replacing" /\ old'[b] = x
        BY <2>1, <3>2 DEF NoZombie, DeviceOfConn
      <4>1. x # c
        BY <3>1, <3>2
      <4>2. gw[x] \in {"replacing", "serving"}
        BY <3>2, <4>1
      <4>3. CASE reg[DeviceOfConn(x)] = x
        <5>0. DeviceOfConn(x) \in Devices
          BY <1>0, <4>2, GatewayAssumption DEF Verified, DeviceOfConn
        <5>1. DeviceOfConn(x) = d
          BY <3>2, <4>3, <5>0
        <5>2. gw'[c] = "replacing" /\ old'[c] = x
          BY <3>2, <4>3, <5>1, NonesAssumption
        <5> QED
          BY <5>2
      <4>4. CASE reg[DeviceOfConn(x)] # x
        <5>1. x \in closeList \/ \E b \in Conns : gw[b] = "replacing" /\ old[b] = x
          BY <1>0, <4>2, <4>4 DEF NoZombie
        <5>2. ASSUME NEW b \in Conns, gw[b] = "replacing", old[b] = x
              PROVE  gw'[b] = "replacing" /\ old'[b] = x
          BY <2>1, <3>2, <5>2
        <5> QED
          BY <5>1, <5>2
      <4> QED
        BY <4>3, <4>4
    <3> QED
      BY <3>3, <3>4, <3>5 DEF RegInv
  <2>3. CASE owner[c] \notin Trusted
    <3>1. /\ gw' = [gw EXCEPT ![c] = "done"]
          /\ gwWs' = Closed(gwWs, c, "closing")
          /\ UNCHANGED <<reg, old>>
      BY <1>1, <2>3 DEF ReadHello
    <3>2. \A b \in Conns : gwWs'[b] = "open" => gwWs[b] = "open"
      BY <3>1 DEF Closed
    <3> QED
      BY <1>0, <2>1, <3>1, <3>2 DEF RegInv, Verified, SnapshotBounded, RegistryRoutes, NoZombie,
         DeviceOfConn
  <2> QED
    BY <2>2, <2>3
<1>2. CASE HelloErr(c)
  <2>1. /\ gw[c] = "hello" /\ gw' = [gw EXCEPT ![c] = "done"]
        /\ UNCHANGED <<sys, closeList, reg, old, owner>>
        /\ \A b \in Conns : gwWs'[b] = "open" => gwWs[b] = "open"
    BY <1>2 DEF Closed, HelloErr
  <2> QED
    BY <1>0, <2>1 DEF RegInv, Verified, SnapshotBounded, RegistryRoutes, NoZombie, DeviceOfConn
<1>3. CASE CloseOld(c)
  <2>1. /\ gw[c] = "replacing"
        /\ gw' = [gw EXCEPT ![c] = "serving"]
        /\ old' = [old EXCEPT ![c] = NoConn]
        /\ UNCHANGED <<sys, closeList, reg, owner>>
        /\ \A b \in Conns : gwWs'[b] = "open" => gwWs[b] = "open"
        /\ old[c] \in Conns => gwWs'[old[c]] # "open"
    BY <1>3 DEF Closed, CloseOld
  <2>2. Verified' /\ SnapshotBounded' /\ RegistryRoutes'
    BY <1>0, <2>1 DEF Verified, SnapshotBounded, RegistryRoutes, DeviceOfConn
  <2>3. NoZombie'
    <3> SUFFICES ASSUME NEW x \in Conns, gw'[x] \in {"replacing", "serving"}, gwWs'[x] = "open",
                        reg[DeviceOfConn(x)] # x
                 PROVE  x \in closeList \/ \E b \in Conns : gw'[b] = "replacing" /\ old'[b] = x
      BY <2>1 DEF NoZombie, DeviceOfConn
    <3>1. x \in closeList \/ \E b \in Conns : gw[b] = "replacing" /\ old[b] = x
      BY <1>0, <2>1 DEF NoZombie
    <3>2. ASSUME NEW b \in Conns, gw[b] = "replacing", old[b] = x
          PROVE  gw'[b] = "replacing" /\ old'[b] = x
      <4>1. b # c
        BY <2>1, <3>2
      <4> QED
        BY <2>1, <3>2, <4>1
    <3> QED
      BY <3>1, <3>2
  <2> QED
    BY <2>2, <2>3 DEF RegInv
<1>4. CASE ReadLoopErr(c) \/ ReadLoopTooBig(c)
  <2>1. /\ gw[c] = "serving" /\ gw' = [gw EXCEPT ![c] = "ended"]
        /\ UNCHANGED <<sys, closeList, reg, old, owner>>
        /\ \A b \in Conns : gwWs'[b] = "open" => gwWs[b] = "open"
    BY <1>4 DEF Closed, ReadLoopErr, ReadLoopTooBig, transportVars
  <2> QED
    BY <1>0, <2>1 DEF RegInv, Verified, SnapshotBounded, RegistryRoutes, NoZombie, DeviceOfConn
<1>5. CASE Unregister(c)
  <2>1. /\ gw[c] = "ended" /\ gw' = [gw EXCEPT ![c] = "done"]
        /\ UNCHANGED <<sys, closeList, old, owner, gwWs>>
    BY <1>5 DEF Unregister, transportVars
  <2>2. PICK d \in Devices : d = DeviceOfConn(c)
    BY <1>0, <2>1, GatewayAssumption DEF DeviceOfConn, Verified
  <2>3. reg' = [reg EXCEPT ![d] = IF reg[d] = c THEN NoConn ELSE reg[d]]
    BY <1>5, <2>2 DEF Unregister
  <2>4. Verified' /\ SnapshotBounded'
    BY <1>0, <2>1 DEF Verified, SnapshotBounded
  <2>5. RegistryRoutes'
    <3> SUFFICES ASSUME NEW e \in Devices, reg'[e] # NoConn
                 PROVE  /\ owner[reg'[e]] \in Trusted
                        /\ DeviceOf[owner[reg'[e]]] = e
                        /\ gw'[reg'[e]] \in {"replacing", "serving", "ended"}
      BY <2>1 DEF RegistryRoutes, DeviceOfConn
    <3>1. reg'[e] = reg[e] /\ reg[e] \in Conns
      BY <2>3
    <3>2. /\ owner[reg[e]] \in Trusted
          /\ DeviceOf[owner[reg[e]]] = e
          /\ gw[reg[e]] \in {"replacing", "serving", "ended"}
      BY <1>0, <3>1 DEF RegistryRoutes, DeviceOfConn
    <3>3. reg[e] # c
      BY <2>2, <2>3, <3>1, <3>2, NonesAssumption DEF DeviceOfConn
    <3> QED
      BY <2>1, <3>1, <3>2, <3>3
  <2>6. NoZombie'
    <3> SUFFICES ASSUME NEW x \in Conns, gw'[x] \in {"replacing", "serving"}, gwWs[x] = "open",
                        reg'[DeviceOfConn(x)] # x
                 PROVE  x \in closeList \/ \E b \in Conns : gw'[b] = "replacing" /\ old[b] = x
      BY <2>1 DEF NoZombie, DeviceOfConn
    <3>1. x # c /\ gw[x] \in {"replacing", "serving"}
      BY <2>1
    <3>2. reg[DeviceOfConn(x)] # x
      BY <2>3, <3>1
    <3>3. x \in closeList \/ \E b \in Conns : gw[b] = "replacing" /\ old[b] = x
      BY <1>0, <3>1, <3>2 DEF NoZombie
    <3> QED
      BY <2>1, <3>3
  <2> QED
    BY <2>4, <2>5, <2>6 DEF RegInv
<1>6. CASE CloseOne(c)
  <2>1. /\ closeList' = closeList \ {c}
        /\ UNCHANGED <<sys, reg, gw, old, owner>>
        /\ \A b \in Conns : gwWs'[b] = "open" => gwWs[b] = "open"
        /\ gwWs'[c] # "open"
    BY <1>6 DEF Closed, CloseOne
  <2> QED
    BY <1>0, <2>1 DEF RegInv, Verified, SnapshotBounded, RegistryRoutes, NoZombie, DeviceOfConn
<1>7. CASE PingFail(c)
  <2>1. UNCHANGED regVars /\ \A b \in Conns : gwWs'[b] = "open" => gwWs[b] = "open"
    BY <1>7 DEF Closed, PingFail, regVars, gatewayVars, connVars
  <2> QED
    BY <2>1, RegQuiet
<1>8. CASE ReadLoopRead(c) \/ ReadLoopSend(c)
  BY <1>8, RegQuiet DEF ReadLoopRead, ReadLoopSend, regVars, transportVars
<1> QED
  BY <1>1, <1>2, <1>3, <1>4, <1>5, <1>6, <1>7, <1>8 DEF ConnStep

\* The Gateway accepts a connection, stops, dies or starts.
LEMMA ProcessRegInv ==
  ASSUME TypeOK, RegInv,
         \/ \E a \in Agents, c \in Conns : Connect(a, c)
         \/ CloseAll \/ Halt \/ Start
  PROVE  RegInv'
<1> USE DEF TypeOK, GatewayTypeOK, TransportTypeOK
<1>0. /\ Verified /\ SnapshotBounded /\ RegistryRoutes /\ NoZombie
  BY DEF RegInv
<1>1. ASSUME NEW a \in Agents, NEW c \in Conns, Connect(a, c)
      PROVE  RegInv'
  <2>1. /\ gw[c] = "none" /\ gw' = [gw EXCEPT ![c] = "hello"]
        /\ owner' = [owner EXCEPT ![c] = a]
        /\ gwWs' = [gwWs EXCEPT ![c] = "open"]
        /\ UNCHANGED <<sys, closeList, reg, old>>
    BY <1>1 DEF Connect, Dial, Accept
  <2>2. Verified' /\ SnapshotBounded'
    BY <1>0, <2>1 DEF Verified, SnapshotBounded
  <2>3. \A x \in Conns : x # c => DeviceOfConn(x)' = DeviceOfConn(x)
    BY <2>1 DEF DeviceOfConn
  <2>4. RegistryRoutes'
    BY <1>0, <2>1, <2>3 DEF RegistryRoutes
  <2>5. NoZombie'
    BY <1>0, <2>1, <2>3 DEF NoZombie
  <2> QED
    BY <2>2, <2>4, <2>5 DEF RegInv
<1>2. CASE CloseAll
  <2>1. /\ closeList = {} /\ sys' = "closing"
        /\ closeList' = {reg[d] : d \in Devices} \ {NoConn}
        /\ reg' = [d \in Devices |-> NoConn]
        /\ UNCHANGED <<gw, old, owner, gwWs>>
    BY <1>0, <1>2 DEF CloseAll, SnapshotBounded, transportVars
  <2>2. Verified' /\ SnapshotBounded' /\ RegistryRoutes'
    BY <1>0, <2>1 DEF Verified, SnapshotBounded, RegistryRoutes
  <2>3. NoZombie'
    <3> SUFFICES ASSUME NEW x \in Conns, gw[x] \in {"replacing", "serving"}, gwWs[x] = "open"
                 PROVE  x \in closeList' \/ \E b \in Conns : gw[b] = "replacing" /\ old[b] = x
      BY <2>1 DEF NoZombie
    <3>1. DeviceOfConn(x) \in Devices
      BY <1>0, GatewayAssumption DEF Verified, DeviceOfConn
    <3>2. CASE reg[DeviceOfConn(x)] = x
      BY <2>1, <3>1, <3>2, NonesAssumption
    <3>3. CASE reg[DeviceOfConn(x)] # x
      BY <1>0, <2>1, <3>3 DEF NoZombie
    <3> QED
      BY <3>2, <3>3
  <2> QED
    BY <2>2, <2>3 DEF RegInv
<1>3. CASE Halt
  <2>1. /\ closeList' = {} /\ reg' = [d \in Devices |-> NoConn] /\ UNCHANGED owner
        /\ \A c \in Conns : gw'[c] = IF gw[c] = "none" THEN "none" ELSE "done"
    BY <1>3 DEF Halt
  <2> QED
    BY <1>0, <2>1 DEF RegInv, Verified, SnapshotBounded, RegistryRoutes, NoZombie
<1>4. CASE Start
  <2>1. closeList = {} /\ UNCHANGED <<closeList, reg, gw, old, owner, gwWs>>
    BY <1>0, <1>4 DEF Start, SnapshotBounded, transportVars
  <2> QED
    BY <1>0, <2>1 DEF RegInv, Verified, SnapshotBounded, RegistryRoutes, NoZombie, DeviceOfConn
<1> QED
  BY <1>1, <1>2, <1>3, <1>4

\* Each step preserves the invariant of the registry: calls and Agents can close a connection, and
\* do nothing else to it.
LEMMA NextRegInv == TypeOK /\ RegInv /\ [Next]_vars => RegInv'
<1> SUFFICES ASSUME TypeOK, RegInv, [Next]_vars PROVE RegInv'
  OBVIOUS
<1>1. ASSUME NEW k \in Calls, CallStep(k)
      PROVE  RegInv'
  <2>1. UNCHANGED regVars
    BY <1>1 DEF CallStep, Get, Begin, EncodeErr, WriteFlush, WriteErr, WriteOk, SelectResponse, SelectTimeout,
       SelectClosed, Cleanup, CtxCancel, regVars, connVars, transportVars
  <2>2. gwWs' = gwWs \/ gwWs' = Closed(gwWs, callConn[k], "closed")
    BY <1>1 DEF CallStep, Get, Begin, EncodeErr, WriteFlush, WriteErr, WriteOk, SelectResponse, SelectTimeout,
       SelectClosed, Cleanup, CtxCancel, transportVars
  <2>3. \A b \in Conns : gwWs'[b] = "open" => gwWs[b] = "open"
    BY <2>2 DEF Closed, TypeOK, TransportTypeOK
  <2> QED
    BY <2>1, <2>3, RegQuiet
<1>2. ASSUME NEW c \in Conns, AgentStep(c), UNCHANGED gatewayVars
      PROVE  RegInv'
  <2>1. UNCHANGED <<owner, gwWs>>
    BY <1>2 DEF AgentStep, WriteHello, WriteHelloErr, ReadRequest, ReadErr, ReadTooBig, AgentPingFail,
       Handle, HandlePanic, Reply, ReplyErr, transportVars
  <2> QED
    BY <1>2, <2>1, RegQuiet DEF regVars, gatewayVars, connVars
<1>3. CASE Fault
  <2>1. ASSUME NEW c \in Conns, LinkDown(c), UNCHANGED gatewayVars
        PROVE  RegInv'
    BY <2>1, RegQuiet DEF LinkDown, regVars, gatewayVars, connVars
  <2>2. ASSUME NEW a \in Agents, AgentCrash(a), UNCHANGED gatewayVars
        PROVE  RegInv'
    BY <2>2, RegQuiet DEF AgentCrash, regVars, gatewayVars, connVars
  <2> QED
    BY <1>3, <2>1, <2>2, ProcessRegInv DEF Fault, Crash
<1>4. CASE UNCHANGED vars
  BY <1>4, RegQuiet DEF vars, regVars, gatewayVars, connVars, transportVars
<1> QED
  BY <1>1, <1>2, <1>3, <1>4, ConnRegInv, ProcessRegInv DEF Next, ProcessStep, Exit

\* RegInv is inductive, relative to the types.
THEOREM RegistryInvariance == Spec => []RegInv
<1>1. TypeOK /\ RegInv /\ [Next]_vars => RegInv'
  BY NextRegInv
<1> QED
  BY InitRegInv, <1>1, TypeCorrect, PTL DEF Spec

\* The registry routes a device only to a served connection of an Agent of that device that knew
\* the secret (wsserver.go, registry.go).
THEOREM RegistrySound == Spec => []RegistryRoutes
<1>1. RegInv => RegistryRoutes
  BY DEF RegInv
<1> QED
  BY <1>1, RegistryInvariance, PTL

\* A connection that left the registry without having ended is closed, or somebody holds it who
\* will: Register for the connection it replaced, CloseAll for its snapshot.
THEOREM NoZombieConnections == Spec => []NoZombie
<1>1. RegInv => NoZombie
  BY DEF RegInv
<1> QED
  BY <1>1, RegistryInvariance, PTL

\* A device's entry goes away only with the registered connection itself or with the Gateway.
THEOREM NewConnectionKept == Spec => NewConnectionWins
<1> DEFINE Wins == \A d \in Devices :
              reg[d] # NoConn /\ reg'[d] = NoConn => gw[reg[d]] = "ended" \/ sys' # "up"
<1>1. TypeOK /\ RegInv /\ [Next]_vars => [Wins]_vars
  <2> SUFFICES ASSUME TypeOK, RegInv, Next, NEW d \in Devices, reg[d] # NoConn, reg'[d] = NoConn
               PROVE  gw[reg[d]] = "ended" \/ sys' # "up"
    BY DEF vars
  <2> USE DEF TypeOK, GatewayTypeOK
  <2>1. ASSUME NEW c \in Conns, ConnStep(c)
        PROVE  gw[reg[d]] = "ended"
    <3>1. CASE Unregister(c)
      <4>1. reg[d] = c /\ gw[c] = "ended"
        BY <3>1 DEF Unregister
      <4> QED
        BY <4>1
    <3>2. CASE ReadHello(c)
      BY <3>2, NonesAssumption DEF ReadHello, Register
    <3>3. CASE ~Unregister(c) /\ ~ReadHello(c)
      <4>1. UNCHANGED reg
        BY <2>1, <3>3 DEF ConnStep, HelloErr, CloseOld, ReadLoopRead, ReadLoopSend, ReadLoopErr,
           ReadLoopTooBig, PingFail, CloseOne, gatewayVars, connVars
      <4> QED
        BY <4>1
    <3> QED
      BY <3>1, <3>2, <3>3
  <2>2. ASSUME NEW k \in Calls, CallStep(k)
        PROVE  UNCHANGED reg
    BY <2>2 DEF CallStep, Get, Begin, EncodeErr, WriteFlush, WriteErr, WriteOk, SelectResponse, SelectTimeout,
       SelectClosed, Cleanup, CtxCancel, connVars
  <2>3. ASSUME NEW a \in Agents, NEW c \in Conns, Connect(a, c)
        PROVE  UNCHANGED reg
    BY <2>3 DEF Connect, Accept
  <2>4. ASSUME Fault \/ ProcessStep
        PROVE  UNCHANGED reg \/ sys' # "up"
    BY <2>4 DEF Fault, ProcessStep, Exit, Start, Crash, Halt, CloseAll, gatewayVars, connVars
  <2> QED
    BY <2>1, <2>2, <2>3, <2>4 DEF Next, gatewayVars, connVars
<1> QED
  BY <1>1, TypeCorrect, RegistryInvariance, PTL DEF Spec, NewConnectionWins

-----------------------------------------------------------------------------
(* The pending tables. *)

\* Every path out of Call runs its deferred delete, and an entry is found again by the request_id
\* it was inserted under: only calls in progress have entries.
THEOREM PendingDoesNotLeak == Spec => []NoPendingLeak
<1> DEFINE InCall == {"write", "flushed", "wait", "cleanup"}
<1>1. Init => NoPendingLeak
  BY DEF Init, GatewayInit, NoPendingLeak
<1>2. IInv /\ NoPendingLeak /\ [Next]_vars => NoPendingLeak'
  <2> SUFFICES ASSUME IInv, NoPendingLeak, [Next]_vars,
                      NEW c \in Conns, NEW p \in pending'[c]
               PROVE  callConn'[p.call] = c /\ call'[p.call] \in InCall
    BY DEF NoPendingLeak
  <2> USE DEF IInv, TypeOK, GatewayTypeOK
  <2>0. ASSUME UNCHANGED <<pending, call, callConn>>
        PROVE  callConn'[p.call] = c /\ call'[p.call] \in InCall
    BY <2>0 DEF NoPendingLeak
  <2>1. ASSUME NEW k \in Calls, CallStep(k)
        PROVE  callConn'[p.call] = c /\ call'[p.call] \in InCall
    <3>1. CASE Begin(k)
      <4> DEFINE b == callConn[k]
      <4> DEFINE id == nextID[b] + 1
      <4>1. b \in Conns
        BY <3>1 DEF Begin, CallsRouted
      <4> HIDE DEF b, id
      <4>2. /\ pending' = [pending EXCEPT ![b] = {q \in pending[b] : q.id # id} \cup {[id |-> id, call |-> k]}]
            /\ call' = [call EXCEPT ![k] = "write"]
            /\ UNCHANGED callConn
        BY <3>1, <4>1 DEF Begin, b, id
      <4>3. CASE p \in pending[c]
        <5>1. callConn[p.call] = c /\ call[p.call] \in InCall /\ p.call \in Calls
          BY <4>3 DEF NoPendingLeak, Msg
        <5> QED
          BY <4>2, <5>1
      <4>4. CASE c = b /\ p = [id |-> id, call |-> k]
        BY <4>2, <4>4 DEF b
      <4> QED
        BY <4>1, <4>2, <4>3, <4>4
    <3>2. CASE Cleanup(k)
      <4>0. callConn[k] \in Conns
        BY <3>2 DEF Cleanup, CallsRouted
      <4>1. /\ pending' = [pending EXCEPT ![callConn[k]] = {q \in pending[callConn[k]] : q.id # callId[k]}]
            /\ call' = [call EXCEPT ![k] = "done"]
            /\ UNCHANGED callConn
        BY <3>2 DEF Cleanup
      <4>2. p \in pending[c] /\ p \in Msg
        BY <4>0, <4>1
      <4>3. callConn[p.call] = c /\ callId[p.call] = p.id /\ p.call \in Calls
        BY <4>2 DEF Correlated, FramesMatch, Frames, Msg
      <4>4. p.call # k
        BY <4>0, <4>1, <4>3
      <4> QED
        BY <4>1, <4>2, <4>3, <4>4 DEF NoPendingLeak
    <3>3. CASE Get(k)
      <4>1. p \in pending[c] /\ p.call \in Calls
        BY <3>3 DEF Get, Msg
      <4>2. p.call # k /\ callConn[p.call] = c /\ call[p.call] \in InCall
        BY <3>3, <4>1 DEF Get, NoPendingLeak
      <4> QED
        BY <3>3, <4>1, <4>2 DEF Get
    <3>4. CASE WriteFlush(k) \/ WriteErr(k) \/ WriteOk(k) \/ SelectResponse(k) \/ SelectTimeout(k)
                \/ SelectClosed(k) \/ CtxCancel(k)
      <4>1. /\ UNCHANGED <<pending, callConn>>
            /\ \A j \in Calls : call[j] \in InCall => call'[j] \in InCall
        BY <3>4 DEF WriteFlush, WriteErr, WriteOk, SelectResponse, SelectTimeout, SelectClosed, CtxCancel
      <4>2. p \in pending[c] /\ p.call \in Calls
        BY <4>1 DEF Msg
      <4> QED
        BY <4>1, <4>2 DEF NoPendingLeak
    <3>5. CASE EncodeErr(k)
      <4>1. /\ UNCHANGED <<pending, callConn>>
            /\ call[k] \in {"got", "write"}
            /\ \A j \in Calls : j # k => call'[j] = call[j]
            /\ call[k] = "write" => call'[k] = "cleanup"
        BY <3>5 DEF EncodeErr
      <4>2. p \in pending[c] /\ p.call \in Calls
        BY <4>1 DEF Msg
      <4> QED
        BY <4>1, <4>2 DEF NoPendingLeak
    <3> QED
      BY <2>1, <3>1, <3>2, <3>3, <3>4, <3>5 DEF CallStep
  <2>2. ASSUME Halt PROVE FALSE
    BY <2>2 DEF Halt
  <2>3. ASSUME NEW b \in Conns, ConnStep(b)
        PROVE  UNCHANGED <<pending, call, callConn>>
    BY <2>3 DEF ConnStep, ReadHello, HelloErr, CloseOld, ReadLoopRead, ReadLoopSend, ReadLoopErr,
       ReadLoopTooBig, PingFail, Unregister, CloseOne, gatewayVars, callVars
  <2>4. ASSUME NEW a \in Agents, NEW b \in Conns, Connect(a, b)
        PROVE  UNCHANGED <<pending, call, callConn>>
    BY <2>4 DEF Connect, Accept, callVars
  <2>5. ASSUME Fault \/ ProcessStep
        PROVE  UNCHANGED <<pending, call, callConn>>
    BY <2>2, <2>5 DEF Fault, ProcessStep, Exit, Start, Crash, CloseAll, gatewayVars, callVars
  <2> QED
    BY <2>0, <2>1, <2>3, <2>4, <2>5 DEF Next, vars, gatewayVars, callVars
<1> QED
  BY <1>1, <1>2, Invariance, PTL DEF Spec
=============================================================================
