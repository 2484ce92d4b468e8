----------------------------- MODULE RelayProofs -----------------------------
(***************************************************************************)
(* The invariants of the relay, for any number of clients, any high-water  *)
(* mark, both storage failure policies and every set of interpreters.      *)
(***************************************************************************)
EXTENDS Relay, TLAPS

(* Updates keep the type of a function.                                      *)
LEMMA Update ==
    ASSUME NEW S, NEW T, NEW f \in [S -> T], NEW x \in S, NEW v \in T
    PROVE  [f EXCEPT ![x] = v] \in [S -> T]
OBVIOUS

LEMMA UpdateIn ==
    ASSUME NEW S, NEW D, NEW T, NEW f \in [S -> [D -> T]], NEW x \in S, NEW y \in D, NEW v \in T
    PROVE  [f EXCEPT ![x][y] = v] \in [S -> [D -> T]]
OBVIOUS

PumpStates == {"off", "read", "data", "eofing", "eof", "failed", "stopped"}

(* A step of client c is all that happens: the others keep their state, and  *)
(* the lock if they have it.                                                 *)
OthersKeep(c) ==
    \A e \in Clients \ {c} :
        /\ task'[e] = task[e] /\ pump'[e] = pump[e] /\ link'[e] = link[e]
        /\ buf'[e] = buf[e] /\ outcome'[e] = outcome[e] /\ closed'[e] = closed[e]
        /\ lost'[e] = lost[e] /\ unrec'[e] = unrec[e]
        /\ lock' = e <=> lock = e

LEMMA Others ==
    ASSUME RelayInv, NEW c \in Clients, OthersKeep(c), svc' = svc,
           NEW e \in Clients, e # c
    PROVE  ClientInv(e)'
<1>1. ClientInv(e)
  BY DEF RelayInv
<1>2. /\ task'[e] = task[e] /\ pump'[e] = pump[e] /\ link'[e] = link[e]
      /\ buf'[e] = buf[e] /\ outcome'[e] = outcome[e] /\ closed'[e] = closed[e]
      /\ lost'[e] = lost[e] /\ unrec'[e] = unrec[e]
      /\ lock' = e <=> lock = e
  BY DEF OthersKeep
<1> QED  BY <1>1, <1>2 DEF ClientInv, GraceOver, HoldsTarget, Pumping

(* An invariant for the client that moved is one for all.                    *)
LEMMA OneMoves ==
    ASSUME RelayInv, NEW c \in Clients, TypeOK', svc' = svc, doomed' \subseteq doomed,
           OthersKeep(c), ClientInv(c)'
    PROVE  RelayInv'
<1>1. \A e \in Clients : ClientInv(e)'
  BY Others
<1> QED  BY <1>1 DEF RelayInv

LEMMA TypeInit == Init => TypeOK
BY LimitsAssumption, InterpreterAssumption DEF Init, TypeOK, Direction

LEMMA InvInit == Init => RelayInv
<1> SUFFICES ASSUME Init PROVE RelayInv
  OBVIOUS
<1>1. ASSUME NEW c \in Clients PROVE ClientInv(c)
  BY LimitsAssumption, ClientsAssumption DEF Init, ClientInv, GraceOver, HoldsTarget, Pumping, Direction
<1> QED  BY <1>1, TypeInit DEF RelayInv, Init

LEMMA StepConnect ==
    ASSUME RelayInv, NEW c \in Clients, Connect(c)
    PROVE  RelayInv'
<1>1. TypeOK /\ ClientInv(c)
  BY DEF RelayInv
<1>2. TypeOK'
  BY <1>1 DEF Connect, TypeOK, service
<1>3. OthersKeep(c)
  BY <1>1, ClientsAssumption DEF Connect, OthersKeep, TypeOK, service
<1>4. ClientInv(c)'
  BY <1>1, ClientsAssumption DEF Connect, ClientInv, GraceOver, HoldsTarget, Pumping, TypeOK, service
<1> QED  BY <1>2, <1>3, <1>4, OneMoves DEF Connect, service

LEMMA StepHandle ==
    ASSUME RelayInv, NEW c \in Clients,
           ConnectTargetFails(c) \/ TargetConnected(c) \/ DeviceClosed(c) \/ ClientClosed(c)
    PROVE  RelayInv'
<1>1. TypeOK /\ ClientInv(c)
  BY DEF RelayInv
<1>2. CASE ConnectTargetFails(c)
  <2>1. TypeOK'
    BY <1>1, <1>2 DEF ConnectTargetFails, TypeOK, service
  <2>2. OthersKeep(c)
    BY <1>1, <1>2, ClientsAssumption DEF ConnectTargetFails, OthersKeep, TypeOK, service, ClientInv, HoldsTarget
  <2>3. ClientInv(c)'
    BY <1>1, <1>2, ClientsAssumption DEF ConnectTargetFails, ClientInv, GraceOver, HoldsTarget, Pumping, TypeOK, service
  <2> QED  BY <1>2, <2>1, <2>2, <2>3, OneMoves DEF ConnectTargetFails, service
<1>3. CASE TargetConnected(c)
  <2>1. TypeOK'
    <3>1. pump' \in [Clients -> [Direction -> PumpStates]]
      <4> DEFINE reading == [d \in Direction |-> "read"]
      <4>1. reading \in [Direction -> PumpStates]
        BY DEF PumpStates
      <4>2. pump \in [Clients -> [Direction -> PumpStates]]
        BY <1>1 DEF TypeOK, PumpStates
      <4>3. pump' = pump \/ pump' = [pump EXCEPT ![c] = reading]
        BY <1>3 DEF TargetConnected
      <4> HIDE DEF reading
      <4> QED  BY <4>1, <4>2, <4>3, Update
    <3> QED  BY <1>1, <1>3, <3>1 DEF TargetConnected, TypeOK, service, PumpStates
  <2>2. OthersKeep(c)
    BY <1>1, <1>3 DEF TargetConnected, OthersKeep, TypeOK, service
  <2>3. ClientInv(c)'
    BY <1>1, <1>3, LimitsAssumption DEF TargetConnected, ClientInv, GraceOver, HoldsTarget, Pumping, TypeOK, service, Direction
  <2> QED  BY <1>3, <2>1, <2>2, <2>3, OneMoves DEF TargetConnected, service
<1>4. CASE DeviceClosed(c)
  <2>1. TypeOK'
    BY <1>1, <1>4 DEF DeviceClosed, TypeOK, service, Finalizes
  <2>2. OthersKeep(c)
    BY <1>1, <1>4, ClientsAssumption DEF DeviceClosed, OthersKeep, TypeOK, service, ClientInv, HoldsTarget
  <2>3. ClientInv(c)'
    BY <1>1, <1>4, ClientsAssumption, ZenonT(60) DEF DeviceClosed, Finalizes, ClientInv, GraceOver, HoldsTarget, Pumping, TypeOK, service
  <2> QED  BY <1>4, <2>1, <2>2, <2>3, OneMoves DEF DeviceClosed, service
<1>5. CASE ClientClosed(c)
  <2>1. TypeOK'
    BY <1>1, <1>5 DEF ClientClosed, TypeOK, service
  <2>2. OthersKeep(c)
    BY <1>1, <1>5 DEF ClientClosed, OthersKeep, TypeOK, service
  <2>3. ClientInv(c)'
    BY <1>1, <1>5 DEF ClientClosed, ClientInv, GraceOver, HoldsTarget, Pumping, TypeOK, service
  <2> QED  BY <1>5, <2>1, <2>2, <2>3, OneMoves DEF ClientClosed, service
<1> QED  BY <1>2, <1>3, <1>4, <1>5

(* Reading, forwarding, and what the device and the capture do meanwhile.    *)
LEMMA StepRead ==
    ASSUME RelayInv, NEW c \in Clients, NEW d \in Direction, Read(c, d)
    PROVE  RelayInv'
<1>1. TypeOK /\ ClientInv(c)
  BY DEF RelayInv
<1>2. TypeOK'
  <2>1. buf' \in [Clients -> 0 .. HighWater + 1]
    <3>1. CASE d = "client" /\ link[c] = "open"
      <4>1. buf[c] + 1 \in 0 .. HighWater + 1
        BY <1>1, <3>1, LimitsAssumption DEF Read, TypeOK, ClientInv
      <4> QED  BY <1>1, <4>1, Update, ZenonT(60) DEF Read, TypeOK
    <3> QED  BY <1>1, <3>1 DEF Read, TypeOK
  <2>2. pump' \in [Clients -> [Direction -> PumpStates]]
    <3>1. pump \in [Clients -> [Direction -> PumpStates]]
      BY <1>1 DEF TypeOK, PumpStates
    <3>2. \E v \in PumpStates : pump' = [pump EXCEPT ![c][d] = v]
      BY DEF Read, PumpStates
    <3> QED  BY <3>1, <3>2, UpdateIn
  <2> QED  BY <1>1, <2>1, <2>2 DEF Read, TypeOK, service, PumpStates
<1>3. OthersKeep(c)
  BY <1>1 DEF Read, OthersKeep, TypeOK, service
<1>4. ClientInv(c)'
  BY <1>1, LimitsAssumption DEF Read, ClientInv, GraceOver, HoldsTarget, Pumping, TypeOK, service, Direction
<1> QED  BY <1>2, <1>3, <1>4, OneMoves DEF Read, service

LEMMA StepReadFails ==
    ASSUME RelayInv, NEW c \in Clients, NEW d \in Direction, ReadFails(c, d)
    PROVE  RelayInv'
<1>1. TypeOK /\ ClientInv(c)
  BY DEF RelayInv
<1>2. TypeOK'
  <2>1. pump' \in [Clients -> [Direction -> PumpStates]]
    BY <1>1, UpdateIn DEF ReadFails, TypeOK, PumpStates
  <2> QED  BY <1>1, <2>1 DEF ReadFails, TypeOK, service, PumpStates
<1>3. OthersKeep(c)
  BY <1>1 DEF ReadFails, OthersKeep, TypeOK, service
<1>4. ClientInv(c)'
  BY <1>1 DEF ReadFails, ClientInv, GraceOver, HoldsTarget, Pumping, TypeOK, service, Direction
<1> QED  BY <1>2, <1>3, <1>4, OneMoves DEF ReadFails, service

LEMMA StepForwarded ==
    ASSUME RelayInv, NEW c \in Clients, NEW d \in Direction, Forwarded(c, d)
    PROVE  RelayInv'
<1>1. TypeOK /\ ClientInv(c)
  BY DEF RelayInv
<1>2. TypeOK'
  <2>1. unrec' \in [Clients -> [Direction -> 0 .. 2]]
    <3>1. unrec \in [Clients -> [Direction -> 0 .. 2]]
      BY <1>1 DEF TypeOK
    <3>2. unrec' = unrec \/ unrec' = [unrec EXCEPT ![c][d] = IF unrec[c][d] < 2 THEN unrec[c][d] + 1 ELSE unrec[c][d]]
      BY DEF Forwarded
    <3>3. (IF unrec[c][d] < 2 THEN unrec[c][d] + 1 ELSE unrec[c][d]) \in 0 .. 2
      BY <3>1
    <3> QED  BY <3>1, <3>2, <3>3, UpdateIn
  <2>2. pump' \in [Clients -> [Direction -> PumpStates]]
    <3>1. pump \in [Clients -> [Direction -> PumpStates]]
      BY <1>1 DEF TypeOK, PumpStates
    <3>2. \/ pump' = [pump EXCEPT ![c][d] = IF pump[c][d] = "data" THEN "read" ELSE "eof"]
          \/ pump' = [pump EXCEPT ![c][d] = AfterRefusal(pump[c][d])]
      BY DEF Forwarded
    <3>3. /\ (IF pump[c][d] = "data" THEN "read" ELSE "eof") \in PumpStates
          /\ AfterRefusal(pump[c][d]) \in PumpStates
      BY DEF AfterRefusal, PumpStates
    <3>4. \E v \in PumpStates : pump' = [pump EXCEPT ![c][d] = v]
      BY <3>2, <3>3
    <3> QED  BY <3>1, <3>4, UpdateIn
  <2>3. cap' \in [Clients -> {"off", "on", "failed"}]
    <3>1. cap \in [Clients -> {"off", "on", "failed"}]
      BY <1>1 DEF TypeOK
    <3>2. cap' = cap \/ cap' = [cap EXCEPT ![c] = IF cap[c] = "on" THEN "failed" ELSE cap[c]]
      BY DEF Forwarded
    <3> QED  BY <3>1, <3>2
  <2> QED  BY <1>1, <2>1, <2>2, <2>3 DEF Forwarded, TypeOK, service, PumpStates
<1>3. OthersKeep(c)
  BY <1>1 DEF Forwarded, OthersKeep, TypeOK, service
<1>4. ClientInv(c)'
  BY <1>1, LimitsAssumption
  DEF Forwarded, Drained, AfterRefusal, ClientInv, GraceOver, HoldsTarget, Pumping, TypeOK, service, Direction
<1> QED  BY <1>2, <1>3, <1>4, OneMoves DEF Forwarded, service

LEMMA StepForwardFails ==
    ASSUME RelayInv, NEW c \in Clients, NEW d \in Direction, ForwardFails(c, d)
    PROVE  RelayInv'
<1>1. TypeOK /\ ClientInv(c)
  BY DEF RelayInv
<1>2. TypeOK'
  <2>1. buf' \in [Clients -> 0 .. HighWater + 1]
    <3>1. buf \in [Clients -> 0 .. HighWater + 1] /\ 0 \in 0 .. HighWater + 1
      BY <1>1, LimitsAssumption DEF TypeOK
    <3>2. buf' = buf \/ buf' = [buf EXCEPT ![c] = 0]
      BY DEF ForwardFails, Aborted
    <3> QED  BY <3>1, <3>2, Update
  <2>2. pump' \in [Clients -> [Direction -> PumpStates]]
    BY <1>1, UpdateIn DEF ForwardFails, TypeOK, PumpStates
  <2>3. lost' \in [Clients -> [Direction -> BOOLEAN]]
    BY <1>1, UpdateIn DEF ForwardFails, TypeOK
  <2>4. link' \in [Clients -> {"none", "open", "closing", "gone"}] /\ cap' \in [Clients -> {"off", "on", "failed"}]
    <3>1. /\ link \in [Clients -> {"none", "open", "closing", "gone"}]
          /\ cap \in [Clients -> {"off", "on", "failed"}]
      BY <1>1 DEF TypeOK
    <3>2. /\ link' = link \/ link' = [link EXCEPT ![c] = "gone"]
          /\ cap' = cap \/ cap' = [cap EXCEPT ![c] = IF cap[c] = "on" THEN "failed" ELSE cap[c]]
      BY DEF ForwardFails
    <3> QED  BY <3>1, <3>2
  <2> QED  BY <1>1, <2>1, <2>2, <2>3, <2>4 DEF ForwardFails, TypeOK, service, PumpStates
<1>3. OthersKeep(c)
  BY <1>1 DEF ForwardFails, OthersKeep, TypeOK, service, Aborted
<1>4. ClientInv(c)'
  BY <1>1, LimitsAssumption
  DEF ForwardFails, Aborted, ClientInv, GraceOver, HoldsTarget, Pumping, TypeOK, service, Direction
<1> QED  BY <1>2, <1>3, <1>4, OneMoves DEF ForwardFails, service

LEMMA StepAround ==
    ASSUME RelayInv, NEW c \in Clients,
           CaptureFails(c) \/ DeviceTakes(c) \/ FallSilent(c) \/ HalfClosed(c)
    PROVE  RelayInv'
<1>1. TypeOK /\ ClientInv(c)
  BY DEF RelayInv
<1>2. TypeOK'
  <2>1. CASE DeviceTakes(c)
    <3>1. buf[c] - 1 \in 0 .. HighWater + 1
      BY <1>1, <2>1, LimitsAssumption DEF DeviceTakes, TypeOK
    <3>2. buf' \in [Clients -> 0 .. HighWater + 1]
      BY <1>1, <2>1, <3>1, Update DEF DeviceTakes, TypeOK
    <3> QED  BY <1>1, <2>1, <3>2 DEF DeviceTakes, TypeOK, service
  <2> QED  BY <1>1, <2>1, ZenonT(60) DEF CaptureFails, FallSilent, HalfClosed, TypeOK, service
<1>3. OthersKeep(c)
  BY <1>1 DEF CaptureFails, DeviceTakes, FallSilent, HalfClosed, OthersKeep, TypeOK, service
<1>4. ClientInv(c)'
  BY <1>1, LimitsAssumption
  DEF CaptureFails, DeviceTakes, FallSilent, HalfClosed, ClientInv, GraceOver, HoldsTarget, Pumping,
      TypeOK, service, Direction
<1> QED  BY <1>2, <1>3, <1>4, OneMoves DEF CaptureFails, DeviceTakes, FallSilent, HalfClosed, service

(* The end of a session: a timer, a storage failure, a transport error, two  *)
(* EOFs or a cancellation.                                                   *)
LEMMA SessionEnds ==
    ASSUME TypeOK, NEW c \in Clients, ClientInv(c), Pumping(c),
           NEW complete \in {"complete", "incomplete"},
           complete = "complete" => CleanEof(c),
           EndSession(c, complete), lock' = lock,
           UNCHANGED <<svc, buf, closed, unrec>>
    PROVE  /\ pump' \in [Clients -> [Direction -> PumpStates]]
           /\ lost' \in [Clients -> [Direction -> BOOLEAN]]
           /\ outcome' \in [Clients -> {"none", "complete", "incomplete"}]
           /\ link' \in [Clients -> {"none", "open", "closing", "gone"}]
           /\ task' \in [Clients -> {"new", "connecting", "duplex", "tail", "closedev",
                                     "dropping", "closing", "done"}]
           /\ OthersKeep(c)
           /\ ClientInv(c)'
<1>1. pump' \in [Clients -> [Direction -> PumpStates]]
  BY DEF EndSession, TypeOK, PumpStates
<1>2. lost' \in [Clients -> [Direction -> BOOLEAN]]
  BY DEF EndSession, TypeOK
<1>3. /\ outcome' \in [Clients -> {"none", "complete", "incomplete"}]
      /\ link' \in [Clients -> {"none", "open", "closing", "gone"}]
      /\ task' \in [Clients -> {"new", "connecting", "duplex", "tail", "closedev",
                                "dropping", "closing", "done"}]
  BY DEF EndSession, TypeOK
<1>4. OthersKeep(c)
  BY DEF EndSession, OthersKeep, TypeOK
<1>5. /\ outcome'[c] = complete
      /\ \A d \in Direction :
            /\ lost'[c][d] = (lost[c][d] \/ pump[c][d] \in {"data", "eofing"})
            /\ pump'[c][d] = IF pump[c][d] \in {"read", "data", "eofing"}
                             THEN "stopped" ELSE pump[c][d]
      /\ link'[c] = IF link[c] = "open" THEN "closing" ELSE link[c]
      /\ task'[c] = "closedev"
  BY DEF EndSession, TypeOK
<1>6. ClientInv(c)'
  BY <1>5 DEF ClientInv, GraceOver, HoldsTarget, Pumping, CleanEof, TypeOK, Direction
<1> QED  BY <1>1, <1>2, <1>3, <1>4, <1>6

LEMMA StepEnd ==
    ASSUME RelayInv, NEW c \in Clients,
           IdleTimeout(c) \/ StorageFailure(c) \/ TransportError(c) \/ BothEof(c)
    PROVE  RelayInv'
<1>1. TypeOK /\ ClientInv(c)
  BY DEF RelayInv
<1>2. /\ Pumping(c)
      /\ UNCHANGED <<waits, svc, doomed, lock, active, talking, buf, cap, closed, unrec>>
      /\ \E complete \in {"complete", "incomplete"} :
            EndSession(c, complete) /\ (complete = "complete" => CleanEof(c))
  BY DEF IdleTimeout, StorageFailure, TransportError, BothEof, TimerRuns, service
<1>3. PICK complete \in {"complete", "incomplete"} :
          EndSession(c, complete) /\ (complete = "complete" => CleanEof(c))
  BY <1>2
<1>4. TypeOK' /\ OthersKeep(c) /\ ClientInv(c)'
  BY <1>1, <1>2, <1>3, SessionEnds DEF TypeOK, PumpStates
<1> QED  BY <1>2, <1>4, OneMoves

LEMMA StepCancelled ==
    ASSUME RelayInv, NEW c \in Clients, Cancelled(c)
    PROVE  RelayInv'
<1>1. TypeOK /\ ClientInv(c) /\ svc = "cancelling"
  BY DEF RelayInv, Cancelled
<1>2. CASE Pumping(c) /\ EndSession(c, "incomplete")
  <2>1. lock' = lock
    BY <1>2 DEF Cancelled, ReleaseOnCancel
  <2>2. TypeOK' /\ OthersKeep(c) /\ ClientInv(c)'
    BY <1>1, <1>2, <2>1, SessionEnds DEF Cancelled, TypeOK, PumpStates
  <2> QED  BY <2>2, OneMoves DEF Cancelled
<1>3. CASE /\ task[c] \in {"connecting", "closedev", "dropping"}
           /\ task' = [task EXCEPT ![c] = "closing"]
           /\ UNCHANGED <<outcome, lost, pump, link>>
  <2>1. lock' = NoClient /\ lock = c
    BY <1>1, <1>3 DEF Cancelled, ReleaseOnCancel, HoldsTarget, Pumping, ClientInv
  <2>2. TypeOK' /\ OthersKeep(c)
    BY <1>1, <1>3, <2>1, ClientsAssumption DEF Cancelled, TypeOK, OthersKeep
  <2>3. ClientInv(c)'
    BY <1>1, <1>3, <2>1, ClientsAssumption DEF Cancelled, ClientInv, GraceOver, HoldsTarget, Pumping, TypeOK
  <2> QED  BY <2>2, <2>3, OneMoves DEF Cancelled
<1>4. CASE /\ task[c] \in {"closing", "done"}
           /\ task' = [task EXCEPT ![c] = "done"]
           /\ UNCHANGED <<outcome, lost, pump, link>>
  <2>1. lock' = lock
    BY <1>4 DEF Cancelled, ReleaseOnCancel, HoldsTarget
  <2>2. TypeOK' /\ OthersKeep(c)
    BY <1>1, <1>4, <2>1 DEF Cancelled, TypeOK, OthersKeep
  <2>3. ClientInv(c)'
    BY <1>1, <1>4, <2>1 DEF Cancelled, ClientInv, GraceOver, HoldsTarget, Pumping, TypeOK
  <2> QED  BY <2>2, <2>3, OneMoves DEF Cancelled
<1> QED  BY <1>2, <1>3, <1>4 DEF Cancelled

(* stop() moves on; no client does.                                          *)
LEMMA StepService ==
    ASSUME RelayInv, \/ StopRequested \/ ServersClosed \/ GraceExpires \/ SessionsOver
                     \/ FinalizersOver \/ Stopped
    PROVE  RelayInv'
<1>1. TypeOK
  BY DEF RelayInv
<1>2. UNCHANGED <<waits, lock, active, task, talking, pump, link, buf, cap, outcome, closed, lost, unrec>>
  BY DEF StopRequested, ServersClosed, GraceExpires, SessionsOver, FinalizersOver, Stopped, clients
<1>3. /\ svc' \in {"up", "closing", "grace", "cancelling", "finalizers", "capture", "down"}
      /\ \/ doomed' = doomed /\ doomed = {}
         \/ doomed' \subseteq Clients /\ svc' = "cancelling"
  <2>1. CASE GraceExpires
    BY <2>1 DEF GraceExpires, Outliving
  <2>2. CASE StopRequested \/ ServersClosed \/ SessionsOver \/ FinalizersOver \/ Stopped
    <3>1. svc # "cancelling" \/ doomed = {}
      BY <2>2 DEF StopRequested, ServersClosed, SessionsOver, FinalizersOver, Stopped
    <3>2. doomed' = doomed
      BY <2>2 DEF StopRequested, ServersClosed, SessionsOver, FinalizersOver, Stopped
    <3>3. svc' \in {"closing", "grace", "finalizers", "capture", "down"}
      BY <2>2 DEF StopRequested, ServersClosed, SessionsOver, FinalizersOver, Stopped
    <3> QED  BY <3>1, <3>2, <3>3 DEF RelayInv
  <2> QED  BY <2>1, <2>2
<1>4. TypeOK' /\ (doomed' # {} => svc' = "cancelling")
  BY <1>1, <1>2, <1>3 DEF RelayInv, TypeOK
<1>5. GraceOver => GraceOver'
  BY DEF StopRequested, ServersClosed, GraceExpires, SessionsOver, FinalizersOver, Stopped, GraceOver
<1>6. ASSUME NEW c \in Clients PROVE ClientInv(c)'
  <2>1. ClientInv(c)
    BY DEF RelayInv
  <2> QED  BY <2>1, <1>2, <1>5 DEF ClientInv, GraceOver, HoldsTarget, Pumping
<1> QED  BY <1>4, <1>6 DEF RelayInv

LEMMA InvNext == RelayInv /\ [Next]_vars => RelayInv'
<1> SUFFICES ASSUME RelayInv, [Next]_vars PROVE RelayInv'
  OBVIOUS
<1>1. CASE UNCHANGED vars
  BY <1>1 DEF vars, RelayInv, TypeOK, ClientInv, GraceOver, HoldsTarget, Pumping
<1>2. ASSUME NEW c \in Clients,
             \/ Connect(c) \/ ConnectTargetFails(c) \/ TargetConnected(c)
             \/ DeviceClosed(c) \/ ClientClosed(c)
             \/ \E d \in Direction : \/ Read(c, d) \/ ReadFails(c, d)
                                       \/ Forwarded(c, d) \/ ForwardFails(c, d)
             \/ CaptureFails(c) \/ DeviceTakes(c) \/ FallSilent(c)
             \/ IdleTimeout(c) \/ StorageFailure(c) \/ TransportError(c)
             \/ HalfClosed(c) \/ BothEof(c) \/ Cancelled(c)
      PROVE  RelayInv'
  BY <1>2, StepConnect, StepHandle, StepRead, StepReadFails, StepForwarded, StepForwardFails, StepAround,
     StepEnd, StepCancelled
<1>3. ASSUME \/ StopRequested \/ ServersClosed \/ GraceExpires \/ SessionsOver
             \/ FinalizersOver \/ Stopped
      PROVE  RelayInv'
  BY <1>3, StepService
<1> QED  BY <1>1, <1>2, <1>3 DEF Next

(* The relay's invariant holds in every reachable state: the lock is held by *)
(* exactly the task that is at the device, and the pumps' state accounts for *)
(* everything that was read and not forwarded or not recorded.               *)
THEOREM RelayInvariant == Spec => []RelayInv
<1>1. Init => RelayInv
  BY InvInit
<1>2. RelayInv /\ [Next]_vars => RelayInv'
  BY InvNext
<1> QED  BY <1>1, <1>2, PTL DEF Spec

(* clean_bidirectional_eof is only reported of a session whose every read    *)
(* was forwarded (_run_full_duplex), for any number of concurrent clients.   *)
THEOREM CompleteForwarded == Spec => []CompleteIsForwarded
<1>1. RelayInv => CompleteIsForwarded
  BY DEF RelayInv, ClientInv, CompleteIsForwarded
<1> QED  BY <1>1, RelayInvariant, PTL

(* With the abort policy no direction forwards more than one event that the  *)
(* capture refused (the pump checks record(), not the watcher).              *)
THEOREM AbortBounds == Spec => []AbortBoundsUnrecorded
<1>1. RelayInv => AbortBoundsUnrecorded
  <2> SUFFICES ASSUME RelayInv, Policy = "abort", NEW c \in Clients, NEW d \in Direction
               PROVE  unrec[c][d] <= 1
    BY DEF AbortBoundsUnrecorded
  <2>1. unrec[c][d] = 0 \/ unrec[c][d] = 1
    BY DEF RelayInv, ClientInv
  <2> QED  BY <2>1
<1> QED  BY <1>1, RelayInvariant, PTL

(* A failed or timed out write to the device leaves nothing in its transport *)
(* buffer that could reach the device after the lock is released.            *)
THEOREM NoTailAfterFailure == Spec => []FailedWriteLeavesNoTail
<1>1. RelayInv => FailedWriteLeavesNoTail
  BY DEF RelayInv, ClientInv, FailedWriteLeavesNoTail
<1> QED  BY <1>1, RelayInvariant, PTL

(* Only a cancellation by stop() can keep a session that ran from its        *)
(* capture finalizer (_relay_locked's finally block).                        *)
THEOREM FinalizerKept == Spec => []FinalizerOnlyLostInShutdown
<1>1. RelayInv => FinalizerOnlyLostInShutdown
  BY DEF RelayInv, ClientInv, FinalizerOnlyLostInShutdown
<1> QED  BY <1>1, RelayInvariant, PTL
=============================================================================
