-------------------------- MODULE CaptureSpoolTypes --------------------------
(***************************************************************************)
(* Type correctness of CaptureSpool for every set of sessions, queue bound *)
(* and set of chunk sizes; the facts about its values that the proofs of its *)
(* invariants use; how the facts about a session's commands survive a change *)
(* of the queue.                                                           *)
(***************************************************************************)
EXTENDS CaptureSpoolInvariant, FiniteSetTheorems, TLAPS

(* The constant records of the module have their types.                      *)
LEMMA ConstantTypes ==
    /\ Zero \in [Direction -> Nat]
    /\ NoSummary \in CloseSummary
    /\ \A st \in {"new", "refused", "live", "closing", "detached", "waiting", "ended",
                  "lost"} : SessionAt(st) \in SessionState
    /\ NoWriter \in Writer
    /\ NewWriter \in Writer
    /\ NewCounters \in Counters
BY DEF Zero, NoSummary, CloseSummary, SessionAt, SessionState, NoWriter, NewWriter,
       Writer, NewCounters, Counters

(* What a queued command carries.                                            *)
LEMMA CommandFields ==
    ASSUME NEW c \in Command
    PROVE  /\ c.op \in {"open", "event", "close", "stop"}
           /\ c.op # "stop" => c.s \in Sessions
           /\ c.op = "event" => c.ev \in CaptureEvent
           /\ c.op = "close" => c.sum \in CloseSummary
BY DEF Command

(* The queue after the writer thread took its head.                          *)
LEMMA TailOfQueue ==
    ASSUME NEW q \in Seq(Command), q # <<>>
    PROVE  /\ Len(q) \in Nat \ {0}
           /\ Head(q) = q[1]
           /\ Head(q) \in Command
           /\ Tail(q) \in Seq(Command)
           /\ Len(Tail(q)) = Len(q) - 1
           /\ \A i \in 1 .. Len(q) - 1 : Tail(q)[i] = q[i + 1]
OBVIOUS

(* The queue after the loop put a command on it.                             *)
LEMMA AppendToQueue ==
    ASSUME NEW q \in Seq(Command), NEW c \in Command
    PROVE  /\ Append(q, c) \in Seq(Command)
           /\ Len(Append(q, c)) = Len(q) + 1
           /\ \A i \in 1 .. Len(q) : Append(q, c)[i] = q[i]
           /\ Append(q, c)[Len(q) + 1] = c
OBVIOUS

(* A timeline has finitely many records of a kind.                           *)
LEMMA RecordsAreCounted ==
    ASSUME NEW t \in Seq(CaptureEvent), NEW d, NEW k
    PROVE  Cardinality(RecordsOf(t, d, k)) \in Nat
<1>1. /\ DOMAIN t = 1 .. Len(t)
      /\ Len(t) \in Nat
  OBVIOUS
<1>2. IsFiniteSet(1 .. Len(t))
  BY <1>1, FS_Interval
<1>3. RecordsOf(t, d, k) \subseteq 1 .. Len(t)
  BY <1>1 DEF RecordsOf
<1> QED  BY <1>2, <1>3, FS_Subset, FS_CardinalityType

(* The manifest recovery writes has its type.                                *)
LEMMA RecoveryManifestType ==
    ASSUME TypeOK, NEW s \in Sessions
    PROVE  RecoveryManifest(s) \in Manifest
<1>1. \A d \in Direction : Cardinality(RecordsOf(timeline[s], d, "data")) \in Nat
  BY RecordsAreCounted DEF TypeOK
<1>2. /\ RecoveredStatus(s) \in {"COMPLETE", "PARTIAL"}
      /\ TimelineCoversRaw(s) \in BOOLEAN
      /\ RecoveredRaw(s) \in [Direction -> Nat]
      /\ Len(timeline[s]) \in Nat
  BY DEF TypeOK, RecoveredStatus, TimelineCoversRaw, RecoveredRaw
<1> QED  BY <1>1, <1>2 DEF RecoveryManifest, Manifest

(* The manifest a close writes has its type.                                 *)
LEMMA CloseManifestType ==
    ASSUME TypeOK, NEW s \in Sessions, NEW sum \in CloseSummary
    PROVE  CloseManifest(s, sum) \in Manifest
<1>1. /\ StorageComplete(s, sum) \in BOOLEAN
      /\ FileFacts(s) \in [Direction -> Nat]
      /\ sum.transport \in BOOLEAN
  BY DEF TypeOK, StorageComplete, FileFacts, CloseSummary
<1>2. writer[s] \in Writer
  BY DEF TypeOK
<1> QED  BY <1>1, <1>2 DEF CloseManifest, Manifest, Writer

(* Init has the types.                                                       *)
LEMMA TypeInit == Init => TypeOK
<1> SUFFICES ASSUME Init PROVE TypeOK
  OBVIOUS
<1>1. /\ cap \in [Sessions -> SessionState]
      /\ cnt \in [Sessions -> Counters]
      /\ writer \in [Sessions -> Writer]
      /\ raw \in [Sessions -> [Direction -> Nat]]
  BY ConstantTypes DEF Init
<1>2. /\ work \in [pc : {"off", "get", "rename", "ready", "resolve", "set", "dead", "exited"},
                   s : Sessions \cup {NoSession}]
      /\ rec \in [pc : {"off", "pick", "rename", "ready"}, s : Sessions \cup {NoSession},
                  todo : SUBSET Sessions]
  BY DEF Init, ThreadAt, RecoveryAt
<1>3. /\ queue \in Seq(Command)
      /\ Len(queue) <= QueueMax
  BY QueueMaxAssumption DEF Init
<1> QED  BY <1>1, <1>2, <1>3 DEF Init, TypeOK

(***************************************************************************)
(* Every action keeps the types: one lemma per action, with a step for the *)
(* parts of the state it changes.                                          *)
(***************************************************************************)

(* OpenSession keeps the types.                                              *)
LEMMA TypeOpenSession ==
    ASSUME TypeOK, NEW s \in Sessions, OpenSession(s)
    PROVE  TypeOK'
<1>1. cap' \in [Sessions -> SessionState]
  <2>1. cap \in [Sessions -> SessionState]
    BY DEF TypeOK
  <2>2. [cap[s] EXCEPT !.st = "live", !.accepting = TRUE] \in SessionState
    BY <2>1 DEF SessionState
  <2>3. \/ cap' = [cap EXCEPT ![s] = [cap[s] EXCEPT !.st = "live", !.accepting = TRUE]]
        \/ cap' = [cap EXCEPT ![s] = SessionAt("refused")]
    BY DEF OpenSession
  <2> QED  BY <2>1, <2>2, <2>3, ConstantTypes
<1>2. queue' \in Seq(Command) /\ Len(queue') <= QueueMax
  <2>1. [op |-> "open", s |-> s] \in Command
    BY DEF Command
  <2>2. Len(queue) \in Nat /\ queue \in Seq(Command) /\ Len(queue) <= QueueMax
    BY DEF TypeOK
  <2> QED  BY <2>1, <2>2, AppendToQueue, QueueMaxAssumption, SMTT(30) DEF OpenSession
<1> QED  BY <1>1, <1>2 DEF TypeOK, OpenSession, threadVars, diskVars

(* Observe keeps the types.                                                  *)
LEMMA TypeObserve ==
    ASSUME TypeOK, NEW s \in Sessions, NEW d \in Direction, NEW k \in {"data", "eof"},
           NEW n \in Nat, Observe(s, d, k, n)
    PROVE  TypeOK'
<1> DEFINE ev == [sequence |-> 0, observed |-> cnt[s].events,
                  dirseq |-> cnt[s].dirseq[d], offset |-> cnt[s].bytes[d],
                  direction |-> d, kind |-> k, length |-> n]
<1>1. cnt[s] \in Counters
  BY DEF TypeOK
<1>2. ev \in CaptureEvent
  BY <1>1 DEF CaptureEvent, Counters
<1>3. held' \in [Sessions -> [Direction -> CaptureEvent \cup {NoEvent}]]
  BY <1>2, SMTT(30) DEF TypeOK, Observe
<1>4. cnt' \in [Sessions -> Counters]
  BY <1>1 DEF TypeOK, Observe, Counters
<1>5. pump' \in [Sessions -> [Direction -> {"read", "held", "eof", "dead"}]]
  BY DEF TypeOK, Observe
<1> QED  BY <1>3, <1>4, <1>5 DEF TypeOK, Observe, threadVars, diskVars

(* A refused event leaves a session state.                                   *)
LEMMA RefusedType ==
    ASSUME NEW c \in SessionState, NEW ev
    PROVE  Refused(c, ev) \in SessionState
<1>1. /\ (c.failed \/ c.accepting) \in BOOLEAN
      /\ c.dropped + Chunks(ev) \in Nat
  BY DEF SessionState, Chunks
<1> HIDE DEF Chunks
<1> QED  BY <1>1 DEF SessionState, Refused

(* Record keeps the types, when the pump holds an event.                     *)
LEMMA TypeRecord ==
    ASSUME TypeOK, NEW s \in Sessions, NEW d \in Direction, Record(s, d),
           held[s][d] \in CaptureEvent
    PROVE  TypeOK'
<1> DEFINE ev == [held[s][d] EXCEPT !.sequence = cap[s].sequence]
<1>1. cap[s] \in SessionState
  BY DEF TypeOK
<1>2. [op |-> "event", s |-> s, ev |-> ev] \in Command
  BY <1>1 DEF Command, CaptureEvent, SessionState
<1>3. queue' \in Seq(Command) /\ Len(queue') <= QueueMax
  <2>1. queue \in Seq(Command) /\ Len(queue) <= QueueMax /\ Len(queue) \in Nat
    BY DEF TypeOK
  <2>2. \/ Len(queue) < QueueMax /\ queue' = Append(queue, [op |-> "event", s |-> s, ev |-> ev])
        \/ queue' = queue
    BY DEF Record, Accepted
  <2> QED  BY <1>2, <2>1, <2>2, AppendToQueue, QueueMaxAssumption
<1>4. cap' \in [Sessions -> SessionState]
  <2>1. cap \in [Sessions -> SessionState]
    BY DEF TypeOK
  <2>2. [cap[s] EXCEPT !.sequence = @ + 1] \in SessionState
    BY <1>1 DEF SessionState
  <2>3. Refused(cap[s], held[s][d]) \in SessionState
    BY <1>1, RefusedType
  <2>4. \/ cap' = [cap EXCEPT ![s] = [cap[s] EXCEPT !.sequence = @ + 1]]
        \/ cap' = [cap EXCEPT ![s] = Refused(cap[s], held[s][d])]
    BY DEF Record
  <2> QED  BY <2>1, <2>2, <2>3, <2>4
<1>5. pump' \in [Sessions -> [Direction -> {"read", "held", "eof", "dead"}]]
  BY DEF TypeOK, Record
<1>6. held' \in [Sessions -> [Direction -> CaptureEvent \cup {NoEvent}]]
  BY DEF TypeOK, Record
<1> QED  BY <1>3, <1>4, <1>5, <1>6, SMTT(30) DEF TypeOK, Record, threadVars, diskVars

(* EndPumps keeps the types.                                                 *)
LEMMA TypeEndPumps ==
    ASSUME TypeOK, NEW s \in Sessions, EndPumps(s)
    PROVE  TypeOK'
BY DEF TypeOK, EndPumps, threadVars, diskVars

(* Finalize keeps the types.                                                 *)
LEMMA TypeFinalize ==
    ASSUME TypeOK, NEW s \in Sessions, NEW tc \in BOOLEAN, Finalize(s, tc)
    PROVE  TypeOK'
<1>1. cap[s] \in SessionState /\ cnt[s] \in Counters
  BY DEF TypeOK
<1>2. [transport |-> tc, bytes |-> cnt[s].bytes, chunks |-> cnt[s].chunks,
       failed |-> cap[s].failed, dropped |-> cap[s].dropped] \in CloseSummary
  BY <1>1 DEF CloseSummary, SessionState, Counters
<1>3. cap' \in [Sessions -> SessionState]
  BY <1>1, <1>2, ZenonT(60) DEF TypeOK, Finalize, SessionState
<1> QED  BY <1>3 DEF TypeOK, Finalize, threadVars, diskVars

(* LoseFinalizer keeps the types.                                            *)
LEMMA TypeLoseFinalizer ==
    ASSUME TypeOK, NEW s \in Sessions, LoseFinalizer(s)
    PROVE  TypeOK'
BY ConstantTypes DEF TypeOK, LoseFinalizer, threadVars, diskVars

(* PutClose keeps the types.                                                 *)
LEMMA TypePutClose ==
    ASSUME TypeOK, NEW s \in Sessions, PutClose(s)
    PROVE  TypeOK'
<1>1. cap[s] \in SessionState
  BY DEF TypeOK
<1>2. [op |-> "close", s |-> s, sum |-> cap[s].sum] \in Command
  BY <1>1 DEF Command, SessionState
<1>3. queue' \in Seq(Command) /\ Len(queue') <= QueueMax
  BY <1>2, AppendToQueue, QueueMaxAssumption DEF TypeOK, PutClose
<1>4. cap' \in [Sessions -> SessionState]
  BY ConstantTypes DEF TypeOK, PutClose
<1>5. fut' \in [Sessions -> {"none", "pending", "cancelled", "resolved"}]
  BY DEF TypeOK, PutClose
<1> QED  BY <1>3, <1>4, <1>5 DEF TypeOK, PutClose, threadVars, diskVars

(* PutCloseTimeout keeps the types.                                          *)
LEMMA TypePutCloseTimeout ==
    ASSUME TypeOK, NEW s \in Sessions, PutCloseTimeout(s)
    PROVE  TypeOK'
BY ConstantTypes DEF TypeOK, PutCloseTimeout, threadVars, diskVars

(* CancelFinalizer keeps the types.                                          *)
LEMMA TypeCancelFinalizer ==
    ASSUME TypeOK, NEW s \in Sessions, CancelFinalizer(s)
    PROVE  TypeOK'
<1>1. cap' \in [Sessions -> SessionState]
  <2>1. cap \in [Sessions -> SessionState]
    BY DEF TypeOK
  <2>2. [cap[s] EXCEPT !.st = "detached"] \in SessionState
    BY <2>1 DEF SessionState
  <2>3. \/ cap' = [cap EXCEPT ![s] = [cap[s] EXCEPT !.st = "detached"]]
        \/ cap' = [cap EXCEPT ![s] = SessionAt("lost")]
    BY DEF CancelFinalizer
  <2> QED  BY <2>1, <2>2, <2>3, ConstantTypes
<1>2. fut' \in [Sessions -> {"none", "pending", "cancelled", "resolved"}]
  <2>1. fut \in [Sessions -> {"none", "pending", "cancelled", "resolved"}]
    BY DEF TypeOK
  <2>2. fut' = fut \/ fut' = [fut EXCEPT ![s] = "cancelled"]
    BY DEF CancelFinalizer
  <2> QED  BY <2>1, <2>2
<1> QED  BY <1>1, <1>2 DEF TypeOK, CancelFinalizer, threadVars, diskVars

(* FinalizerReturns keeps the types.                                         *)
LEMMA TypeFinalizerReturns ==
    ASSUME TypeOK, NEW s \in Sessions, FinalizerReturns(s)
    PROVE  TypeOK'
BY ConstantTypes DEF TypeOK, FinalizerReturns, threadVars, diskVars

(* NotifyFailure keeps the types.                                            *)
LEMMA TypeNotifyFailure ==
    ASSUME TypeOK, NEW s \in Sessions, NotifyFailure(s)
    PROVE  TypeOK'
<1>1. cap \in [Sessions -> SessionState]
  BY DEF TypeOK
<1>2. [cap[s] EXCEPT !.failed = TRUE, !.accepting = FALSE] \in SessionState
  BY <1>1 DEF SessionState
<1>3. \/ cap' = cap
      \/ cap' = [cap EXCEPT ![s] = [cap[s] EXCEPT !.failed = TRUE, !.accepting = FALSE]]
  BY DEF NotifyFailure
<1>4. cap' \in [Sessions -> SessionState]
  BY <1>1, <1>2, <1>3
<1> QED  BY <1>4 DEF TypeOK, NotifyFailure, threadVars, diskVars

(* The command the writer thread finds, and the queue without it.            *)
LEMMA HeadTypes ==
    ASSUME TypeOK, NEW o, HeadIs(o)
    PROVE  /\ Head(queue) \in Command
           /\ Head(queue) = queue[1]
           /\ Head(queue).op = o
           /\ Len(queue) \in Nat \ {0}
           /\ Tail(queue) \in Seq(Command)
           /\ Len(Tail(queue)) = Len(queue) - 1
           /\ Len(Tail(queue)) <= QueueMax
           /\ \A i \in 1 .. Len(queue) - 1 : Tail(queue)[i] = queue[i + 1]
<1>1. queue \in Seq(Command) /\ queue # <<>> /\ Len(queue) <= QueueMax
  BY DEF TypeOK, HeadIs
<1> QED  BY <1>1, TailOfQueue, QueueMaxAssumption DEF HeadIs

(* WorkerOpen keeps the types.                                               *)
LEMMA TypeWorkerOpen ==
    ASSUME TypeOK, WorkerOpen
    PROVE  TypeOK'
<1> DEFINE s == Head(queue).s
<1>1. HeadIs("open")
  BY DEF WorkerOpen
<1>2. s \in Sessions /\ queue' \in Seq(Command) /\ Len(queue') <= QueueMax
  BY <1>1, HeadTypes, CommandFields DEF WorkerOpen
<1>3. /\ dir \in [Sessions -> {"absent", "partial", "final"}]
      /\ sfile \in [Sessions -> {"missing", "ok", "empty"}]
      /\ writer \in [Sessions -> Writer]
      /\ notices \subseteq Sessions
  BY DEF TypeOK
<1>4. /\ dir' = dir \/ dir' = [dir EXCEPT ![s] = "partial"]
      /\ sfile' = sfile \/ sfile' = [sfile EXCEPT ![s] = "ok"]
      /\ writer' = writer \/ writer' = [writer EXCEPT ![s] = NewWriter]
      /\ notices' = notices \/ notices' = notices \cup {s}
  BY DEF WorkerOpen
<1> HIDE DEF s
<1>5. /\ dir' \in [Sessions -> {"absent", "partial", "final"}]
      /\ sfile' \in [Sessions -> {"missing", "ok", "empty"}]
      /\ writer' \in [Sessions -> Writer]
      /\ notices' \subseteq Sessions
  BY <1>2, <1>3, <1>4, ConstantTypes
<1> QED  BY <1>2, <1>5 DEF TypeOK, WorkerOpen

(* The files and the writer after one append, whatever becomes of it.        *)
LEMMA TypeAppend ==
    ASSUME TypeOK, NEW s \in Sessions, NEW ev \in CaptureEvent,
           AppendDone(s, ev) \/ AppendFails(s, ev)
    PROVE  /\ raw' \in [Sessions -> [Direction -> Nat]]
           /\ timeline' \in [Sessions -> Seq(CaptureEvent)]
           /\ tail' \in [Sessions -> {"clean", "torn", "unterminated"}]
           /\ writer' \in [Sessions -> Writer]
           /\ notices' \subseteq Sessions
<1>1. /\ raw \in [Sessions -> [Direction -> Nat]]
      /\ timeline \in [Sessions -> Seq(CaptureEvent)]
      /\ tail \in [Sessions -> {"clean", "torn", "unterminated"}]
      /\ writer \in [Sessions -> Writer]
      /\ notices \subseteq Sessions
  BY SMTT(30) DEF TypeOK
<1>2. /\ ev.direction \in Direction
      /\ ev.length \in Nat
      /\ Chunks(ev) \in Nat
  BY DEF CaptureEvent, Chunks
<1>3. Append(timeline[s], ev) \in Seq(CaptureEvent)
  BY <1>1, SMTT(30)
<1> DEFINE w == writer[s]
           done == [w EXCEPT !.next = @ + 1,
                             !.dirseq[ev.direction] = @ + 1,
                             !.bytes[ev.direction] = @ + ev.length,
                             !.chunks[ev.direction] = @ + Chunks(ev)]
<1>4. done \in Writer /\ [w EXCEPT !.errors = TRUE] \in Writer
  <2>1. w \in Writer
    BY <1>1
  <2> HIDE DEF w
  <2>2. /\ w.next + 1 \in Nat
        /\ [w.dirseq EXCEPT ![ev.direction] = @ + 1] \in [Direction -> Nat]
        /\ [w.bytes EXCEPT ![ev.direction] = @ + ev.length] \in [Direction -> Nat]
        /\ [w.chunks EXCEPT ![ev.direction] = @ + Chunks(ev)] \in [Direction -> Nat]
    BY <1>2, <2>1 DEF Writer
  <2>3. done \in Writer
    BY <2>1, <2>2 DEF Writer
  <2> QED  BY <2>1, <2>3 DEF Writer
<1>5. CASE AppendDone(s, ev)
  <2>1. raw' = [raw EXCEPT ![s][ev.direction] = @ + ev.length]
    BY <1>5, SMTT(30) DEF AppendDone
  <2>2. writer' = [writer EXCEPT ![s] = done]
    BY <1>5, ZenonT(60) DEF AppendDone
  <2>3. timeline' = [timeline EXCEPT ![s] = Append(timeline[s], ev)]
        /\ tail' = tail /\ notices' = notices
    BY <1>5 DEF AppendDone
  <2> QED  BY <1>1, <1>2, <1>3, <1>4, <2>1, <2>2, <2>3
<1>6. CASE AppendFails(s, ev)
  <2>1. \/ raw' = raw
        \/ \E n \in Nat : raw' = [raw EXCEPT ![s][ev.direction] = @ + n]
    BY <1>2, <1>6 DEF AppendFails
  <2>2. /\ timeline' = timeline \/ timeline' = [timeline EXCEPT ![s] = Append(timeline[s], ev)]
        /\ tail' = tail \/ \E x \in {"torn", "unterminated"} : tail' = [tail EXCEPT ![s] = x]
    BY <1>6 DEF AppendFails
  <2>3. /\ writer' = [writer EXCEPT ![s] = [w EXCEPT !.errors = TRUE]]
        /\ notices' = notices \cup {s}
    BY <1>6 DEF AppendFails
  <2>4. raw' \in [Sessions -> [Direction -> Nat]]
    <3>1. ASSUME NEW n \in Nat, raw' = [raw EXCEPT ![s][ev.direction] = @ + n]
          PROVE  raw' \in [Sessions -> [Direction -> Nat]]
      BY <1>1, <1>2, <3>1
    <3> QED  BY <1>1, <2>1, <3>1
  <2>5. /\ timeline' \in [Sessions -> Seq(CaptureEvent)]
        /\ tail' \in [Sessions -> {"clean", "torn", "unterminated"}]
    BY <1>1, <1>3, <2>2
  <2>6. writer' \in [Sessions -> Writer] /\ notices' \subseteq Sessions
    BY <1>1, <1>4, <2>3
  <2> QED  BY <2>4, <2>5, <2>6
<1> QED  BY <1>5, <1>6

(* WorkerEvent keeps the types.                                              *)
LEMMA TypeWorkerEvent ==
    ASSUME TypeOK, WorkerEvent
    PROVE  TypeOK'
<1> DEFINE s == Head(queue).s
           ev == Head(queue).ev
<1>1. HeadIs("event")
  BY DEF WorkerEvent
<1>2. /\ s \in Sessions
      /\ ev \in CaptureEvent
      /\ queue' \in Seq(Command)
      /\ Len(queue') <= QueueMax
  BY <1>1, HeadTypes, CommandFields DEF WorkerEvent
<1>3. \/ AppendDone(s, ev) \/ AppendFails(s, ev)
      \/ notices' = notices \cup {s} /\ UNCHANGED <<raw, timeline, tail, writer>>
  BY DEF WorkerEvent
<1> HIDE DEF s, ev
<1>4. CASE AppendDone(s, ev) \/ AppendFails(s, ev)
  BY <1>2, <1>4, TypeAppend, ZenonT(60) DEF TypeOK, WorkerEvent
<1>5. CASE notices' = notices \cup {s} /\ UNCHANGED <<raw, timeline, tail, writer>>
  BY <1>2, <1>5 DEF TypeOK, WorkerEvent
<1> QED  BY <1>3, <1>4, <1>5

(* WorkerClose keeps the types.                                              *)
LEMMA TypeWorkerClose ==
    ASSUME TypeOK, WorkerClose
    PROVE  TypeOK'
<1> DEFINE s == Head(queue).s
           sum == Head(queue).sum
<1>1. HeadIs("close")
  BY DEF WorkerClose
<1>2. /\ s \in Sessions
      /\ sum \in CloseSummary
      /\ queue' \in Seq(Command)
      /\ Len(queue') <= QueueMax
  BY <1>1, HeadTypes, CommandFields DEF WorkerClose
<1>3. /\ \/ manifest' = manifest
         \/ manifest' = [manifest EXCEPT ![s] = CloseManifest(s, sum)]
      /\ work' = [pc |-> "rename", s |-> s] \/ work' = [pc |-> "resolve", s |-> s]
      /\ writer' = [writer EXCEPT ![s] = NoWriter]
  BY DEF WorkerClose, CloseFailed, WithoutWriter
<1> HIDE DEF s, sum
<1>4. manifest' \in [Sessions -> Manifest \cup {NoManifest}]
  <2>1. manifest \in [Sessions -> Manifest \cup {NoManifest}]
    BY DEF TypeOK
  <2> QED  BY <1>2, <1>3, <2>1, CloseManifestType
<1>5. writer' \in [Sessions -> Writer]
  <2>1. writer \in [Sessions -> Writer]
    BY DEF TypeOK
  <2> QED  BY <1>2, <1>3, <2>1, ConstantTypes
<1>6. work' \in [pc : {"off", "get", "rename", "ready", "resolve", "set", "dead", "exited"},
                 s : Sessions \cup {NoSession}]
  BY <1>2, <1>3
<1> QED  BY <1>2, <1>4, <1>5, <1>6 DEF TypeOK, WorkerClose, loopVars

(* WorkerRename keeps the types.                                             *)
LEMMA TypeWorkerRename ==
    ASSUME TypeOK, WorkerRename
    PROVE  TypeOK'
<1>1. /\ dir \in [Sessions -> {"absent", "partial", "final"}]
      /\ work \in [pc : {"off", "get", "rename", "ready", "resolve", "set", "dead", "exited"},
                   s : Sessions \cup {NoSession}]
  BY DEF TypeOK
<1>2. /\ dir' = dir \/ dir' = [dir EXCEPT ![work.s] = "final"]
      /\ work' = [work EXCEPT !.pc = "ready"] \/ work' = [pc |-> "resolve", s |-> work.s]
  BY DEF WorkerRename, CloseFailed
<1>3. /\ dir' \in [Sessions -> {"absent", "partial", "final"}]
      /\ work' \in [pc : {"off", "get", "rename", "ready", "resolve", "set", "dead", "exited"},
                    s : Sessions \cup {NoSession}]
  BY <1>1, <1>2
<1> QED  BY <1>3 DEF TypeOK, WorkerRename, loopVars

(* WorkerReady keeps the types, when the thread has a session.               *)
LEMMA TypeWorkerReady ==
    ASSUME TypeOK, WorkerReady, work.s \in Sessions
    PROVE  TypeOK'
<1>1. /\ ready \in [Sessions -> Manifest \cup {NoManifest}]
      /\ manifest \in [Sessions -> Manifest \cup {NoManifest}]
      /\ work \in [pc : {"off", "get", "rename", "ready", "resolve", "set", "dead", "exited"},
                   s : Sessions \cup {NoSession}]
  BY DEF TypeOK
<1>2. /\ ready' = ready \/ ready' = [ready EXCEPT ![work.s] = manifest[work.s]]
      /\ work' = [work EXCEPT !.pc = "resolve"]
  BY DEF WorkerReady
<1>3. /\ ready' \in [Sessions -> Manifest \cup {NoManifest}]
      /\ work' \in [pc : {"off", "get", "rename", "ready", "resolve", "set", "dead", "exited"},
                    s : Sessions \cup {NoSession}]
  BY <1>1, <1>2
<1> QED  BY <1>3 DEF TypeOK, WorkerReady, loopVars

(* WorkerCheckDone keeps the types.                                          *)
LEMMA TypeWorkerCheckDone ==
    ASSUME TypeOK, WorkerCheckDone
    PROVE  TypeOK'
<1>1. work' = [work EXCEPT !.pc = "set"] \/ work' = [pc |-> "get", s |-> NoSession]
  BY DEF WorkerCheckDone, ThreadAt
<1> QED  BY <1>1 DEF TypeOK, WorkerCheckDone, loopVars, diskVars

(* WorkerSet keeps the types.                                                *)
LEMMA TypeWorkerSet ==
    ASSUME TypeOK, WorkerSet
    PROVE  TypeOK'
<1>1. /\ \/ work' = [work EXCEPT !.pc = "dead"]
         \/ work' = [pc |-> "get", s |-> NoSession]
      /\ fut' = fut \/ fut' = [fut EXCEPT ![work.s] = "resolved"]
  BY DEF WorkerSet, ThreadAt
<1>2. fut' \in [Sessions -> {"none", "pending", "cancelled", "resolved"}]
  <2>1. fut \in [Sessions -> {"none", "pending", "cancelled", "resolved"}]
    BY DEF TypeOK
  <2> QED  BY <1>1, <2>1
<1> QED  BY <1>1, <1>2 DEF TypeOK, WorkerSet, loopVars, diskVars

(* WorkerStop keeps the types.                                               *)
LEMMA TypeWorkerStop ==
    ASSUME TypeOK, WorkerStop
    PROVE  TypeOK'
<1>1. HeadIs("stop")
  BY DEF WorkerStop
<1>2. queue' \in Seq(Command) /\ Len(queue') <= QueueMax
  BY <1>1, HeadTypes DEF WorkerStop
<1>3. writer' \in [Sessions -> Writer]
  BY ConstantTypes DEF WorkerStop
<1>4. work' = [work EXCEPT !.pc = "exited"]
  BY DEF WorkerStop
<1> QED  BY <1>2, <1>3, <1>4 DEF TypeOK, WorkerStop, loopVars, diskVars

(* The end of a process leaves the types.                                    *)
LEMMA TypeProcessGone ==
    ASSUME TypeOK, NEW m \in {"down", "crashed"}, ProcessGone(m), crashes' \in Nat
    PROVE  TypeOK'
<1>1. cap' \in [Sessions -> SessionState]
  BY ConstantTypes DEF TypeOK, ProcessGone
<1>2. /\ writer' \in [Sessions -> Writer]
      /\ work' = [pc |-> "off", s |-> NoSession]
      /\ rec' = [pc |-> "off", s |-> NoSession, todo |-> {}]
  BY ConstantTypes DEF ProcessGone, ThreadAt, RecoveryAt
<1>3. queue' \in Seq(Command) /\ Len(queue') <= QueueMax
  BY QueueMaxAssumption DEF ProcessGone
<1> QED  BY <1>1, <1>2, <1>3 DEF TypeOK, ProcessGone, diskVars

(* Start, stop and the ways a process ends keep the types.                   *)
LEMMA TypeLifeCycle ==
    ASSUME TypeOK, Start \/ StartDone \/ StopManager \/ Stopped \/ Crash \/ RecoveryFails
    PROVE  TypeOK'
<1>1. ASSUME Start PROVE TypeOK'
  <2>1. rec' = [pc |-> "pick", s |-> NoSession, todo |-> Candidates]
    BY <1>1 DEF Start, RecoveryAt
  <2> QED  BY <1>1, <2>1 DEF TypeOK, Start, Candidates, threadVars, diskVars
<1>2. ASSUME StartDone PROVE TypeOK'
  <2>1. /\ rec' = [pc |-> "off", s |-> NoSession, todo |-> {}]
        /\ work' = [pc |-> "get", s |-> NoSession]
    BY <1>2 DEF StartDone, RecoveryAt, ThreadAt
  <2> QED  BY <1>2, <2>1 DEF TypeOK, StartDone, diskVars
<1>3. ASSUME StopManager PROVE TypeOK'
  <2>1. [op |-> "stop"] \in Command
    BY DEF Command
  <2>2. queue \in Seq(Command) /\ Len(queue) \in Nat
    BY DEF TypeOK
  <2>3. queue' \in Seq(Command) /\ Len(queue') <= QueueMax
    BY <1>3, <2>1, <2>2, AppendToQueue, QueueMaxAssumption DEF StopManager
  <2> QED  BY <1>3, <2>3 DEF TypeOK, StopManager, threadVars, diskVars
<1>4. ASSUME Stopped PROVE TypeOK'
  <2>1. crashes' \in Nat
    BY <1>4 DEF TypeOK, Stopped
  <2> QED  BY <1>4, <2>1, TypeProcessGone DEF Stopped
<1>5. ASSUME Crash \/ RecoveryFails PROVE TypeOK'
  <2>1. crashes' \in Nat
    BY <1>5 DEF TypeOK, Crash, RecoveryFails
  <2> QED  BY <1>5, <2>1, TypeProcessGone DEF Crash, RecoveryFails
<1> QED  BY <1>1, <1>2, <1>3, <1>4, <1>5

(* Picking a directory for recovery keeps the types.                         *)
LEMMA TypeRecover ==
    ASSUME TypeOK, NEW s \in Sessions,
           RecoverSkip(s) \/ RecoverKeepManifest(s) \/ RecoverDistrust(s) \/ RecoverBuild(s)
    PROVE  TypeOK'
<1>1. ASSUME RecoverSkip(s) PROVE TypeOK'
  BY <1>1 DEF TypeOK, RecoverSkip, loopVars, threadVars, diskVars
<1>2. ASSUME RecoverKeepManifest(s) PROVE TypeOK'
  BY <1>2 DEF TypeOK, RecoverKeepManifest, loopVars, threadVars, diskVars
<1>3. ASSUME RecoverDistrust(s) PROVE TypeOK'
  BY <1>3 DEF TypeOK, RecoverDistrust, loopVars, threadVars
<1>4. ASSUME RecoverBuild(s) PROVE TypeOK'
  <2>1. /\ sfile \in [Sessions -> {"missing", "ok", "empty"}]
        /\ raw \in [Sessions -> [Direction -> Nat]]
        /\ manifest \in [Sessions -> Manifest \cup {NoManifest}]
        /\ rec \in [pc : {"off", "pick", "rename", "ready"}, s : Sessions \cup {NoSession},
                    todo : SUBSET Sessions]
    BY DEF TypeOK
  <2>2. /\ sfile' \in [Sessions -> {"missing", "ok", "empty"}]
        /\ raw' \in [Sessions -> [Direction -> Nat]]
        /\ rec' \in [pc : {"off", "pick", "rename", "ready"}, s : Sessions \cup {NoSession},
                     todo : SUBSET Sessions]
    BY <1>4, <2>1 DEF RecoverBuild, RecoveredRaw
  <2>3. manifest' \in [Sessions -> Manifest \cup {NoManifest}]
    BY <1>4, <2>1, RecoveryManifestType DEF RecoverBuild
  <2> QED  BY <1>4, <2>2, <2>3 DEF TypeOK, RecoverBuild, loopVars, threadVars
<1> QED  BY <1>1, <1>2, <1>3, <1>4

(* The rename and the marker of recovery keep the types.                     *)
LEMMA TypeRecoverFinish ==
    ASSUME TypeOK, RecoverRename \/ RecoverReady, rec.s \in Sessions
    PROVE  TypeOK'
<1>1. ASSUME RecoverRename PROVE TypeOK'
  BY <1>1 DEF TypeOK, RecoverRename, loopVars, threadVars
<1>2. ASSUME RecoverReady PROVE TypeOK'
  <2>1. rec' = [pc |-> "pick", s |-> NoSession, todo |-> rec.todo \ {rec.s}]
    BY <1>2 DEF RecoverReady, RecoveryAt
  <2>2. ready' \in [Sessions -> Manifest \cup {NoManifest}]
    <3>1. /\ ready \in [Sessions -> Manifest \cup {NoManifest}]
          /\ manifest \in [Sessions -> Manifest \cup {NoManifest}]
      BY DEF TypeOK
    <3>2. ready' = [ready EXCEPT ![rec.s] = manifest[rec.s]]
      BY <1>2 DEF RecoverReady
    <3> QED  BY <3>1, <3>2
  <2>3. rec' \in [pc : {"off", "pick", "rename", "ready"}, s : Sessions \cup {NoSession},
                    todo : SUBSET Sessions]
    <3>1. rec.todo \subseteq Sessions
      BY DEF TypeOK
    <3>2. rec.todo \ {rec.s} \in SUBSET Sessions
      BY <3>1
    <3> QED  BY <2>1, <3>2
  <2> QED  BY <1>2, <2>2, <2>3 DEF TypeOK, RecoverReady, loopVars, threadVars
<1> QED  BY <1>1, <1>2

-----------------------------------------------------------------------------
(* The queue.                                                              *)

(* Where the commands of a session are after the head was taken.             *)
Shifted(q, s) ==
    /\ 1 \in Positions(q)
    /\ Positions(Tail(q)) \subseteq Nat
    /\ \A i \in Positions(Tail(q)) :
          /\ i + 1 \in Positions(q)
          /\ Tail(q)[i] = q[i + 1]
          /\ OpenAt(Tail(q), s, i) <=> OpenAt(q, s, i + 1)
          /\ EventAt(Tail(q), s, i) <=> EventAt(q, s, i + 1)
          /\ CloseAt(Tail(q), s, i) <=> CloseAt(q, s, i + 1)
    /\ \A i \in Positions(q) \ {1} :
          /\ i - 1 \in Positions(Tail(q))
          /\ Tail(q)[i - 1] = q[i]
          /\ EventAt(Tail(q), s, i - 1) <=> EventAt(q, s, i)

(* The head of the queue was taken: every other command moved up by one.     *)
LEMMA TailPositions ==
    ASSUME NEW s \in Sessions, NEW q \in Seq(Command), q # <<>>
    PROVE  Shifted(q, s)
<1>1. /\ Len(q) \in Nat \ {0}
      /\ Len(Tail(q)) = Len(q) - 1
      /\ \A i \in 1 .. Len(q) - 1 : Tail(q)[i] = q[i + 1]
  BY TailOfQueue
<1>2. 1 \in Positions(q) /\ Positions(Tail(q)) \subseteq Nat
  BY <1>1 DEF Positions
<1>3. ASSUME NEW i \in Positions(Tail(q))
      PROVE  /\ i + 1 \in Positions(q)
             /\ Tail(q)[i] = q[i + 1]
  BY <1>1 DEF Positions
<1>4. ASSUME NEW i \in Positions(q) \ {1}
      PROVE  /\ i - 1 \in Positions(Tail(q))
             /\ Tail(q)[i - 1] = q[i]
  BY <1>1 DEF Positions
<1> QED  BY <1>2, <1>3, <1>4 DEF Shifted, OpenAt, EventAt, CloseAt

(* Taking the head leaves the rest in order.                                 *)
LEMMA TailOrdered ==
    ASSUME NEW s \in Sessions, NEW q \in Seq(Command), q # <<>>
    PROVE  /\ Silent(q, s) => Silent(Tail(q), s)
           /\ Ordered(q, s) => Ordered(Tail(q), s)
<1>0. Shifted(q, s)
  BY TailPositions
<1>1. ASSUME Silent(q, s), NEW i \in Positions(Tail(q))
      PROVE  ~OpenAt(Tail(q), s, i) /\ ~EventAt(Tail(q), s, i) /\ ~CloseAt(Tail(q), s, i)
  BY <1>1, <1>0 DEF Shifted, Silent
<1>2. ASSUME Ordered(q, s), NEW i \in Positions(Tail(q)), NEW j \in Positions(Tail(q))
      PROVE  /\ OpenAt(Tail(q), s, i) /\ OpenAt(Tail(q), s, j) => i = j
             /\ OpenAt(Tail(q), s, i) /\ EventAt(Tail(q), s, j) => i < j
             /\ CloseAt(Tail(q), s, i) /\ EventAt(Tail(q), s, j) => j < i
  <2>1. i \in Nat /\ j \in Nat /\ i + 1 \in Positions(q) /\ j + 1 \in Positions(q)
    BY <1>0 DEF Shifted
  <2>2. /\ OpenAt(q, s, i + 1) /\ OpenAt(q, s, j + 1) => i + 1 = j + 1
        /\ OpenAt(q, s, i + 1) /\ EventAt(q, s, j + 1) => i + 1 < j + 1
        /\ CloseAt(q, s, i + 1) /\ EventAt(q, s, j + 1) => j + 1 < i + 1
    BY <1>2, <2>1 DEF Ordered
  <2> QED  BY <2>1, <2>2, <1>0 DEF Shifted
<1> QED  BY <1>1, <1>2 DEF Silent, Ordered

(* The head was no event of the session; its writer is the same, has failed  *)
(* or is gone.                                                               *)
LEMMA TailPending ==
    ASSUME NEW s \in Sessions, NEW q \in Seq(Command), q # <<>>, ~EventAt(q, s, 1),
           NEW w, NEW v, v = w \/ ~v.open \/ v.errors, NEW n, Pending(q, w, s, n)
    PROVE  Pending(Tail(q), v, s, n)
<1>0. Shifted(q, s)
  BY TailPositions
<1>1. v.open /\ ~v.errors => v.next <= n
  BY DEF Pending
<1>2. \A i \in Positions(Tail(q)) : EventAt(Tail(q), s, i) => Tail(q)[i].ev.sequence < n
  BY <1>0 DEF Shifted, Pending
<1>3. ASSUME NEW m \in 0 .. n - 1,
             \/ \E i \in Positions(Tail(q)) : OpenAt(Tail(q), s, i)
             \/ v.open /\ ~v.errors /\ v.next <= m
      PROVE  \E i \in Positions(Tail(q)) :
                EventAt(Tail(q), s, i) /\ Tail(q)[i].ev.sequence = m
  <2>1. PICK i \in Positions(q) : EventAt(q, s, i) /\ q[i].ev.sequence = m
    BY <1>3, <1>0 DEF Shifted, Pending
  <2>2. i \in Positions(q) \ {1}
    BY <2>1
  <2> QED  BY <2>1, <2>2, <1>0 DEF Shifted
<1> QED  BY <1>1, <1>2, <1>3 DEF Pending

(* The head was the session's open command, and the files are open.          *)
LEMMA TailOpened ==
    ASSUME NEW s \in Sessions, NEW q \in Seq(Command), q # <<>>, OpenAt(q, s, 1),
           NEW w, NEW n \in Nat, Pending(q, w, s, n)
    PROVE  Pending(Tail(q), NewWriter, s, n)
<1>0. Shifted(q, s)
  BY TailPositions
<1>1. NewWriter.next = 0
  BY DEF NewWriter, NoWriter
<1>2. \A i \in Positions(Tail(q)) : EventAt(Tail(q), s, i) => Tail(q)[i].ev.sequence < n
  BY <1>0 DEF Shifted, Pending
<1>3. ASSUME NEW m \in 0 .. n - 1
      PROVE  \E i \in Positions(Tail(q)) :
                EventAt(Tail(q), s, i) /\ Tail(q)[i].ev.sequence = m
  <2>1. 1 \in Positions(q) /\ ~EventAt(q, s, 1)
    BY <1>0 DEF Shifted, OpenAt, EventAt
  <2>2. PICK i \in Positions(q) : EventAt(q, s, i) /\ q[i].ev.sequence = m
    BY <2>1 DEF Pending
  <2>3. i \in Positions(q) \ {1}
    BY <2>1, <2>2
  <2> QED  BY <2>2, <2>3, <1>0 DEF Shifted
<1>4. NewWriter.open /\ ~NewWriter.errors => NewWriter.next <= n
  BY <1>1
<1>5. \A m \in 0 .. n - 1 :
         \/ \E i \in Positions(Tail(q)) : OpenAt(Tail(q), s, i)
         \/ NewWriter.open /\ ~NewWriter.errors /\ NewWriter.next <= m
         => \E i \in Positions(Tail(q)) :
               EventAt(Tail(q), s, i) /\ Tail(q)[i].ev.sequence = m
  BY <1>3
<1> QED  BY <1>2, <1>4, <1>5, Zenon DEF Pending

(* The head was an event of the session, and it was appended.                *)
LEMMA TailAppended ==
    ASSUME NEW s \in Sessions, NEW q \in Seq(Command), q # <<>>, EventAt(q, s, 1),
           \A i \in Positions(q) : ~OpenAt(q, s, i),
           NEW w \in Writer, NEW v \in Writer, w.open, v.errors = w.errors,
           v.next = w.next + 1, q[1].ev.sequence = w.next,
           NEW n \in Nat, Pending(q, w, s, n)
    PROVE  Pending(Tail(q), v, s, n)
<1>0. Shifted(q, s)
  BY TailPositions
<1>1. 1 \in Positions(q) /\ w.next \in Nat
  BY <1>0 DEF Shifted, Writer
<1>2. w.next < n
  BY <1>1 DEF Pending
<1>3. \A i \in Positions(Tail(q)) : EventAt(Tail(q), s, i) => Tail(q)[i].ev.sequence < n
  BY <1>0 DEF Shifted, Pending
<1>4. \A i \in Positions(Tail(q)) : ~OpenAt(Tail(q), s, i)
  BY <1>0 DEF Shifted
<1>5. ASSUME NEW m \in 0 .. n - 1, ~v.errors, v.next <= m
      PROVE  \E i \in Positions(Tail(q)) :
                EventAt(Tail(q), s, i) /\ Tail(q)[i].ev.sequence = m
  <2>1. w.next <= m /\ m # w.next
    BY <1>1, <1>5
  <2>2. PICK i \in Positions(q) : EventAt(q, s, i) /\ q[i].ev.sequence = m
    BY <1>5, <2>1 DEF Pending
  <2>3. i \in Positions(q) \ {1}
    BY <2>1, <2>2
  <2> QED  BY <2>2, <2>3, <1>0 DEF Shifted
<1>6. v.open /\ ~v.errors => v.next <= n
  BY <1>1, <1>2
<1>7. \A m \in 0 .. n - 1 :
         \/ \E i \in Positions(Tail(q)) : OpenAt(Tail(q), s, i)
         \/ v.open /\ ~v.errors /\ v.next <= m
         => \E i \in Positions(Tail(q)) :
               EventAt(Tail(q), s, i) /\ Tail(q)[i].ev.sequence = m
  BY <1>4, <1>5
<1> QED  BY <1>3, <1>6, <1>7, Zenon DEF Pending

(* The head was an event of the session, and was not appended.               *)
LEMMA TailRejected ==
    ASSUME NEW s \in Sessions, NEW q \in Seq(Command), q # <<>>,
           \A i \in Positions(q) : ~OpenAt(q, s, i),
           NEW w, NEW v, ~v.open \/ v.errors, NEW n, Pending(q, w, s, n)
    PROVE  Pending(Tail(q), v, s, n)
<1>0. Shifted(q, s)
  BY TailPositions
<1>1. \A i \in Positions(Tail(q)) : EventAt(Tail(q), s, i) => Tail(q)[i].ev.sequence < n
  BY <1>0 DEF Shifted, Pending
<1>2. \A i \in Positions(Tail(q)) : ~OpenAt(Tail(q), s, i)
  BY <1>0 DEF Shifted
<1> QED  BY <1>1, <1>2 DEF Pending

(* Where the commands of a session are in r, that is q with c put on it.     *)
Extended(q, r, c, s) ==
    /\ Positions(r) \subseteq Nat
    /\ Len(q) + 1 \in Positions(r)
    /\ r[Len(q) + 1] = c
    /\ \A i \in Positions(q) :
          /\ i \in Positions(r)
          /\ i < Len(q) + 1
          /\ r[i] = q[i]
          /\ OpenAt(r, s, i) <=> OpenAt(q, s, i)
          /\ EventAt(r, s, i) <=> EventAt(q, s, i)
          /\ CloseAt(r, s, i) <=> CloseAt(q, s, i)
    /\ \A i \in Positions(r) : i \in Positions(q) \/ i = Len(q) + 1

(* A command was put: every other command is where it was.                   *)
LEMMA AppendPositions ==
    ASSUME NEW s \in Sessions, NEW q \in Seq(Command), NEW c \in Command
    PROVE  Extended(q, Append(q, c), c, s)
<1> DEFINE r == Append(q, c)
<1>1. /\ Len(q) \in Nat
      /\ Len(r) = Len(q) + 1
      /\ \A i \in 1 .. Len(q) : r[i] = q[i]
      /\ r[Len(q) + 1] = c
  BY AppendToQueue
<1> HIDE DEF r
<1>2. ASSUME NEW i \in Positions(q)
      PROVE  /\ i \in Positions(r)
             /\ i < Len(q) + 1
             /\ r[i] = q[i]
  BY <1>1 DEF Positions
<1>3. /\ Positions(r) \subseteq Nat
      /\ Len(q) + 1 \in Positions(r)
      /\ \A i \in Positions(r) : i \in Positions(q) \/ i = Len(q) + 1
  BY <1>1 DEF Positions
<1>4. \A i \in Positions(q) :
         /\ OpenAt(r, s, i) <=> OpenAt(q, s, i)
         /\ EventAt(r, s, i) <=> EventAt(q, s, i)
         /\ CloseAt(r, s, i) <=> CloseAt(q, s, i)
  BY <1>2 DEF OpenAt, EventAt, CloseAt
<1> QED  BY <1>1, <1>2, <1>3, <1>4 DEF r, Extended

(* A command that is not the session's joins the queue.                      *)
LEMMA AppendOther ==
    ASSUME NEW s \in Sessions, NEW q \in Seq(Command), NEW c \in Command,
           c.op = "stop" \/ c.s # s
    PROVE  /\ Silent(q, s) => Silent(Append(q, c), s)
           /\ Ordered(q, s) => Ordered(Append(q, c), s)
<1> DEFINE r == Append(q, c)
<1>0. Extended(q, r, c, s)
  BY AppendPositions
<1> HIDE DEF r
<1>1. ASSUME NEW i \in Positions(r), i \notin Positions(q)
      PROVE  /\ ~OpenAt(r, s, i)
             /\ ~EventAt(r, s, i)
             /\ ~CloseAt(r, s, i)
  BY <1>1, <1>0 DEF Extended, OpenAt, EventAt, CloseAt
<1>2. Silent(q, s) => Silent(r, s)
  BY <1>1, <1>0 DEF Extended, Silent
<1>3. Ordered(q, s) => Ordered(r, s)
  BY <1>1, <1>0 DEF Extended, Ordered
<1> QED  BY <1>2, <1>3 DEF r

(* A command that is neither open nor event of the session joins the queue.  *)
LEMMA AppendPending ==
    ASSUME NEW s \in Sessions, NEW q \in Seq(Command), NEW c \in Command,
           c.op \in {"stop", "close"} \/ c.s # s, NEW w, NEW n, Pending(q, w, s, n)
    PROVE  Pending(Append(q, c), w, s, n)
<1> DEFINE r == Append(q, c)
<1>0. Extended(q, r, c, s)
  BY AppendPositions
<1> HIDE DEF r
<1>1. ~OpenAt(r, s, Len(q) + 1) /\ ~EventAt(r, s, Len(q) + 1)
  BY <1>0 DEF Extended, OpenAt, EventAt
<1>2. \A i \in Positions(r) : EventAt(r, s, i) => r[i].ev.sequence < n
  BY <1>1, <1>0 DEF Extended, Pending
<1>3. ASSUME NEW m \in 0 .. n - 1,
             \/ \E i \in Positions(r) : OpenAt(r, s, i)
             \/ w.open /\ ~w.errors /\ w.next <= m
      PROVE  \E i \in Positions(r) : EventAt(r, s, i) /\ r[i].ev.sequence = m
  <2>1. PICK i \in Positions(q) : EventAt(q, s, i) /\ q[i].ev.sequence = m
    BY <1>1, <1>3, <1>0 DEF Extended, Pending
  <2> QED  BY <2>1, <1>0 DEF Extended
<1>4. Pending(r, w, s, n)
  BY <1>2, <1>3 DEF Pending
<1> QED  BY <1>4 DEF r

(* The session's next event joins the queue.                                 *)
LEMMA AppendEvent ==
    ASSUME NEW s \in Sessions, NEW q \in Seq(Command), NEW c \in Command,
           c.op = "event", c.s = s, NEW w \in Writer, NEW n \in Nat,
           c.ev.sequence = n, Pending(q, w, s, n)
    PROVE  Pending(Append(q, c), w, s, n + 1)
<1> DEFINE r == Append(q, c)
<1>0. Extended(q, r, c, s)
  BY AppendPositions
<1> HIDE DEF r
<1>1. EventAt(r, s, Len(q) + 1) /\ ~OpenAt(r, s, Len(q) + 1)
  BY <1>0 DEF Extended, OpenAt, EventAt
<1>2. ASSUME NEW i \in Positions(r), EventAt(r, s, i)
      PROVE  r[i].ev.sequence < n + 1
  <2>1. CASE i \in Positions(q)
    <3>1. q[i].ev.sequence < n /\ q[i] \in Command /\ EventAt(q, s, i)
      BY <1>2, <2>1, <1>0 DEF Extended, Pending, Positions
    <3>2. q[i].ev.sequence \in Nat
      BY <3>1, CommandFields DEF EventAt, CaptureEvent
    <3> QED  BY <2>1, <3>1, <3>2, <1>0 DEF Extended
  <2>2. CASE i = Len(q) + 1
    BY <2>2, <1>0 DEF Extended
  <2> QED  BY <2>1, <2>2, <1>0 DEF Extended
<1>3. ASSUME NEW m \in 0 .. n,
             \/ \E i \in Positions(r) : OpenAt(r, s, i)
             \/ w.open /\ ~w.errors /\ w.next <= m
      PROVE  \E i \in Positions(r) : EventAt(r, s, i) /\ r[i].ev.sequence = m
  <2>1. CASE m = n
    BY <1>1, <2>1, <1>0 DEF Extended
  <2>2. CASE m # n
    <3>1. PICK i \in Positions(q) : EventAt(q, s, i) /\ q[i].ev.sequence = m
      BY <1>1, <1>3, <2>2, <1>0 DEF Extended, Pending
    <3> QED  BY <3>1, <1>0 DEF Extended
  <2> QED  BY <2>1, <2>2
<1>4. w.open /\ ~w.errors => w.next <= n + 1
  BY DEF Pending, Writer
<1>5. Pending(r, w, s, n + 1)
  BY <1>2, <1>3, <1>4 DEF Pending
<1> QED  BY <1>5 DEF r

(* Each command joins the queue in its place.                                *)
LEMMA AppendInOrder ==
    ASSUME NEW s \in Sessions, NEW q \in Seq(Command), NEW c \in Command, c.s = s,
           Ordered(q, s)
    PROVE  /\ c.op = "open" /\ Silent(q, s) => Ordered(Append(q, c), s)
           /\ c.op = "event" /\ (\A i \in Positions(q) : ~CloseAt(q, s, i))
                 => Ordered(Append(q, c), s)
           /\ c.op = "close" => Ordered(Append(q, c), s)
<1> DEFINE r == Append(q, c)
           k == Len(q) + 1
<1>0. Extended(q, r, c, s)
  BY AppendPositions
<1> HIDE DEF r
<1>1. /\ c.op = "open" => OpenAt(r, s, k) /\ ~EventAt(r, s, k) /\ ~CloseAt(r, s, k)
      /\ c.op = "event" => ~OpenAt(r, s, k) /\ EventAt(r, s, k) /\ ~CloseAt(r, s, k)
      /\ c.op = "close" => ~OpenAt(r, s, k) /\ ~EventAt(r, s, k) /\ CloseAt(r, s, k)
  BY <1>0 DEF Extended, OpenAt, EventAt, CloseAt
<1>2. Len(q) \in Nat
  OBVIOUS
<1>3. c.op = "open" /\ Silent(q, s) => Ordered(r, s)
  BY <1>1, <1>2, <1>0 DEF Extended, Ordered, Silent
<1>4. c.op = "event" /\ (\A i \in Positions(q) : ~CloseAt(q, s, i)) => Ordered(r, s)
  BY <1>1, <1>2, <1>0 DEF Extended, Ordered
<1>5. c.op = "close" => Ordered(r, s)
  BY <1>1, <1>2, <1>0 DEF Extended, Ordered
<1> QED  BY <1>3, <1>4, <1>5 DEF r
=============================================================================
