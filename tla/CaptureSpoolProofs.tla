-------------------------- MODULE CaptureSpoolProofs --------------------------
(***************************************************************************)
(* Every action of the event loop, of the writer thread, of recovery and of *)
(* the process keeps IInv, one lemma per action; the theorems about        *)
(* CaptureSpool that follow.                                               *)
(***************************************************************************)
EXTENDS CaptureSpoolTypes

(***************************************************************************)
(* The event loop.                                                         *)
(***************************************************************************)

(* An action that leaves a session's own state alone and at most puts or     *)
(* takes a command of another session.                                       *)
Untouched(s) ==
    /\ \/ queue' = queue
       \/ \E c \in Command : (c.op = "stop" \/ c.s # s) /\ queue' = Append(queue, c)
       \/ /\ queue # <<>>
          /\ Head(queue).op = "stop" \/ Head(queue).s # s
          /\ queue' = Tail(queue)
    /\ cap'[s] = cap[s]
    /\ cnt'[s] = cnt[s]
    /\ pump'[s] = pump[s]
    /\ held'[s] = held[s]
    /\ writer'[s] = writer[s]
    /\ dir'[s] = dir[s]
    /\ raw'[s] = raw[s]
    /\ timeline'[s] = timeline[s]
    /\ tail'[s] = tail[s]
    /\ manifest'[s] = manifest[s]
    /\ ready'[s] = ready[s]

(* The queue facts that matter for such a session.                           *)
LEMMA UntouchedQueue ==
    ASSUME TypeOK, NEW s \in Sessions, Untouched(s)
    PROVE  /\ Silent(queue, s) => Silent(queue', s)
           /\ Ordered(queue, s) => Ordered(queue', s)
           /\ \A w, n : Pending(queue, w, s, n) => Pending(queue', w, s, n)
           /\ \A i \in Positions(queue') :
                 OpenAt(queue', s, i) => \E j \in Positions(queue) : OpenAt(queue, s, j)
           /\ \A i \in Positions(queue') :
                 CloseAt(queue', s, i) =>
                     \E j \in Positions(queue) : CloseAt(queue, s, j) /\ queue[j] = queue'[i]
<1>0. queue \in Seq(Command)
  BY DEF TypeOK
<1>1. CASE queue' = queue
  BY <1>1
<1>2. ASSUME NEW c \in Command, c.op = "stop" \/ c.s # s, queue' = Append(queue, c)
      PROVE  /\ Silent(queue, s) => Silent(queue', s)
             /\ Ordered(queue, s) => Ordered(queue', s)
             /\ \A w, n : Pending(queue, w, s, n) => Pending(queue', w, s, n)
             /\ \A i \in Positions(queue') :
                   OpenAt(queue', s, i) => \E j \in Positions(queue) : OpenAt(queue, s, j)
             /\ \A i \in Positions(queue') :
                   CloseAt(queue', s, i) =>
                       \E j \in Positions(queue) : CloseAt(queue, s, j) /\ queue[j] = queue'[i]
  <2>1. Extended(queue, queue', c, s)
    BY <1>0, <1>2, AppendPositions
  <2>2. ~OpenAt(queue', s, Len(queue) + 1) /\ ~CloseAt(queue', s, Len(queue) + 1)
    BY <1>2, <2>1 DEF Extended, OpenAt, CloseAt
  <2>3. /\ Silent(queue, s) => Silent(queue', s)
        /\ Ordered(queue, s) => Ordered(queue', s)
    BY <1>0, <1>2, AppendOther
  <2>4. \A w, n : Pending(queue, w, s, n) => Pending(queue', w, s, n)
    BY <1>0, <1>2, AppendPending
  <2> QED  BY <2>1, <2>2, <2>3, <2>4 DEF Extended
<1>3. ASSUME queue # <<>>, Head(queue).op = "stop" \/ Head(queue).s # s, queue' = Tail(queue)
      PROVE  /\ Silent(queue, s) => Silent(queue', s)
             /\ Ordered(queue, s) => Ordered(queue', s)
             /\ \A w, n : Pending(queue, w, s, n) => Pending(queue', w, s, n)
             /\ \A i \in Positions(queue') :
                   OpenAt(queue', s, i) => \E j \in Positions(queue) : OpenAt(queue, s, j)
             /\ \A i \in Positions(queue') :
                   CloseAt(queue', s, i) =>
                       \E j \in Positions(queue) : CloseAt(queue, s, j) /\ queue[j] = queue'[i]
  <2>1. Shifted(queue, s)
    BY <1>0, <1>3, TailPositions
  <2>2. ~EventAt(queue, s, 1)
    BY <1>0, <1>3, TailOfQueue DEF EventAt
  <2>3. /\ Silent(queue, s) => Silent(queue', s)
        /\ Ordered(queue, s) => Ordered(queue', s)
    BY <1>0, <1>3, TailOrdered
  <2>4. \A w, n : Pending(queue, w, s, n) => Pending(queue', w, s, n)
    BY <1>0, <1>3, <2>2, TailPending
  <2> QED  BY <1>3, <2>1, <2>3, <2>4 DEF Shifted
<1> QED  BY <1>1, <1>2, <1>3 DEF Untouched

(* Such an action keeps what the invariant says of the session.              *)
LEMMA UntouchedSession ==
    ASSUME TypeOK, NEW s \in Sessions, SessionInv(s), Untouched(s)
    PROVE  SessionInv(s)'
<1>1. /\ Silent(queue, s) => Silent(queue', s)
      /\ Ordered(queue, s) => Ordered(queue', s)
      /\ \A w, n : Pending(queue, w, s, n) => Pending(queue', w, s, n)
      /\ \A i \in Positions(queue') :
            OpenAt(queue', s, i) => \E j \in Positions(queue) : OpenAt(queue, s, j)
      /\ \A i \in Positions(queue') :
            CloseAt(queue', s, i) =>
                \E j \in Positions(queue) : CloseAt(queue, s, j) /\ queue[j] = queue'[i]
  BY UntouchedQueue
<1>2. LiveSession(s)' /\ ClosingSession(s)'
  BY <1>1 DEF SessionInv, Untouched, LiveSession, ClosingSession, Faithful, Holding
<1>3. Commands(s)'
  BY <1>1 DEF SessionInv, Untouched, Commands, Faithful
<1>4. NotOpened(s)' /\ OpenWriter(s)' /\ Sealed(s)'
  BY <1>1 DEF SessionInv, Untouched, NotOpened, OpenWriter, Sealed
<1> QED  BY <1>2, <1>3, <1>4 DEF SessionInv

(***************************************************************************)
(* The event loop.                                                         *)
(***************************************************************************)

(* What an action of the loop leaves alone.                                  *)
LoopStep ==
    /\ Running
    /\ mgr' \in {"running", "stopping"}
    /\ UNCHANGED <<threadVars, rec, diskVars>>

(* An action of the loop keeps what concerns the process and the thread.     *)
LEMMA LoopFrame ==
    ASSUME IdleProcess, RecoveryAtWork, ThreadAtWork, LoopStep
    PROVE  IdleProcess' /\ RecoveryAtWork' /\ ThreadAtWork'
BY DEF IdleProcess, RecoveryAtWork, ThreadAtWork, LoopStep, Running, threadVars, diskVars

(* The task of a session moves on, and is no longer live.                    *)
LEMMA SessionMoves ==
    ASSUME TypeOK, NEW a \in Sessions, SessionInv(a), LoopStep, queue' = queue,
           cnt'[a] = cnt[a], pump'[a] = pump[a], cap'[a].st \notin {"new", "live"},
           cap'[a].st \in {"closing", "detached"} => Faithful(a, cap'[a].sum)
    PROVE  SessionInv(a)'
<1>1. LiveSession(a)'
  BY DEF LiveSession
<1>2. ClosingSession(a)'
  BY DEF ClosingSession, Faithful, LoopStep, threadVars
<1>3. Commands(a)'
  BY DEF SessionInv, Commands, Faithful, LoopStep, threadVars
<1>4. NotOpened(a)'
  BY DEF SessionInv, NotOpened, LoopStep, threadVars, diskVars
<1>5. OpenWriter(a)' /\ Sealed(a)'
  BY DEF SessionInv, OpenWriter, Sealed, LoopStep, threadVars, diskVars
<1> QED  BY <1>1, <1>2, <1>3, <1>4, <1>5 DEF SessionInv

(* The three ways a session ends without its close command being queued keep *)
(* the invariant: no finalizer, a put that times out, a resolved future.     *)
LEMMA StepLoseFinalizer ==
    ASSUME IInv, NEW a \in Sessions,
           LoseFinalizer(a) \/ PutCloseTimeout(a) \/ FinalizerReturns(a)
    PROVE  IInv'
<1>1. TypeOK'
  BY TypeLoseFinalizer, TypePutCloseTimeout, TypeFinalizerReturns DEF IInv
<1>2. LoopStep
  BY DEF LoseFinalizer, PutCloseTimeout, FinalizerReturns, LoopStep, Running
<1>3. ASSUME NEW s \in Sessions, s # a
      PROVE  Untouched(s)
  BY <1>3 DEF IInv, TypeOK, Untouched, LoseFinalizer, PutCloseTimeout, FinalizerReturns,
              threadVars, diskVars
<1>4. cap'[a].st \in {"lost", "ended"} /\ queue' = queue /\ cnt' = cnt /\ pump' = pump
  BY DEF IInv, TypeOK, LoseFinalizer, PutCloseTimeout, FinalizerReturns, SessionAt
<1>5. SessionInv(a)'
  BY <1>2, <1>4, SessionMoves DEF IInv
<1> QED  BY <1>1, <1>2, <1>3, <1>5, LoopFrame, UntouchedSession DEF IInv

(* RelayService.stop cancelling a finalizer keeps the invariant: the         *)
(* detached put still carries a faithful summary.                            *)
LEMMA StepCancelFinalizer ==
    ASSUME IInv, NEW a \in Sessions, CancelFinalizer(a)
    PROVE  IInv'
<1>1. TypeOK'
  BY TypeCancelFinalizer DEF IInv
<1>2. LoopStep
  BY DEF CancelFinalizer, LoopStep, Running
<1>3. cap \in [Sessions -> SessionState]
  BY DEF IInv, TypeOK
<1>4. \/ /\ cap[a].st = "closing"
         /\ cap' = [cap EXCEPT ![a] = [cap[a] EXCEPT !.st = "detached"]]
      \/ cap' = [cap EXCEPT ![a] = SessionAt("lost")]
  BY DEF CancelFinalizer
<1>5. ASSUME NEW s \in Sessions, s # a
      PROVE  Untouched(s)
  <2>1. cap'[s] = cap[s]
    BY <1>3, <1>4, <1>5
  <2> QED  BY <2>1 DEF Untouched, CancelFinalizer, threadVars, diskVars
<1>6. \/ cap[a].st = "closing" /\ cap'[a].st = "detached" /\ cap'[a].sum = cap[a].sum
      \/ cap'[a].st = "lost"
  BY <1>3, <1>4 DEF SessionState, SessionAt
<1>7. cap'[a].st = "detached" => Faithful(a, cap'[a].sum)
  BY <1>6 DEF IInv, SessionInv, ClosingSession
<1>8. SessionInv(a)'
  <2>1. queue' = queue /\ cnt' = cnt /\ pump' = pump
    BY DEF CancelFinalizer
  <2> QED  BY <1>2, <1>6, <1>7, <2>1, SessionMoves DEF IInv
<1> QED  BY <1>1, <1>2, <1>5, <1>8, LoopFrame, UntouchedSession DEF IInv

(* CaptureSession.finalize keeps the invariant: at two EOFs without a        *)
(* failure every numbered read has been recorded, so the summary is          *)
(* faithful.                                                                 *)
LEMMA StepFinalize ==
    ASSUME IInv, NEW a \in Sessions, NEW tc \in BOOLEAN, Finalize(a, tc)
    PROVE  IInv'
<1> DEFINE sum == [transport |-> tc, bytes |-> cnt[a].bytes, chunks |-> cnt[a].chunks,
                   failed |-> cap[a].failed, dropped |-> cap[a].dropped]
<1>1. TypeOK'
  BY TypeFinalize DEF IInv
<1>2. LoopStep
  BY DEF Finalize, LoopStep, Running
<1>3. ASSUME NEW s \in Sessions, s # a
      PROVE  Untouched(s)
  BY <1>3 DEF IInv, TypeOK, Untouched, Finalize, threadVars, diskVars
<1>4. cap'[a].st = "closing" /\ cap'[a].sum = sum
  <2>1. cap[a] \in SessionState /\ cap \in [Sessions -> SessionState]
    BY DEF IInv, TypeOK
  <2>2. cap' = [cap EXCEPT ![a] = [cap[a] EXCEPT !.st = "closing", !.sum = sum]]
    BY DEF Finalize
  <2> HIDE DEF sum
  <2> QED  BY <2>1, <2>2 DEF SessionState
<1>5. Faithful(a, sum)
  <2> SUFFICES ASSUME tc, ~cap[a].failed
               PROVE  /\ \A d \in Direction : pump[a][d] = "eof"
                      /\ sum.bytes = cnt[a].bytes
                      /\ Pending(queue, writer[a], a, cnt[a].events)
    BY DEF Faithful
  <2>1. cap[a].st = "live" /\ \A d \in Direction : pump[a][d] = "eof"
    BY DEF Finalize
  <2>2. LiveSession(a) /\ cap[a].sequence \in Nat
    BY DEF IInv, SessionInv, TypeOK, SessionState
  <2>3. cap[a].accepting
    BY <2>1, <2>2 DEF LiveSession
  <2>4. Holding(a, "client") = 0 /\ Holding(a, "device") = 0
    BY <2>1 DEF Holding, Direction
  <2>5. cnt[a].events = cap[a].sequence
    BY <2>1, <2>2, <2>3, <2>4 DEF LiveSession
  <2> QED  BY <2>1, <2>2, <2>3, <2>5 DEF LiveSession
<1>6. SessionInv(a)'
  <2>1. queue' = queue /\ cnt' = cnt /\ pump' = pump
    BY DEF Finalize
  <2> HIDE DEF sum
  <2> QED  BY <1>2, <1>4, <1>5, <2>1, SessionMoves DEF IInv
<1> QED  BY <1>1, <1>2, <1>3, <1>6, LoopFrame, UntouchedSession DEF IInv

(* _notify_failure keeps the invariant: it only withdraws what a live        *)
(* session promises.                                                         *)
LEMMA StepNotifyFailure ==
    ASSUME IInv, NEW a \in Sessions, NotifyFailure(a)
    PROVE  IInv'
<1>1. TypeOK'
  BY TypeNotifyFailure DEF IInv
<1>2. LoopStep
  BY DEF NotifyFailure, LoopStep, Running
<1>3. cap \in [Sessions -> SessionState]
  BY DEF IInv, TypeOK
<1>4. \/ cap' = cap
      \/ cap' = [cap EXCEPT ![a] = [cap[a] EXCEPT !.failed = TRUE, !.accepting = FALSE]]
  BY DEF NotifyFailure
<1>5. CASE cap' = cap
  <2>1. ASSUME NEW s \in Sessions PROVE Untouched(s)
    BY <1>5 DEF Untouched, NotifyFailure, threadVars, diskVars
  <2> QED  BY <1>1, <1>2, <2>1, LoopFrame, UntouchedSession DEF IInv
<1>6. CASE cap' = [cap EXCEPT ![a] = [cap[a] EXCEPT !.failed = TRUE, !.accepting = FALSE]]
  <2>1. ASSUME NEW s \in Sessions, s # a
        PROVE  Untouched(s)
    <3>1. cap'[s] = cap[s]
      BY <1>3, <1>6, <2>1
    <3> QED  BY <3>1 DEF Untouched, NotifyFailure, threadVars, diskVars
  <2>2. /\ cap'[a].st = cap[a].st
        /\ cap'[a].sum = cap[a].sum
        /\ cap'[a].sequence = cap[a].sequence
        /\ ~cap'[a].accepting
        /\ cap'[a].failed
    BY <1>3, <1>6 DEF SessionState
  <2>3. /\ SessionInv(a)
        /\ queue' = queue /\ cnt' = cnt /\ pump' = pump /\ held' = held
    BY DEF IInv, NotifyFailure
  <2>4. LiveSession(a)' /\ ClosingSession(a)'
    BY <1>2, <2>2, <2>3 DEF SessionInv, LiveSession, ClosingSession, Faithful, LoopStep, threadVars
  <2>5. Commands(a)'
    BY <1>2, <2>2, <2>3 DEF SessionInv, Commands, Faithful, LoopStep, threadVars
  <2>6. NotOpened(a)' /\ OpenWriter(a)' /\ Sealed(a)'
    BY <1>2, <2>2, <2>3 DEF SessionInv, NotOpened, OpenWriter, Sealed, LoopStep,
                            threadVars, diskVars
  <2>7. SessionInv(a)'
    BY <2>4, <2>5, <2>6 DEF SessionInv
  <2> QED  BY <1>1, <1>2, <2>1, <2>7, LoopFrame, UntouchedSession DEF IInv
<1> QED  BY <1>4, <1>5, <1>6

(* While a session is live it has no manifest and no close command.          *)
LEMMA LiveHasNoManifest ==
    ASSUME NEW a \in Sessions, SessionInv(a), cap[a].st = "live"
    PROVE  /\ manifest[a] = NoManifest
           /\ manifest[a].status # "COMPLETE"
           /\ ready[a] = NoManifest
           /\ \A i \in Positions(queue) : ~CloseAt(queue, a, i)
BY DEF SessionInv, Sealed, Commands, NoManifest

(* The pumps of a live session move, and no command is put.                  *)
LEMMA PumpsMove ==
    ASSUME TypeOK, NEW a \in Sessions, SessionInv(a), LoopStep, queue' = queue,
           cap'[a] = cap[a], cap[a].st = "live", LiveSession(a)'
    PROVE  SessionInv(a)'
<1>1. /\ manifest[a] = NoManifest
      /\ manifest[a].status # "COMPLETE"
      /\ ready[a] = NoManifest
      /\ \A i \in Positions(queue) : ~CloseAt(queue, a, i)
  BY LiveHasNoManifest
<1>2. ClosingSession(a)'
  BY DEF ClosingSession
<1>3. Commands(a)'
  BY <1>1 DEF SessionInv, Commands
<1>4. NotOpened(a)' /\ OpenWriter(a)'
  BY DEF SessionInv, NotOpened, OpenWriter, LoopStep, threadVars, diskVars
<1>5. Sealed(a)'
  BY <1>1 DEF Sealed, LoopStep, diskVars
<1> QED  BY <1>2, <1>3, <1>4, <1>5 DEF SessionInv

(* A pump reading and numbering a chunk keeps the invariant.                 *)
LEMMA StepObserve ==
    ASSUME IInv, NEW a \in Sessions, NEW d \in Direction, NEW k \in {"data", "eof"},
           NEW n \in Nat, Observe(a, d, k, n)
    PROVE  IInv'
<1>1. TypeOK'
  BY TypeObserve DEF IInv
<1>2. LoopStep
  BY DEF Observe, LoopStep, Running
<1>3. ASSUME NEW s \in Sessions, s # a
      PROVE  Untouched(s)
  BY <1>3 DEF IInv, TypeOK, Untouched, Observe, threadVars, diskVars
<1>4. /\ queue' = queue
      /\ cap' = cap
      /\ cap[a].st = "live"
      /\ pump[a][d] = "read"
      /\ pump' = [pump EXCEPT ![a][d] = "held"]
  BY DEF Observe
<1>5. /\ pump'[a][d] = "held"
      /\ \A e \in Direction \ {d} : pump'[a][e] = pump[a][e] /\ held'[a][e] = held[a][e]
      /\ cnt'[a].events = cnt[a].events + 1
      /\ held'[a][d] \in CaptureEvent
  <2>1. pump \in [Sessions -> [Direction -> {"read", "held", "eof", "dead"}]]
        /\ held \in [Sessions -> [Direction -> CaptureEvent \cup {NoEvent}]]
        /\ cnt \in [Sessions -> Counters]
    BY DEF IInv, TypeOK
  <2>2. [sequence |-> 0, observed |-> cnt[a].events, dirseq |-> cnt[a].dirseq[d],
         offset |-> cnt[a].bytes[d], direction |-> d, kind |-> k, length |-> n] \in CaptureEvent
    BY <2>1 DEF CaptureEvent, Counters
  <2> QED  BY <2>1, <2>2 DEF Observe, Counters
<1>6. LiveSession(a)'
  <2>1. /\ LiveSession(a)
        /\ cap[a].sequence \in Nat
        /\ cnt[a].events \in Nat
    BY DEF IInv, SessionInv, TypeOK, SessionState, Counters
  <2>2. \A e \in Direction : pump'[a][e] = "held" => held'[a][e] \in CaptureEvent
    BY <1>4, <1>5, <2>1 DEF LiveSession
  <2>3. cap[a].accepting => Pending(queue, writer[a], a, cap[a].sequence)
    BY <1>4, <2>1 DEF LiveSession
  <2>4. ASSUME cap[a].accepting, \A e \in Direction : pump'[a][e] # "dead"
        PROVE  cnt'[a].events =
                 cap[a].sequence + Holding(a, "client")' + Holding(a, "device")'
    <3>1. \A e \in Direction : pump[a][e] # "dead"
      BY <1>4, <1>5, <2>4
    <3>2. cnt[a].events = cap[a].sequence + Holding(a, "client") + Holding(a, "device")
      BY <1>4, <2>1, <2>4, <3>1 DEF LiveSession
    <3> QED  BY <1>4, <1>5, <2>1, <3>2 DEF Holding, Direction
  <2>5. writer' = writer /\ (~cap[a].failed => cap[a].accepting)
    BY <1>2, <1>4, <2>1 DEF LoopStep, threadVars, LiveSession
  <2> QED  BY <1>4, <2>2, <2>3, <2>4, <2>5 DEF LiveSession
<1>7. SessionInv(a)'
  BY <1>2, <1>4, <1>6, PumpsMove DEF IInv
<1> QED  BY <1>1, <1>2, <1>3, <1>7, LoopFrame, UntouchedSession DEF IInv

(* Ending the pumps keeps the invariant: the reads they held are lost, and   *)
(* no EOF is claimed for them.                                               *)
LEMMA StepEndPumps ==
    ASSUME IInv, NEW a \in Sessions, EndPumps(a)
    PROVE  IInv'
<1>1. TypeOK'
  BY TypeEndPumps DEF IInv
<1>2. LoopStep
  BY DEF EndPumps, LoopStep, Running
<1>3. ASSUME NEW s \in Sessions, s # a
      PROVE  Untouched(s)
  BY <1>3 DEF IInv, TypeOK, Untouched, EndPumps, threadVars, diskVars
<1>4. /\ queue' = queue
      /\ cap' = cap
      /\ cap[a].st = "live"
  BY DEF EndPumps
<1>5. /\ \A e \in Direction : pump'[a][e] \in {"eof", "dead"}
      /\ \E e \in Direction : pump'[a][e] = "dead"
  BY DEF IInv, TypeOK, EndPumps
<1>6. LiveSession(a)'
  <2>1. LiveSession(a) /\ writer' = writer
    BY <1>2 DEF IInv, SessionInv, LoopStep, threadVars
  <2> QED  BY <1>4, <1>5, <2>1 DEF LiveSession
<1>7. SessionInv(a)'
  BY <1>2, <1>4, <1>6, PumpsMove DEF IInv
<1> QED  BY <1>1, <1>2, <1>3, <1>7, LoopFrame, UntouchedSession DEF IInv

(* CaptureSession.record keeps the invariant: the event joins the queue      *)
(* under the next sequence number, or the session stops accepting.           *)
LEMMA StepRecord ==
    ASSUME IInv, NEW a \in Sessions, NEW d \in Direction, Record(a, d)
    PROVE  IInv'
<1>0. /\ cap[a].st = "live"
      /\ pump[a][d] = "held"
      /\ LiveSession(a)
      /\ SessionInv(a)
      /\ cap[a] \in SessionState
      /\ writer[a] \in Writer
      /\ queue \in Seq(Command)
      /\ cnt'[a] = cnt[a]
  BY DEF IInv, SessionInv, TypeOK, Record
<1>1. held[a][d] \in CaptureEvent
  BY <1>0 DEF LiveSession
<1>2. TypeOK'
  BY <1>1, TypeRecord DEF IInv
<1>3. LoopStep
  BY DEF Record, LoopStep, Running
<1> DEFINE ev == [held[a][d] EXCEPT !.sequence = cap[a].sequence]
           c == [op |-> "event", s |-> a, ev |-> ev]
<1>4. c \in Command /\ c.op = "event" /\ c.s = a /\ c.ev.sequence = cap[a].sequence
  BY <1>0, <1>1 DEF Command, CaptureEvent, SessionState
<1>5. \/ /\ cap[a].accepting
         /\ queue' = Append(queue, c)
         /\ cap' = [cap EXCEPT ![a] = [cap[a] EXCEPT !.sequence = @ + 1]]
      \/ /\ queue' = queue
         /\ cap' = [cap EXCEPT ![a] = Refused(cap[a], held[a][d])]
  BY DEF Record, Accepted
<1> HIDE DEF c
<1>6. ASSUME NEW s \in Sessions, s # a
      PROVE  Untouched(s)
  <2>1. queue' = queue \/ (queue' = Append(queue, c) /\ c \in Command /\ c.s # s)
    BY <1>4, <1>5, <1>6
  <2>2. cap'[s] = cap[s]
    BY <1>5, <1>6 DEF IInv, TypeOK
  <2>3. pump'[s] = pump[s] /\ held'[s] = held[s]
    BY <1>6 DEF IInv, TypeOK, Record
  <2> QED  BY <2>1, <2>2, <2>3 DEF Untouched, Record, threadVars, diskVars
<1>7. /\ pump'[a][d] \in {"eof", "read"}
      /\ \A e \in Direction \ {d} : pump'[a][e] = pump[a][e] /\ held'[a][e] = held[a][e]
  BY DEF IInv, TypeOK, Record
<1>8. /\ manifest[a] = NoManifest
      /\ manifest[a].status # "COMPLETE"
      /\ ready[a] = NoManifest
      /\ \A i \in Positions(queue) : ~CloseAt(queue, a, i)
  BY <1>0, LiveHasNoManifest
<1>9. writer' = writer /\ dir' = dir /\ raw' = raw /\ timeline' = timeline /\ tail' = tail
      /\ manifest' = manifest /\ ready' = ready
  BY <1>3 DEF LoopStep, threadVars, diskVars
<1>10. \A e \in Direction : pump'[a][e] = "held" => held'[a][e] \in CaptureEvent
  BY <1>0, <1>7 DEF LiveSession
<1>11. OpenWriter(a)' /\ Sealed(a)'
  BY <1>0, <1>8, <1>9 DEF SessionInv, OpenWriter, Sealed
<1>12. CASE /\ cap[a].accepting
            /\ queue' = Append(queue, c)
            /\ cap' = [cap EXCEPT ![a] = [cap[a] EXCEPT !.sequence = @ + 1]]
  <2>1. /\ cap'[a].st = "live"
        /\ cap'[a].accepting
        /\ cap'[a].sequence = cap[a].sequence + 1
        /\ cap[a].sequence \in Nat
    BY <1>0, <1>12 DEF IInv, TypeOK, SessionState
  <2>2. Pending(queue', writer'[a], a, cap'[a].sequence)
    <3>1. Pending(queue, writer[a], a, cap[a].sequence)
      BY <1>0, <1>12 DEF LiveSession
    <3> QED  BY <1>0, <1>4, <1>9, <1>12, <2>1, <3>1, AppendEvent
  <2>3. ASSUME \A e \in Direction : pump'[a][e] # "dead"
        PROVE  cnt'[a].events =
                 cap'[a].sequence + Holding(a, "client")' + Holding(a, "device")'
    <3>1. \A e \in Direction : pump[a][e] # "dead"
      BY <1>0, <1>7, <2>3
    <3>2. cnt[a].events = cap[a].sequence + Holding(a, "client") + Holding(a, "device")
      BY <1>0, <1>12, <3>1 DEF LiveSession
    <3> QED  BY <1>0, <1>7, <2>1, <3>2 DEF Holding, Direction
  <2>4. LiveSession(a)' /\ ClosingSession(a)'
    BY <1>10, <2>1, <2>2, <2>3 DEF LiveSession, ClosingSession
  <2>5. Extended(queue, queue', c, a)
    BY <1>0, <1>4, <1>12, AppendPositions
  <2>6. ~OpenAt(queue', a, Len(queue) + 1) /\ ~CloseAt(queue', a, Len(queue) + 1)
    BY <1>4, <2>5 DEF Extended, OpenAt, CloseAt
  <2>7. Ordered(queue', a)
    BY <1>0, <1>4, <1>8, <1>12, AppendInOrder DEF SessionInv, Commands
  <2>8. \A i \in Positions(queue') : ~CloseAt(queue', a, i)
    BY <1>8, <2>5, <2>6 DEF Extended
  <2>9. Commands(a)'
    BY <2>1, <2>7, <2>8 DEF Commands
  <2>10. NotOpened(a)'
    BY <1>0, <1>9, <2>1, <2>5, <2>6 DEF SessionInv, NotOpened, Extended
  <2> QED
    <3>1. SessionInv(a)'
      BY <1>11, <2>4, <2>9, <2>10 DEF SessionInv
    <3> QED  BY <1>2, <1>3, <1>6, <3>1, LoopFrame, UntouchedSession DEF IInv
<1>13. CASE /\ queue' = queue
            /\ cap' = [cap EXCEPT ![a] = Refused(cap[a], held[a][d])]
  <2>1. /\ cap'[a].st = "live"
        /\ ~cap'[a].accepting
    BY <1>0, <1>13 DEF IInv, TypeOK, SessionState, Refused
  <2>2. cap'[a].failed
    <3>1. cap'[a].failed = (cap[a].failed \/ cap[a].accepting)
      BY <1>0, <1>13 DEF IInv, TypeOK, SessionState, Refused
    <3> QED  BY <1>0, <3>1 DEF LiveSession
  <2>3. LiveSession(a)' /\ ClosingSession(a)'
    BY <1>10, <2>1, <2>2 DEF LiveSession, ClosingSession
  <2>4. Commands(a)' /\ NotOpened(a)'
    BY <1>0, <1>8, <1>9, <1>13, <2>1 DEF SessionInv, Commands, NotOpened
  <2> QED
    <3>1. SessionInv(a)'
      BY <1>11, <2>3, <2>4 DEF SessionInv
    <3> QED  BY <1>2, <1>3, <1>6, <3>1, LoopFrame, UntouchedSession DEF IInv
<1> QED  BY <1>5, <1>12, <1>13

(* open_session_nowait keeps the invariant.                                  *)
LEMMA StepOpenSession ==
    ASSUME IInv, NEW a \in Sessions, OpenSession(a)
    PROVE  IInv'
<1> DEFINE c == [op |-> "open", s |-> a]
<1>0. /\ cap[a].st = "new"
      /\ SessionInv(a)
      /\ cap \in [Sessions -> SessionState]
      /\ queue \in Seq(Command)
      /\ cnt' = cnt /\ pump' = pump /\ held' = held
  BY DEF IInv, TypeOK, OpenSession
<1>1. TypeOK'
  BY TypeOpenSession DEF IInv
<1>2. LoopStep
  BY DEF OpenSession, LoopStep, Running
<1>3. c \in Command /\ c.op = "open" /\ c.s = a
  BY DEF Command
<1>4. \/ /\ queue' = Append(queue, c)
         /\ cap' = [cap EXCEPT ![a] = [cap[a] EXCEPT !.st = "live", !.accepting = TRUE]]
      \/ /\ queue' = queue
         /\ cap' = [cap EXCEPT ![a] = SessionAt("refused")]
  BY DEF OpenSession
<1> HIDE DEF c
<1>5. ASSUME NEW s \in Sessions, s # a
      PROVE  Untouched(s)
  <2>1. queue' = queue \/ (queue' = Append(queue, c) /\ c \in Command /\ c.s # s)
    BY <1>3, <1>4, <1>5
  <2>2. cap'[s] = cap[s]
    BY <1>0, <1>4, <1>5
  <2> QED  BY <2>1, <2>2 DEF Untouched, OpenSession, threadVars, diskVars
<1>6. CASE /\ queue' = Append(queue, c)
           /\ cap' = [cap EXCEPT ![a] = [cap[a] EXCEPT !.st = "live", !.accepting = TRUE]]
  <2>1. /\ Silent(queue, a)
        /\ cap[a].sequence = 0
        /\ cnt[a].events = 0
        /\ \A d \in Direction : pump[a][d] = "read"
        /\ dir[a] = "absent"
        /\ ~writer[a].open
        /\ manifest[a] = NoManifest
        /\ ready[a] = NoManifest
    BY <1>0 DEF SessionInv, Commands, NotOpened, Sealed
  <2>2. /\ cap'[a].st = "live"
        /\ cap'[a].accepting
        /\ cap'[a].sequence = 0
    BY <1>0, <1>6, <2>1 DEF SessionState
  <2>3. Extended(queue, queue', c, a)
    BY <1>0, <1>3, <1>6, AppendPositions
  <2>4. /\ ~EventAt(queue', a, Len(queue) + 1)
        /\ ~CloseAt(queue', a, Len(queue) + 1)
    BY <1>3, <2>3 DEF Extended, EventAt, CloseAt
  <2>5. \A i \in Positions(queue') : ~EventAt(queue', a, i) /\ ~CloseAt(queue', a, i)
    BY <2>1, <2>3, <2>4 DEF Extended, Silent
  <2>6. UNCHANGED <<writer, dir, raw, timeline, tail, manifest, ready>>
    BY <1>2 DEF LoopStep, threadVars, diskVars
  <2>7. Pending(queue', writer'[a], a, cap'[a].sequence)
    BY <2>1, <2>2, <2>5, <2>6 DEF Pending
  <2>8. Holding(a, "client")' = 0 /\ Holding(a, "device")' = 0
    BY <1>0, <2>1 DEF Holding, Direction
  <2>9. LiveSession(a)' /\ ClosingSession(a)'
    BY <1>0, <2>1, <2>2, <2>7, <2>8 DEF LiveSession, ClosingSession
  <2>10. Ordered(queue', a)
    BY <1>0, <1>3, <1>6, <2>1, AppendInOrder DEF SessionInv, Commands
  <2>11. Commands(a)'
    BY <2>2, <2>5, <2>10 DEF Commands
  <2>12. NotOpened(a)' /\ OpenWriter(a)'
    BY <1>0, <2>1, <2>2, <2>6 DEF SessionInv, NotOpened, OpenWriter
  <2>13. Sealed(a)'
    BY <2>1, <2>6 DEF Sealed, NoManifest
  <2> QED
    <3>1. SessionInv(a)'
      BY <2>9, <2>11, <2>12, <2>13 DEF SessionInv
    <3> QED  BY <1>1, <1>2, <1>5, <3>1, LoopFrame, UntouchedSession DEF IInv
<1>7. CASE /\ queue' = queue
           /\ cap' = [cap EXCEPT ![a] = SessionAt("refused")]
  <2>1. cap'[a].st = "refused"
    BY <1>0, <1>7 DEF SessionAt
  <2>2. SessionInv(a)'
    BY <1>0, <1>2, <1>7, <2>1, SessionMoves DEF IInv
  <2> QED  BY <1>1, <1>2, <1>5, <2>2, LoopFrame, UntouchedSession DEF IInv
<1> QED  BY <1>4, <1>6, <1>7

(* Queueing the close command keeps the invariant: it is behind all events   *)
(* of its session.                                                           *)
LEMMA StepPutClose ==
    ASSUME IInv, NEW a \in Sessions, PutClose(a)
    PROVE  IInv'
<1> DEFINE c == [op |-> "close", s |-> a, sum |-> cap[a].sum]
<1>0. /\ SessionInv(a)
      /\ cap[a].st \in {"closing", "detached"}
      /\ cap \in [Sessions -> SessionState]
      /\ queue \in Seq(Command)
      /\ cnt' = cnt /\ pump' = pump /\ held' = held
      /\ queue' = Append(queue, c)
  BY DEF IInv, TypeOK, PutClose
<1>1. TypeOK'
  BY TypePutClose DEF IInv
<1>2. LoopStep
  BY DEF PutClose, LoopStep, Running
<1>3. c \in Command /\ c.op = "close" /\ c.s = a /\ c.sum = cap[a].sum
  BY <1>0 DEF Command, SessionState
<1>4. cap'[a].st \in {"waiting", "lost"}
  BY <1>0 DEF PutClose, SessionAt
<1> HIDE DEF c
<1>5. ASSUME NEW s \in Sessions, s # a
      PROVE  Untouched(s)
  <2>1. queue' = Append(queue, c) /\ c \in Command /\ c.s # s
    BY <1>0, <1>3, <1>5
  <2>2. cap'[s] = cap[s]
    BY <1>0, <1>5 DEF PutClose
  <2> QED  BY <2>1, <2>2 DEF Untouched, PutClose, threadVars, diskVars
<1>6. Extended(queue, queue', c, a)
  BY <1>0, <1>3, AppendPositions
<1>7. ~OpenAt(queue', a, Len(queue) + 1)
  BY <1>3, <1>6 DEF Extended, OpenAt
<1>8. UNCHANGED <<writer, dir, raw, timeline, tail, manifest, ready>>
  BY <1>2 DEF LoopStep, threadVars, diskVars
<1>9. \A w, n : Pending(queue, w, a, n) => Pending(queue', w, a, n)
  BY <1>0, <1>3, AppendPending
<1>10. Faithful(a, cap[a].sum)
  BY <1>0 DEF SessionInv, ClosingSession
<1>12. Commands(a)'
  <2>1. Ordered(queue', a)
    BY <1>0, <1>3, AppendInOrder DEF SessionInv, Commands
  <2>2. ASSUME NEW i \in Positions(queue'), CloseAt(queue', a, i)
        PROVE  Faithful(a, queue[i].sum)'
    <3>1. CASE i \in Positions(queue)
      <4>1. CloseAt(queue, a, i) /\ queue'[i] = queue[i]
        BY <2>2, <3>1, <1>6 DEF Extended
      <4>2. Faithful(a, queue[i].sum)
        BY <1>0, <3>1, <4>1 DEF SessionInv, Commands
      <4> QED  BY <1>0, <1>8, <1>9, <4>1, <4>2 DEF Faithful
    <3>2. CASE i = Len(queue) + 1
      <4>1. queue'[i].sum = cap[a].sum
        BY <1>3, <1>6, <3>2 DEF Extended
      <4> QED  BY <1>0, <1>8, <1>9, <1>10, <4>1 DEF Faithful
    <3> QED  BY <3>1, <3>2, <1>6 DEF Extended
  <2> QED  BY <1>4, <2>1, <2>2 DEF Commands
<1>13. LiveSession(a)' /\ ClosingSession(a)'
  BY <1>4 DEF LiveSession, ClosingSession
<1>14. NotOpened(a)'
  BY <1>0, <1>4, <1>6, <1>7, <1>8 DEF SessionInv, NotOpened, Extended
<1>15. OpenWriter(a)' /\ Sealed(a)'
  BY <1>0, <1>4, <1>8 DEF SessionInv, OpenWriter, Sealed
<1>16. SessionInv(a)'
  BY <1>12, <1>13, <1>14, <1>15 DEF SessionInv
<1> QED  BY <1>1, <1>2, <1>5, <1>16, LoopFrame, UntouchedSession DEF IInv

(* Queueing the stop command keeps the invariant.                            *)
LEMMA StepStopManager ==
    ASSUME IInv, StopManager
    PROVE  IInv'
<1>1. TypeOK'
  BY TypeLifeCycle DEF IInv
<1>2. LoopStep
  BY DEF StopManager, LoopStep, Running
<1>3. [op |-> "stop"] \in Command
  BY DEF Command
<1>4. ASSUME NEW s \in Sessions
      PROVE  Untouched(s)
  BY <1>3 DEF Untouched, StopManager, threadVars, diskVars
<1> QED  BY <1>1, <1>2, <1>4, LoopFrame, UntouchedSession DEF IInv

(***************************************************************************)
(* The writer thread.                                                      *)
(***************************************************************************)

(* What an action of the writer thread leaves alone.                         *)
ThreadStep ==
    /\ UNCHANGED <<mgr, cap, cnt, pump, held, rec>>
    /\ work.pc # "off"
    /\ \A s \in Sessions : dir[s] # "absent" => dir'[s] # "absent"

(* The thread runs in a running process, when recovery is over.              *)
LEMMA ThreadFrame ==
    ASSUME IdleProcess, RecoveryAtWork, ThreadStep, TypeOK
    PROVE  IdleProcess' /\ RecoveryAtWork' /\ rec.pc = "off"
<1>1. Running /\ rec.pc = "off" /\ rec.todo \subseteq Sessions
  BY DEF IdleProcess, RecoveryAtWork, ThreadStep, TypeOK, Running
<1> QED  BY <1>1 DEF IdleProcess, RecoveryAtWork, ThreadStep, Running

(* The thread took a command: what it means for a session whose writer still *)
(* waits for the right events.                                               *)
LEMMA HeadTaken ==
    ASSUME TypeOK, NEW a \in Sessions, SessionInv(a), ThreadStep,
           queue # <<>>, queue' = Tail(queue),
           \A n \in Nat : Pending(queue, writer[a], a, n) => Pending(queue', writer'[a], a, n)
    PROVE  LiveSession(a)' /\ ClosingSession(a)' /\ Commands(a)'
<1>1. /\ queue \in Seq(Command)
      /\ cap[a].sequence \in Nat
      /\ cnt[a].events \in Nat
  BY DEF TypeOK, SessionState, Counters
<1>2. UNCHANGED <<cap, cnt, pump, held>>
  BY DEF ThreadStep
<1>3. LiveSession(a)'
  BY <1>1, <1>2 DEF SessionInv, LiveSession, Holding
<1>4. ClosingSession(a)'
  BY <1>1, <1>2 DEF SessionInv, ClosingSession, Faithful
<1>5. /\ Silent(queue, a) => Silent(queue', a)
      /\ Ordered(queue, a) => Ordered(queue', a)
      /\ Shifted(queue, a)
  BY <1>1, TailOrdered, TailPositions
<1>6. ASSUME NEW i \in Positions(queue'), CloseAt(queue', a, i)
      PROVE  cap[a].st \notin {"new", "live"} /\ Faithful(a, queue[i].sum)'
  <2>1. i + 1 \in Positions(queue) /\ CloseAt(queue, a, i + 1) /\ queue'[i] = queue[i + 1]
    BY <1>5, <1>6 DEF Shifted
  <2>2. cap[a].st \notin {"new", "live"} /\ Faithful(a, queue[i + 1].sum)
    BY <2>1 DEF SessionInv, Commands
  <2> QED  BY <1>1, <1>2, <2>1, <2>2 DEF Faithful
<1>7. Commands(a)'
  BY <1>2, <1>5, <1>6 DEF SessionInv, Commands
<1> QED  BY <1>3, <1>4, <1>7

(* The thread opening the files of a session, or failing to, keeps the       *)
(* invariant.                                                                *)
LEMMA StepWorkerOpen ==
    ASSUME IInv, WorkerOpen
    PROVE  IInv'
<1>0. HeadIs("open") /\ TypeOK
  BY DEF WorkerOpen, IInv
<1> PICK a \in Sessions : a = Head(queue).s
  BY <1>0, HeadTypes, CommandFields
<1>1. /\ a = Head(queue).s
      /\ OpenAt(queue, a, 1)
      /\ queue \in Seq(Command) /\ queue # <<>>
      /\ queue' = Tail(queue)
  BY <1>0, HeadTypes DEF WorkerOpen, OpenAt, HeadIs, TypeOK
<1>2. /\ \/ /\ writer' = [writer EXCEPT ![a] = NewWriter]
            /\ dir' = [dir EXCEPT ![a] = "partial"]
         \/ /\ writer' = writer
            /\ dir' = dir \/ dir' = [dir EXCEPT ![a] = "partial"]
      /\ UNCHANGED <<mgr, cap, cnt, pump, held, work, rec, raw, timeline, tail, manifest, ready>>
  BY DEF WorkerOpen
<1>3. TypeOK'
  BY TypeWorkerOpen DEF IInv
<1>4. /\ dir \in [Sessions -> {"absent", "partial", "final"}]
      /\ writer \in [Sessions -> Writer]
  BY <1>0 DEF TypeOK
<1>5. ThreadStep
  BY <1>0, <1>1, <1>2, <1>4 DEF ThreadStep, HeadIs
<1>6. ASSUME NEW s \in Sessions, s # a
      PROVE  Untouched(s)
  <2>1. queue # <<>> /\ Head(queue).s # s /\ queue' = Tail(queue)
    BY <1>1, <1>6
  <2>2. writer'[s] = writer[s] /\ dir'[s] = dir[s]
    BY <1>1, <1>2, <1>4, <1>6
  <2> QED  BY <1>2, <2>1, <2>2 DEF Untouched
<1>7. Shifted(queue, a) /\ SessionInv(a)
  BY <1>1, TailPositions DEF IInv
<1>8. /\ dir[a] = "absent"
      /\ ~writer[a].open
      /\ raw[a] = Zero
      /\ timeline[a] = <<>>
      /\ tail[a] = "clean"
      /\ manifest[a] = NoManifest
      /\ ready[a] = NoManifest
      /\ cap[a].st # "new"
  BY <1>1, <1>7 DEF SessionInv, NotOpened, Sealed, Commands, Silent, Shifted
<1>9. ASSUME NEW i \in Positions(queue'), OpenAt(queue', a, i)
      PROVE  FALSE
  <2>1. i \in Nat /\ i + 1 \in Positions(queue) /\ OpenAt(queue, a, i + 1) /\ 1 \in Positions(queue)
    BY <1>1, <1>7, <1>9 DEF Shifted
  <2>2. i + 1 = 1 /\ i # 0
    BY <1>1, <1>7, <1>9, <2>1 DEF SessionInv, Commands, Ordered, Positions
  <2> QED  BY <2>1, <2>2
<1>10. writer'[a] = NewWriter \/ writer'[a] = writer[a]
  BY <1>1, <1>2, <1>4
<1>11. ASSUME NEW n \in Nat, Pending(queue, writer[a], a, n)
       PROVE  Pending(queue', writer'[a], a, n)
  <2>1. CASE writer'[a] = NewWriter
    BY <1>1, <1>11, <2>1, TailOpened
  <2>2. CASE writer'[a] = writer[a]
    <3>1. ~EventAt(queue, a, 1)
      BY <1>1 DEF OpenAt, EventAt
    <3> QED  BY <1>1, <1>11, <2>2, <3>1, TailPending
  <2> QED  BY <1>10, <2>1, <2>2
<1>12. LiveSession(a)' /\ ClosingSession(a)' /\ Commands(a)'
  BY <1>0, <1>1, <1>5, <1>7, <1>11, HeadTaken
<1>13. NotOpened(a)'
  <2>1. dir'[a] = "absent" => ~writer'[a].open
    BY <1>1, <1>2, <1>4, <1>8
  <2> QED  BY <1>2, <1>8, <1>9, <2>1 DEF NotOpened
<1>14. OpenWriter(a)'
  BY <1>2, <1>8, <1>10 DEF OpenWriter, NewWriter, NoWriter
<1>15. Sealed(a)'
  BY <1>2, <1>8 DEF Sealed, NoManifest
<1>16. SessionInv(a)'
  BY <1>12, <1>13, <1>14, <1>15 DEF SessionInv
<1>17. IdleProcess' /\ RecoveryAtWork' /\ ThreadAtWork'
  BY <1>0, <1>5, <1>2, ThreadFrame DEF IInv, ThreadAtWork, HeadIs
<1> QED  BY <1>0, <1>3, <1>6, <1>16, <1>17, UntouchedSession DEF IInv

(* What one append does to the writer and the files of its session.          *)
LEMMA Appended ==
    ASSUME TypeOK, NEW a \in Sessions, NEW ev \in CaptureEvent, writer[a].open,
           OpenWriter(a), AppendDone(a, ev)
    PROVE  /\ ev.sequence = writer[a].next
           /\ writer'[a].open
           /\ writer'[a].errors = writer[a].errors
           /\ writer'[a].next = writer[a].next + 1
           /\ ~writer[a].errors => /\ raw'[a] = writer'[a].bytes
                                   /\ tail'[a] = "clean"
                                   /\ Len(timeline'[a]) = writer'[a].next
<1>1. /\ raw \in [Sessions -> [Direction -> Nat]]
      /\ timeline \in [Sessions -> Seq(CaptureEvent)]
      /\ writer \in [Sessions -> Writer]
  BY SMTT(30) DEF TypeOK
<1> DEFINE d == ev.direction
           n == ev.length
           w == writer[a]
           v == [w EXCEPT !.next = @ + 1, !.dirseq[d] = @ + 1, !.bytes[d] = @ + n,
                          !.chunks[d] = @ + Chunks(ev)]
<1>2. /\ ev.sequence = writer[a].next
      /\ raw' = [raw EXCEPT ![a] = [raw[a] EXCEPT ![d] = @ + n]]
      /\ timeline' = [timeline EXCEPT ![a] = Append(timeline[a], ev)]
      /\ writer' = [writer EXCEPT ![a] = v]
      /\ tail' = tail
  BY ZenonT(60) DEF AppendDone, InOrder
<1>3. /\ v.open = w.open
      /\ v.errors = w.errors
      /\ v.next = w.next + 1
      /\ v.bytes = [w.bytes EXCEPT ![d] = @ + n]
  <2>1. w \in Writer
    BY <1>1
  <2> HIDE DEF w, d, n
  <2> QED  BY <2>1 DEF Writer
<1>4. raw'[a] = [raw[a] EXCEPT ![d] = @ + n] /\ writer'[a] = v
  <2> HIDE DEF v, d, n
  <2> QED  BY <1>1, <1>2
<1>5. Len(timeline'[a]) = Len(timeline[a]) + 1
  BY <1>1, <1>2
<1>6. ~writer[a].errors => /\ raw[a] = writer[a].bytes
                           /\ tail[a] = "clean"
                           /\ Len(timeline[a]) = writer[a].next
  BY DEF OpenWriter
<1>7. /\ writer'[a].open
      /\ writer'[a].errors = writer[a].errors
      /\ writer'[a].next = writer[a].next + 1
      /\ writer'[a].bytes = [writer[a].bytes EXCEPT ![d] = @ + n]
  <2> HIDE DEF v, d, n
  <2> QED  BY <1>3, <1>4
<1>8. ASSUME ~writer[a].errors
      PROVE  /\ raw'[a] = writer'[a].bytes
             /\ tail'[a] = "clean"
             /\ Len(timeline'[a]) = writer'[a].next
  <2> HIDE DEF v, w, d, n
  <2>1. raw'[a] = writer'[a].bytes
    BY <1>4, <1>6, <1>7, <1>8
  <2>2. tail'[a] = "clean"
    BY <1>2, <1>6, <1>8
  <2>3. Len(timeline'[a]) = writer'[a].next
    BY <1>5, <1>6, <1>7, <1>8
  <2> QED  BY <2>1, <2>2, <2>3
<1> HIDE DEF v, w, d, n
<1> QED  BY <1>2, <1>7, <1>8

(* A failed append marks the writer.                                         *)
LEMMA AppendFailed ==
    ASSUME TypeOK, NEW a \in Sessions, NEW ev, AppendFails(a, ev)
    PROVE  writer'[a].errors /\ writer'[a].open = writer[a].open
<1>1. writer \in [Sessions -> Writer]
  BY DEF TypeOK
<1>2. writer' = [writer EXCEPT ![a] = [writer[a] EXCEPT !.errors = TRUE]]
  BY DEF AppendFails
<1> QED  BY <1>1, <1>2 DEF Writer

(* An append touches the files of no other session.                          *)
LEMMA AppendFrame ==
    ASSUME TypeOK, NEW a \in Sessions, NEW ev, AppendDone(a, ev) \/ AppendFails(a, ev),
           NEW s \in Sessions, s # a
    PROVE  /\ writer'[s] = writer[s]
           /\ raw'[s] = raw[s]
           /\ timeline'[s] = timeline[s]
           /\ tail'[s] = tail[s]
<1>1. /\ raw \in [Sessions -> [Direction -> Nat]]
      /\ timeline \in [Sessions -> Seq(CaptureEvent)]
      /\ writer \in [Sessions -> Writer]
      /\ tail \in [Sessions -> {"clean", "torn", "unterminated"}]
  BY DEF TypeOK
<1>2. ASSUME AppendDone(a, ev)
      PROVE  /\ writer'[s] = writer[s]
             /\ raw'[s] = raw[s]
             /\ timeline'[s] = timeline[s]
             /\ tail'[s] = tail[s]
  BY <1>1, <1>2 DEF AppendDone
<1>3. ASSUME AppendFails(a, ev)
      PROVE  /\ writer'[s] = writer[s]
             /\ raw'[s] = raw[s]
             /\ timeline'[s] = timeline[s]
             /\ tail'[s] = tail[s]
  <2>1. /\ writer' = [writer EXCEPT ![a] = [writer[a] EXCEPT !.errors = TRUE]]
        /\ raw' = raw \/ \E x : raw' = [raw EXCEPT ![a] = x]
        /\ timeline' = timeline \/ \E x : timeline' = [timeline EXCEPT ![a] = x]
        /\ tail' = tail \/ \E x : tail' = [tail EXCEPT ![a] = x]
    BY <1>3 DEF AppendFails
  <2> QED  BY <1>1, <2>1
<1> QED  BY <1>2, <1>3

(* The thread appending an event, failing to, or finding no writer keeps the *)
(* invariant.                                                                *)
LEMMA StepWorkerEvent ==
    ASSUME IInv, WorkerEvent
    PROVE  IInv'
<1>0. HeadIs("event") /\ TypeOK
  BY DEF WorkerEvent, IInv
<1> PICK a \in Sessions, ev \in CaptureEvent : a = Head(queue).s /\ ev = Head(queue).ev
  BY <1>0, HeadTypes, CommandFields
<1>1. /\ a = Head(queue).s
      /\ queue[1].ev = ev
      /\ EventAt(queue, a, 1)
      /\ queue \in Seq(Command) /\ queue # <<>>
      /\ queue' = Tail(queue)
  BY <1>0, HeadTypes DEF WorkerEvent, EventAt, HeadIs, TypeOK
<1>2. /\ \/ writer[a].open /\ AppendDone(a, ev)
         \/ writer[a].open /\ AppendFails(a, ev)
         \/ ~writer[a].open /\ UNCHANGED <<raw, timeline, tail, writer>>
      /\ UNCHANGED <<mgr, cap, cnt, pump, held, work, rec, dir, manifest, ready>>
  BY DEF WorkerEvent
<1>3. TypeOK'
  BY TypeWorkerEvent DEF IInv
<1>4. ThreadStep
  BY <1>0, <1>2 DEF ThreadStep, HeadIs
<1>5. ASSUME NEW s \in Sessions, s # a
      PROVE  Untouched(s)
  <2>1. queue # <<>> /\ Head(queue).s # s /\ queue' = Tail(queue)
    BY <1>1, <1>5
  <2>2. /\ writer'[s] = writer[s]
        /\ raw'[s] = raw[s]
        /\ timeline'[s] = timeline[s]
        /\ tail'[s] = tail[s]
    BY <1>0, <1>2, <1>5, AppendFrame
  <2> QED  BY <1>2, <2>1, <2>2 DEF Untouched
<1>6. /\ Shifted(queue, a)
      /\ SessionInv(a)
      /\ 1 \in Positions(queue)
  BY <1>1, TailPositions DEF IInv, Shifted
<1>7. cap[a].st # "new"
  BY <1>1, <1>6 DEF SessionInv, Commands, Silent
<1>8. \A i \in Positions(queue) : ~OpenAt(queue, a, i)
  BY <1>1, <1>6 DEF SessionInv, Commands, Ordered, Positions
<1>9. \A i \in Positions(queue') : ~OpenAt(queue', a, i)
  BY <1>1, <1>6, <1>8 DEF Shifted
<1>10. /\ writer[a] \in Writer
       /\ writer'[a] \in Writer
  BY <1>0, <1>3 DEF TypeOK
<1>11. ASSUME NEW n \in Nat, Pending(queue, writer[a], a, n)
       PROVE  Pending(queue', writer'[a], a, n)
  <2>1. CASE writer[a].open /\ AppendDone(a, ev)
    BY <1>0, <1>1, <1>6, <1>8, <1>10, <1>11, <2>1, TailAppended, Appended DEF SessionInv
  <2>2. CASE writer[a].open /\ AppendFails(a, ev)
    BY <1>0, <1>1, <1>8, <1>11, <2>2, TailRejected, AppendFailed
  <2>3. CASE ~writer[a].open /\ writer' = writer
    BY <1>1, <1>8, <1>11, <2>3, TailRejected
  <2> QED  BY <1>2, <2>1, <2>2, <2>3
<1>12. LiveSession(a)' /\ ClosingSession(a)' /\ Commands(a)'
  BY <1>0, <1>1, <1>4, <1>6, <1>11, HeadTaken
<1>13. NotOpened(a)' /\ OpenWriter(a)' /\ Sealed(a)'
  <2>1. CASE writer[a].open
    <3>1. /\ manifest[a] = NoManifest
          /\ ready[a] = NoManifest
          /\ dir[a] # "absent"
      BY <1>6, <2>1 DEF SessionInv, NotOpened, OpenWriter, Sealed
    <3>2. NotOpened(a)'
      BY <1>2, <1>7, <1>9, <3>1 DEF NotOpened
    <3>3. Sealed(a)'
      BY <1>2, <3>1 DEF Sealed, NoManifest
    <3>4. CASE AppendDone(a, ev)
      BY <1>0, <1>2, <1>6, <2>1, <3>1, <3>2, <3>3, <3>4, Appended DEF OpenWriter, SessionInv
    <3>5. CASE AppendFails(a, ev)
      BY <1>0, <1>2, <3>1, <3>2, <3>3, <3>5, AppendFailed DEF OpenWriter
    <3> QED  BY <1>2, <2>1, <3>4, <3>5
  <2>2. CASE ~writer[a].open
    <3>1. UNCHANGED <<raw, timeline, tail, writer>>
      BY <1>2, <2>2
    <3> QED  BY <1>2, <1>6, <1>7, <1>9, <3>1, <2>2 DEF SessionInv, NotOpened, OpenWriter, Sealed
  <2> QED  BY <2>1, <2>2
<1>14. SessionInv(a)'
  BY <1>12, <1>13 DEF SessionInv
<1>15. IdleProcess' /\ RecoveryAtWork' /\ ThreadAtWork'
  BY <1>0, <1>4, <1>2, ThreadFrame DEF IInv, ThreadAtWork, HeadIs
<1> QED  BY <1>0, <1>3, <1>5, <1>14, <1>15, UntouchedSession DEF IInv

(* The thread closing a job keeps the invariant: behind the close command    *)
(* there is no event left, so counters that agree mean a complete capture.   *)
LEMMA StepWorkerClose ==
    ASSUME IInv, WorkerClose
    PROVE  IInv'
<1>0. HeadIs("close") /\ TypeOK
  BY DEF WorkerClose, IInv
<1> PICK a \in Sessions, sum \in CloseSummary : a = Head(queue).s /\ sum = Head(queue).sum
  BY <1>0, HeadTypes, CommandFields
<1>1. /\ a = Head(queue).s
      /\ queue[1].sum = sum
      /\ CloseAt(queue, a, 1)
      /\ queue \in Seq(Command) /\ queue # <<>>
      /\ queue' = Tail(queue)
  BY <1>0, HeadTypes DEF WorkerClose, CloseAt, HeadIs, TypeOK
<1>2. /\ \/ /\ writer[a].open
            /\ manifest' = [manifest EXCEPT ![a] = CloseManifest(a, sum)]
            /\ work' = [pc |-> "rename", s |-> a]
         \/ /\ manifest' = manifest
            /\ work' = [pc |-> "resolve", s |-> a]
      /\ writer' = [writer EXCEPT ![a] = NoWriter]
      /\ UNCHANGED <<mgr, cap, cnt, pump, held, rec, dir, raw, timeline, tail, ready>>
  BY DEF WorkerClose, CloseFailed, WithoutWriter, loopVars
<1>3. TypeOK'
  BY TypeWorkerClose DEF IInv
<1>4. ThreadStep
  BY <1>0, <1>2 DEF ThreadStep, HeadIs
<1>5. /\ manifest \in [Sessions -> Manifest \cup {NoManifest}]
      /\ writer \in [Sessions -> Writer]
  BY <1>0 DEF TypeOK
<1>6. ASSUME NEW s \in Sessions, s # a
      PROVE  Untouched(s)
  <2>1. queue # <<>> /\ Head(queue).s # s /\ queue' = Tail(queue)
    BY <1>1, <1>6
  <2>2. writer'[s] = writer[s] /\ manifest'[s] = manifest[s]
    BY <1>2, <1>5, <1>6
  <2> QED  BY <1>2, <2>1, <2>2 DEF Untouched
<1>7. /\ Shifted(queue, a)
      /\ SessionInv(a)
      /\ 1 \in Positions(queue)
  BY <1>1, TailPositions DEF IInv, Shifted
<1>8. ~writer'[a].open
  BY <1>2, <1>5 DEF NoWriter
<1>9. LiveSession(a)' /\ ClosingSession(a)' /\ Commands(a)'
  <2>1. ~EventAt(queue, a, 1)
    BY <1>1 DEF CloseAt, EventAt
  <2>2. \A n \in Nat : Pending(queue, writer[a], a, n) => Pending(queue', writer'[a], a, n)
    BY <1>1, <1>8, <2>1, TailPending
  <2> QED  BY <1>0, <1>1, <1>4, <1>7, <2>2, HeadTaken
<1>10. cap[a].st \notin {"new", "live"} /\ Faithful(a, sum)
  BY <1>1, <1>7 DEF SessionInv, Commands
<1>11. \A i \in Positions(queue') : OpenAt(queue', a, i) => dir[a] = "absent"
  BY <1>1, <1>7 DEF Shifted, SessionInv, NotOpened
<1>12. OpenWriter(a)'
  BY <1>8 DEF OpenWriter
<1>13. CASE /\ writer[a].open
            /\ manifest' = [manifest EXCEPT ![a] = CloseManifest(a, sum)]
            /\ work' = [pc |-> "rename", s |-> a]
  <2>1. /\ manifest[a] = NoManifest
        /\ ready[a] = NoManifest
        /\ dir[a] # "absent"
    BY <1>7, <1>13 DEF SessionInv, NotOpened, OpenWriter, Sealed
  <2>2. /\ manifest'[a] = CloseManifest(a, sum)
        /\ CloseManifest(a, sum) # NoManifest
        /\ CloseManifest(a, sum).files = raw[a]
    BY <1>0, <1>5, <1>13, CloseManifestType DEF CloseManifest, FileFacts, NoManifest, Manifest
  <2>3. ASSUME CloseManifest(a, sum).status = "COMPLETE"
        PROVE  /\ Len(timeline[a]) = cnt[a].events
               /\ raw[a] = cnt[a].bytes
               /\ tail[a] = "clean"
               /\ \A d \in Direction : pump[a][d] = "eof"
    <3>1. /\ sum.transport /\ ~sum.failed
          /\ sum.bytes = writer[a].bytes
          /\ ~writer[a].errors
      BY <2>3 DEF CloseManifest, StorageComplete
    <3>2. /\ \A d \in Direction : pump[a][d] = "eof"
          /\ sum.bytes = cnt[a].bytes
          /\ Pending(queue, writer[a], a, cnt[a].events)
      BY <1>10, <3>1 DEF Faithful
    <3>3. /\ raw[a] = writer[a].bytes
          /\ tail[a] = "clean"
          /\ Len(timeline[a]) = writer[a].next
      BY <1>7, <1>13, <3>1 DEF SessionInv, OpenWriter
    <3>4. writer[a].next \in Nat /\ cnt[a].events \in Nat
      BY <1>0 DEF TypeOK, Writer, Counters
    <3>5. writer[a].next <= cnt[a].events
      BY <1>13, <3>1, <3>2 DEF Pending
    <3>6. ASSUME writer[a].next < cnt[a].events
          PROVE  FALSE
      <4>1. writer[a].next \in 0 .. cnt[a].events - 1
        BY <3>4, <3>6
      <4>2. PICK i \in Positions(queue) : EventAt(queue, a, i)
        BY <1>13, <3>1, <3>2, <3>4, <4>1 DEF Pending
      <4>3. i < 1
        BY <1>1, <1>7, <4>2 DEF SessionInv, Commands, Ordered
      <4> QED  BY <4>2, <4>3 DEF Positions
    <3>7. writer[a].next = cnt[a].events
      BY <3>4, <3>5, <3>6
    <3>8. raw[a] = cnt[a].bytes
      BY <3>1, <3>2, <3>3
    <3> QED  BY <3>2, <3>3, <3>7, <3>8
  <2>4. NotOpened(a)'
    BY <1>2, <1>10, <1>11, <2>1 DEF NotOpened
  <2>5. Sealed(a)'
    BY <1>2, <1>10, <2>1, <2>2, <2>3 DEF Sealed
  <2>6. SessionInv(a)'
    BY <1>9, <1>12, <2>4, <2>5 DEF SessionInv
  <2>7. ThreadAtWork'
    BY <1>2, <1>13, <2>1, <2>2 DEF ThreadAtWork
  <2> QED  BY <1>0, <1>3, <1>4, <1>6, <2>6, <2>7, ThreadFrame, UntouchedSession DEF IInv
<1>14. CASE manifest' = manifest /\ work' = [pc |-> "resolve", s |-> a]
  <2>1. NotOpened(a)' /\ Sealed(a)'
    BY <1>2, <1>7, <1>8, <1>10, <1>11, <1>14 DEF SessionInv, NotOpened, Sealed
  <2>2. SessionInv(a)' /\ ThreadAtWork'
    BY <1>9, <1>12, <1>14, <2>1 DEF SessionInv, ThreadAtWork
  <2> QED  BY <1>0, <1>3, <1>4, <1>6, <2>2, ThreadFrame, UntouchedSession DEF IInv
<1> QED  BY <1>2, <1>13, <1>14

(* Renaming the directory of a closed job, or failing to, keeps the          *)
(* invariant.                                                                *)
LEMMA StepWorkerRename ==
    ASSUME IInv, WorkerRename
    PROVE  IInv'
<1>1. TypeOK /\ TypeOK'
  BY TypeWorkerRename DEF IInv
<1>2. /\ work.s \in Sessions
      /\ manifest[work.s] # NoManifest
      /\ ready[work.s] = NoManifest
      /\ dir[work.s] # "absent"
  BY DEF IInv, ThreadAtWork, WorkerRename, SessionInv, NotOpened
<1>3. \/ dir' = dir /\ work'.pc = "resolve"
      \/ dir' = [dir EXCEPT ![work.s] = "final"] /\ work'.pc = "ready" /\ work'.s = work.s
  <2>1. \/ dir' = dir /\ work' = [pc |-> "resolve", s |-> work.s]
        \/ dir' = [dir EXCEPT ![work.s] = "final"] /\ work' = [work EXCEPT !.pc = "ready"]
    BY DEF WorkerRename, CloseFailed
  <2>2. work \in [pc : {"off", "get", "rename", "ready", "resolve", "set", "dead", "exited"},
                  s : Sessions \cup {NoSession}]
    BY <1>1 DEF TypeOK
  <2> QED  BY <2>1, <2>2
<1>4. UNCHANGED <<mgr, cap, cnt, pump, held, queue, rec, writer, raw, timeline, tail,
                  manifest, ready>>
  BY DEF WorkerRename, loopVars
<1>5. \A s \in Sessions : dir'[s] = dir[s] \/ (dir[s] # "absent" /\ dir'[s] = "final")
  <2>1. dir \in [Sessions -> {"absent", "partial", "final"}]
    BY <1>1 DEF TypeOK
  <2>2. ASSUME NEW s \in Sessions, s # work.s
        PROVE  dir'[s] = dir[s]
    BY <1>2, <1>3, <2>1, <2>2
  <2>3. dir'[work.s] = dir[work.s] \/ dir'[work.s] = "final"
    BY <1>2, <1>3, <2>1
  <2>4. ASSUME NEW s \in Sessions, s = work.s
        PROVE  dir'[s] = dir[s] \/ (dir[s] # "absent" /\ dir'[s] = "final")
    BY <1>2, <2>3, <2>4
  <2> QED  BY <2>2, <2>4
<1>6. ThreadStep
  BY <1>4, <1>5 DEF ThreadStep, WorkerRename
<1>7. ThreadAtWork'
  BY <1>1, <1>2, <1>3, <1>4 DEF ThreadAtWork, TypeOK
<1>8. ASSUME NEW s \in Sessions
      PROVE  SessionInv(s)'
  <2>1. SessionInv(s)
    BY DEF IInv
  <2>2. LiveSession(s)' /\ ClosingSession(s)' /\ Commands(s)' /\ OpenWriter(s)'
    BY <1>4, <2>1 DEF SessionInv, LiveSession, ClosingSession, Commands, OpenWriter,
                      Faithful, Holding
  <2>3. NotOpened(s)' /\ Sealed(s)'
    BY <1>4, <1>5, <2>1 DEF SessionInv, NotOpened, Sealed
  <2> QED  BY <2>2, <2>3 DEF SessionInv
<1> QED  BY <1>1, <1>6, <1>7, <1>8, ThreadFrame DEF IInv

(* Publishing the marker of a closed job, or failing to, keeps the           *)
(* invariant.                                                                *)
LEMMA StepWorkerReady ==
    ASSUME IInv, WorkerReady
    PROVE  IInv'
<1>1. /\ work.s \in Sessions
      /\ manifest[work.s] # NoManifest
      /\ dir[work.s] = "final"
  BY DEF IInv, ThreadAtWork, WorkerReady
<1>2. TypeOK /\ TypeOK'
  BY <1>1, TypeWorkerReady DEF IInv
<1>3. /\ ready' = ready \/ ready' = [ready EXCEPT ![work.s] = manifest[work.s]]
      /\ work'.pc = "resolve"
  BY <1>2 DEF WorkerReady, TypeOK
<1>4. UNCHANGED <<mgr, cap, cnt, pump, held, queue, rec, writer, dir, raw, timeline, tail,
                  manifest>>
  BY DEF WorkerReady, loopVars
<1>5. \A s \in Sessions : ready'[s] = ready[s] \/ (dir[s] = "final" /\ ready'[s] = manifest[s])
  <2>1. ready \in [Sessions -> Manifest \cup {NoManifest}]
    BY <1>2 DEF TypeOK
  <2>2. ASSUME NEW s \in Sessions, s # work.s
        PROVE  ready'[s] = ready[s]
    BY <1>1, <1>3, <2>1, <2>2
  <2>3. ready'[work.s] = ready[work.s] \/ ready'[work.s] = manifest[work.s]
    BY <1>1, <1>3, <2>1
  <2>4. ASSUME NEW s \in Sessions, s = work.s
        PROVE  ready'[s] = ready[s] \/ (dir[s] = "final" /\ ready'[s] = manifest[s])
    BY <1>1, <2>3, <2>4
  <2> QED  BY <2>2, <2>4
<1>6. ThreadStep
  BY <1>4 DEF ThreadStep, WorkerReady
<1>7. ThreadAtWork'
  BY <1>3 DEF ThreadAtWork
<1>8. ASSUME NEW s \in Sessions
      PROVE  SessionInv(s)'
  <2>1. SessionInv(s)
    BY DEF IInv
  <2>2. LiveSession(s)' /\ ClosingSession(s)' /\ Commands(s)' /\ OpenWriter(s)'
    BY <1>4, <2>1 DEF SessionInv, LiveSession, ClosingSession, Commands, OpenWriter,
                      Faithful, Holding
  <2>3. NotOpened(s)' /\ Sealed(s)'
    BY <1>4, <1>5, <2>1 DEF SessionInv, NotOpened, Sealed
  <2> QED  BY <2>2, <2>3 DEF SessionInv
<1> QED  BY <1>2, <1>6, <1>7, <1>8, ThreadFrame DEF IInv

(* Resolving the future of a close command keeps the invariant, also when    *)
(* the thread dies of it.                                                    *)
LEMMA StepWorkerResolve ==
    ASSUME IInv, WorkerCheckDone \/ WorkerSet
    PROVE  IInv'
<1>1. TypeOK /\ TypeOK'
  BY TypeWorkerCheckDone, TypeWorkerSet DEF IInv
<1>2. work'.pc \in {"set", "get", "dead"}
  BY <1>1 DEF WorkerCheckDone, WorkerSet, ThreadAt, TypeOK
<1>3. UNCHANGED <<mgr, cap, cnt, pump, held, queue, rec, writer, diskVars>>
  BY DEF WorkerCheckDone, WorkerSet, loopVars
<1>4. ThreadStep
  BY <1>3 DEF ThreadStep, WorkerCheckDone, WorkerSet, diskVars
<1>5. ThreadAtWork'
  BY <1>2 DEF ThreadAtWork
<1>6. ASSUME NEW s \in Sessions
      PROVE  Untouched(s)
  BY <1>3 DEF Untouched, diskVars
<1> QED  BY <1>1, <1>4, <1>5, <1>6, ThreadFrame, UntouchedSession DEF IInv

(* The thread abandoning its writers keeps the invariant.                    *)
LEMMA StepWorkerStop ==
    ASSUME IInv, WorkerStop
    PROVE  IInv'
<1>0. HeadIs("stop") /\ TypeOK
  BY DEF WorkerStop, IInv
<1>1. /\ queue[1].op = "stop"
      /\ queue \in Seq(Command) /\ queue # <<>>
      /\ queue' = Tail(queue)
  BY <1>0, HeadTypes DEF WorkerStop, HeadIs, TypeOK
<1>2. /\ UNCHANGED <<mgr, cap, cnt, pump, held, rec, dir, raw, timeline, tail, manifest, ready>>
      /\ \A s \in Sessions : ~writer'[s].open
      /\ work'.pc = "exited"
  BY <1>0 DEF WorkerStop, loopVars, diskVars, NoWriter, TypeOK
<1>3. TypeOK'
  BY TypeWorkerStop DEF IInv
<1>4. ThreadStep
  BY <1>0, <1>2 DEF ThreadStep, HeadIs
<1>5. ThreadAtWork'
  BY <1>2 DEF ThreadAtWork
<1>6. ASSUME NEW s \in Sessions
      PROVE  SessionInv(s)'
  <2>1. SessionInv(s) /\ Shifted(queue, s)
    BY <1>1, TailPositions DEF IInv
  <2>2. ~EventAt(queue, s, 1)
    BY <1>1 DEF EventAt
  <2>3. \A n \in Nat : Pending(queue, writer[s], s, n) => Pending(queue', writer'[s], s, n)
    BY <1>1, <1>2, <2>2, TailPending
  <2>4. LiveSession(s)' /\ ClosingSession(s)' /\ Commands(s)'
    BY <1>0, <1>1, <1>4, <2>1, <2>3, HeadTaken
  <2>5. \A i \in Positions(queue') : OpenAt(queue', s, i) => dir[s] = "absent"
    BY <1>1, <2>1 DEF Shifted, SessionInv, NotOpened
  <2>6. NotOpened(s)' /\ OpenWriter(s)' /\ Sealed(s)'
    BY <1>2, <2>1, <2>5 DEF SessionInv, NotOpened, OpenWriter, Sealed
  <2> QED  BY <2>4, <2>6 DEF SessionInv
<1> QED  BY <1>0, <1>3, <1>4, <1>5, <1>6, ThreadFrame DEF IInv

(***************************************************************************)
(* Start, recovery, stop and crash.                                        *)
(***************************************************************************)

(* While recovery runs the sessions of earlier processes are at rest.        *)
LEMMA Recovering ==
    ASSUME IInv, rec.pc # "off", NEW s \in Sessions
    PROVE  /\ mgr = "recovering"
           /\ queue = <<>>
           /\ work.pc = "off"
           /\ ~writer[s].open
           /\ cap[s].st \notin {"live", "closing", "detached", "waiting"}
BY DEF IInv, RecoveryAtWork, IdleProcess, Running

(* The parts of the invariant that do not read the job directories.          *)
LEMMA RecoveryFrame ==
    ASSUME IInv, rec.pc # "off", UNCHANGED <<loopVars, queue, fut, threadVars>>
    PROVE  /\ IdleProcess'
           /\ ThreadAtWork'
           /\ \A s \in Sessions : LiveSession(s)' /\ ClosingSession(s)' /\ Commands(s)'
                                  /\ OpenWriter(s)'
<1>1. ASSUME NEW s \in Sessions
      PROVE  LiveSession(s)' /\ ClosingSession(s)' /\ Commands(s)' /\ OpenWriter(s)'
  <2>1. SessionInv(s)
    BY DEF IInv
  <2>2. ~writer'[s].open
    BY Recovering DEF threadVars
  <2> QED  BY <2>1, <2>2 DEF SessionInv, LiveSession, ClosingSession, Commands, OpenWriter,
                             Faithful, Holding, loopVars, threadVars
<1>2. work.pc = "off"
  BY DEF IInv, RecoveryAtWork, IdleProcess, Running
<1> QED  BY <1>1, <1>2 DEF IInv, IdleProcess, ThreadAtWork, Running, loopVars, threadVars

(* Skipping a published job or keeping its manifest keeps the invariant.     *)
LEMMA StepRecoverPick ==
    ASSUME IInv, NEW a \in Sessions,
           RecoverSkip(a) \/ RecoverKeepManifest(a)
    PROVE  IInv'
<1>1. TypeOK /\ TypeOK'
  BY TypeRecover DEF IInv
<1>2. rec.pc = "pick" /\ UNCHANGED <<loopVars, queue, fut, threadVars, diskVars>>
  BY DEF RecoverSkip, RecoverKeepManifest
<1>3. rec \in [pc : {"off", "pick", "rename", "ready"}, s : Sessions \cup {NoSession},
               todo : SUBSET Sessions]
  BY <1>1 DEF TypeOK
<1>4. RecoveryAtWork'
  <2>1. mgr = "recovering" /\ \A s \in rec.todo : dir[s] # "absent"
    BY <1>2 DEF IInv, RecoveryAtWork
  <2>2. CASE RecoverSkip(a)
    <3>1. rec'.pc = "pick" /\ rec'.todo \subseteq rec.todo
      BY <1>3, <2>2 DEF RecoverSkip
    <3> QED  BY <1>2, <2>1, <3>1 DEF RecoveryAtWork, loopVars, diskVars
  <2>3. CASE RecoverKeepManifest(a)
    <3>1. rec'.pc = "rename" /\ rec'.s = a /\ rec'.todo = rec.todo
      BY <1>3, <2>3 DEF RecoverKeepManifest
    <3>2. manifest[a] # NoManifest /\ ready[a] = NoManifest
      BY <2>3 DEF RecoverKeepManifest, Published
    <3> QED  BY <1>2, <2>1, <3>1, <3>2 DEF RecoveryAtWork, loopVars, diskVars
  <2> QED  BY <2>2, <2>3
<1>5. ASSUME NEW s \in Sessions
      PROVE  Untouched(s)
  BY <1>2 DEF Untouched, loopVars, threadVars, diskVars
<1> QED  BY <1>1, <1>2, <1>4, <1>5, RecoveryFrame, UntouchedSession DEF IInv

(* Setting an unreadable manifest aside keeps the invariant.                 *)
LEMMA StepRecoverDistrust ==
    ASSUME IInv, NEW a \in Sessions, RecoverDistrust(a)
    PROVE  IInv'
<1>1. TypeOK /\ TypeOK'
  BY TypeRecover DEF IInv
<1>2. /\ rec.pc = "pick"
      /\ ready[a] = NoManifest
      /\ manifest' = [manifest EXCEPT ![a] = NoManifest]
      /\ UNCHANGED <<loopVars, queue, fut, threadVars, rec, dir, raw, timeline, tail, ready>>
  BY DEF RecoverDistrust, Published
<1>3. RecoveryAtWork'
  BY <1>2 DEF IInv, RecoveryAtWork, loopVars
<1>4. ASSUME NEW s \in Sessions
      PROVE  NotOpened(s)' /\ Sealed(s)'
  <2>0. manifest \in [Sessions -> Manifest \cup {NoManifest}]
    BY <1>1 DEF TypeOK
  <2>1. /\ SessionInv(s)
        /\ s # a => manifest'[s] = manifest[s]
        /\ s = a => manifest'[s] = NoManifest
    BY <1>2, <2>0 DEF IInv
  <2>2. NotOpened(s)'
    BY <1>2, <2>1 DEF SessionInv, NotOpened, loopVars, threadVars
  <2>3. CASE s # a
    BY <1>2, <2>1, <2>2, <2>3 DEF SessionInv, Sealed, loopVars
  <2>4. CASE s = a
    BY <1>2, <2>1, <2>2, <2>4 DEF Sealed, NoManifest
  <2> QED  BY <2>3, <2>4
<1> QED  BY <1>1, <1>2, <1>3, <1>4, RecoveryFrame DEF IInv, SessionInv

(* Writing the manifest of an unfinished job keeps the invariant: it is      *)
(* PARTIAL and binds the files as they are.                                  *)
LEMMA StepRecoverBuild ==
    ASSUME IInv, NEW a \in Sessions, RecoverBuild(a)
    PROVE  IInv'
<1>1. TypeOK /\ TypeOK'
  BY TypeRecover DEF IInv
<1>2. /\ rec.pc = "pick"
      /\ a \in rec.todo
      /\ ready[a] = NoManifest
      /\ raw' = [raw EXCEPT ![a] = raw[a]]
      /\ manifest' = [manifest EXCEPT ![a] = RecoveryManifest(a)]
      /\ rec' = [rec EXCEPT !.pc = "rename", !.s = a]
      /\ UNCHANGED <<loopVars, queue, fut, threadVars, dir, timeline, tail, ready>>
  BY DEF RecoverBuild, Published, RecoveredRaw
<1>3. /\ raw \in [Sessions -> [Direction -> Nat]]
      /\ manifest \in [Sessions -> Manifest \cup {NoManifest}]
      /\ rec \in [pc : {"off", "pick", "rename", "ready"}, s : Sessions \cup {NoSession},
                  todo : SUBSET Sessions]
  BY <1>1 DEF TypeOK
<1>4. raw' = raw
  BY <1>2, <1>3
<1>5. /\ manifest'[a] = RecoveryManifest(a)
      /\ RecoveryManifest(a).status = "PARTIAL"
      /\ RecoveryManifest(a).files = raw[a]
      /\ \A s \in Sessions \ {a} : manifest'[s] = manifest[s]
  BY <1>2, <1>3 DEF RecoveryManifest, RecoveredStatus, RecoveredRaw
<1>6. rec'.pc = "rename" /\ rec'.s = a /\ rec'.todo = rec.todo
  BY <1>2, <1>3
<1>7. manifest'[a] # NoManifest
  BY <1>5 DEF NoManifest
<1>8. mgr = "recovering" /\ dir[a] # "absent" /\ \A s \in rec.todo : dir[s] # "absent"
  BY <1>2 DEF IInv, RecoveryAtWork
<1>9. RecoveryAtWork'
  BY <1>2, <1>6, <1>7, <1>8 DEF RecoveryAtWork, loopVars
<1>10. cap[a].st \notin {"new", "live"}
  BY <1>2, <1>8, Recovering DEF IInv, SessionInv, NotOpened
<1>11. ASSUME NEW s \in Sessions
       PROVE  NotOpened(s)' /\ Sealed(s)'
  <2>1. SessionInv(s)
    BY DEF IInv
  <2>2. CASE s = a
    <3>1. NotOpened(s)'
      BY <1>2, <1>8, <2>1, <2>2 DEF SessionInv, NotOpened, loopVars
    <3> QED  BY <1>2, <1>4, <1>5, <1>10, <2>2, <3>1 DEF Sealed, loopVars
  <2>3. CASE s # a
    BY <1>2, <1>4, <1>5, <2>1, <2>3 DEF SessionInv, NotOpened, Sealed, loopVars, threadVars
  <2> QED  BY <2>2, <2>3
<1> QED  BY <1>1, <1>2, <1>9, <1>11, RecoveryFrame DEF IInv, SessionInv

(* The rename and the marker of a recovered job keep the invariant.          *)
LEMMA StepRecoverFinish ==
    ASSUME IInv, RecoverRename \/ RecoverReady
    PROVE  IInv'
<1>0. /\ rec.pc \in {"rename", "ready"}
      /\ rec.s \in Sessions
      /\ mgr = "recovering"
      /\ manifest[rec.s] # NoManifest
      /\ ready[rec.s] = NoManifest
      /\ \A s \in rec.todo : dir[s] # "absent"
  BY DEF IInv, RecoveryAtWork, RecoverRename, RecoverReady
<1>1. TypeOK /\ TypeOK'
  BY <1>0, TypeRecoverFinish DEF IInv
<1>2. UNCHANGED <<loopVars, queue, fut, threadVars, raw, timeline, tail, manifest>>
  BY DEF RecoverRename, RecoverReady
<1>3. /\ dir \in [Sessions -> {"absent", "partial", "final"}]
      /\ ready \in [Sessions -> Manifest \cup {NoManifest}]
      /\ rec \in [pc : {"off", "pick", "rename", "ready"}, s : Sessions \cup {NoSession},
                  todo : SUBSET Sessions]
  BY <1>1 DEF TypeOK
<1>4. dir[rec.s] # "absent"
  BY <1>0 DEF IInv, SessionInv, NotOpened
<1>5. CASE RecoverRename
  <2>1. /\ dir' = [dir EXCEPT ![rec.s] = "final"]
        /\ rec' = [rec EXCEPT !.pc = "ready"]
        /\ ready' = ready
    BY <1>5 DEF RecoverRename
  <2>2. /\ \A s \in Sessions : s # rec.s => dir'[s] = dir[s]
        /\ dir'[rec.s] = "final"
        /\ rec'.pc = "ready" /\ rec'.s = rec.s /\ rec'.todo = rec.todo
    <3>1. ASSUME NEW s \in Sessions, s # rec.s
          PROVE  dir'[s] = dir[s]
      BY <1>3, <2>1, <3>1
    <3> QED  BY <1>0, <1>3, <2>1, <3>1
  <2>3. rec.todo \subseteq Sessions
    BY <1>3
  <2>4. RecoveryAtWork'
    BY <1>0, <1>2, <1>4, <2>1, <2>2, <2>3 DEF RecoveryAtWork, loopVars
  <2>5. ASSUME NEW s \in Sessions
        PROVE  NotOpened(s)' /\ Sealed(s)'
    <3>1. SessionInv(s)
      BY DEF IInv
    <3> QED  BY <1>2, <1>4, <2>1, <2>2, <3>1 DEF SessionInv, NotOpened, Sealed, loopVars,
                                                threadVars
  <2> QED  BY <1>0, <1>1, <1>2, <2>4, <2>5, RecoveryFrame DEF IInv, SessionInv
<1>6. CASE RecoverReady
  <2>1. /\ ready' = [ready EXCEPT ![rec.s] = manifest[rec.s]]
        /\ rec' = [pc |-> "pick", s |-> NoSession, todo |-> rec.todo \ {rec.s}]
        /\ dir' = dir
        /\ dir[rec.s] = "final"
    BY <1>6 DEF RecoverReady, RecoveryAt, IInv, RecoveryAtWork
  <2>2. /\ \A s \in Sessions : s # rec.s => ready'[s] = ready[s]
        /\ ready'[rec.s] = manifest[rec.s]
    <3>1. ASSUME NEW s \in Sessions, s # rec.s
          PROVE  ready'[s] = ready[s]
      BY <1>3, <2>1, <3>1
    <3> QED  BY <1>0, <1>3, <2>1, <3>1
  <2>3. RecoveryAtWork'
    BY <1>0, <1>2, <2>1 DEF RecoveryAtWork, loopVars
  <2>4. ASSUME NEW s \in Sessions
        PROVE  NotOpened(s)' /\ Sealed(s)'
    <3>1. SessionInv(s)
      BY DEF IInv
    <3> QED  BY <1>2, <2>1, <2>2, <3>1 DEF SessionInv, NotOpened, Sealed, loopVars, threadVars
  <2> QED  BY <1>0, <1>1, <1>2, <2>3, <2>4, RecoveryFrame DEF IInv, SessionInv
<1> QED  BY <1>5, <1>6

(* The start of a process and the end of its recovery keep the invariant.    *)
LEMMA StepStart ==
    ASSUME IInv, Start \/ StartDone
    PROVE  IInv'
<1>1. TypeOK'
  BY TypeLifeCycle DEF IInv
<1>2. UNCHANGED <<cap, cnt, pump, held, queue, writer, diskVars>>
  BY DEF Start, StartDone, threadVars
<1>3. ASSUME NEW s \in Sessions
      PROVE  Untouched(s)
  BY <1>2 DEF Untouched, diskVars
<1>4. IdleProcess' /\ RecoveryAtWork' /\ ThreadAtWork'
  <2>1. CASE Start
    <3>1. /\ rec'.pc = "pick" /\ rec'.todo = Candidates
          /\ mgr' = "recovering" /\ work' = work
          /\ ~Running
      BY <2>1 DEF Start, RecoveryAt, threadVars, Running
    <3> QED  BY <1>2, <3>1 DEF IInv, IdleProcess, RecoveryAtWork, ThreadAtWork, Running,
                               Candidates, diskVars
  <2>2. CASE StartDone
    <3>1. rec'.pc = "off" /\ rec'.todo = {} /\ mgr' = "running" /\ work'.pc = "get"
      BY <2>2 DEF StartDone, RecoveryAt, ThreadAt
    <3> QED  BY <3>1 DEF IdleProcess, RecoveryAtWork, ThreadAtWork, Running
  <2> QED  BY <2>1, <2>2
<1> QED  BY <1>1, <1>3, <1>4, UntouchedSession DEF IInv

(* The end of a process, orderly or not, keeps the invariant.                *)
LEMMA StepProcessGone ==
    ASSUME IInv, Stopped \/ Crash \/ RecoveryFails
    PROVE  IInv'
<1>1. TypeOK /\ TypeOK'
  BY TypeLifeCycle DEF IInv
<1>2. PICK m \in {"down", "crashed"} : ProcessGone(m)
  BY DEF Stopped, Crash, RecoveryFails
<1>3. /\ mgr' = m
      /\ queue' = <<>>
      /\ work'.pc = "off"
      /\ rec'.pc = "off" /\ rec'.todo = {}
      /\ UNCHANGED <<cnt, pump, dir, raw, timeline, tail, manifest, ready>>
  BY <1>2 DEF ProcessGone, ThreadAt, RecoveryAt, diskVars
<1>4. \A s \in Sessions : /\ ~writer'[s].open
                          /\ cap'[s] = cap[s] \/ cap'[s].st = "lost"
                          /\ cap'[s].st \notin {"live", "closing", "detached", "waiting"}
  <2>1. ASSUME NEW s \in Sessions
        PROVE  /\ ~writer'[s].open
               /\ cap'[s] = cap[s] \/ cap'[s].st = "lost"
               /\ cap'[s].st \notin {"live", "closing", "detached", "waiting"}
    <3>1. writer'[s] = NoWriter
      BY <1>2 DEF ProcessGone
    <3>2. cap'[s] = IF cap[s].st \in {"live", "closing", "detached", "waiting"}
                    THEN SessionAt("lost") ELSE cap[s]
      BY <1>2 DEF ProcessGone
    <3> QED  BY <3>1, <3>2 DEF NoWriter, SessionAt
  <2> QED  BY <2>1
<1>5. IdleProcess' /\ RecoveryAtWork' /\ ThreadAtWork'
  BY <1>3, <1>4 DEF IdleProcess, RecoveryAtWork, ThreadAtWork
<1>6. ASSUME NEW s \in Sessions
      PROVE  SessionInv(s)'
  <2>1. SessionInv(s)
    BY DEF IInv
  <2>2. \A i \in Positions(queue') : FALSE
    BY <1>3 DEF Positions
  <2>3. LiveSession(s)' /\ ClosingSession(s)' /\ OpenWriter(s)'
    BY <1>4 DEF LiveSession, ClosingSession, OpenWriter
  <2>4. Commands(s)'
    BY <1>3, <1>4, <2>1, <2>2 DEF SessionInv, Commands, Silent, Ordered
  <2>5. NotOpened(s)' /\ Sealed(s)'
    BY <1>3, <1>4, <2>1, <2>2 DEF SessionInv, NotOpened, Sealed
  <2> QED  BY <2>3, <2>4, <2>5 DEF SessionInv
<1> QED  BY <1>1, <1>5, <1>6 DEF IInv

(***************************************************************************)
(* The theorems.                                                           *)
(***************************************************************************)

(* The initial state: nothing on disk, nothing queued, no session open.      *)
LEMMA InvInit == Init => IInv
<1> SUFFICES ASSUME Init PROVE IInv
  OBVIOUS
<1>1. TypeOK
  BY TypeInit
<1>2. /\ mgr = "down"
      /\ queue = <<>>
      /\ work.pc = "off"
      /\ rec.pc = "off" /\ rec.todo = {}
  BY DEF Init, ThreadAt, RecoveryAt
<1>3. \A i \in Positions(queue) : FALSE
  BY <1>2 DEF Positions
<1>4. ASSUME NEW s \in Sessions
      PROVE  /\ cap[s].st = "new" /\ cap[s].sequence = 0
             /\ cnt[s].events = 0
             /\ \A d \in Direction : pump[s][d] = "read"
             /\ ~writer[s].open
             /\ dir[s] = "absent" /\ raw[s] = Zero /\ timeline[s] = <<>>
             /\ tail[s] = "clean" /\ manifest[s] = NoManifest /\ ready[s] = NoManifest
  BY DEF Init, SessionAt, NewCounters, NoWriter
<1>5. IdleProcess /\ RecoveryAtWork /\ ThreadAtWork
  BY <1>2, <1>4 DEF IdleProcess, RecoveryAtWork, ThreadAtWork
<1>6. ASSUME NEW s \in Sessions
      PROVE  SessionInv(s)
  <2>1. LiveSession(s) /\ ClosingSession(s) /\ OpenWriter(s)
    BY <1>4 DEF LiveSession, ClosingSession, OpenWriter
  <2>2. Commands(s) /\ NotOpened(s)
    BY <1>3, <1>4 DEF Commands, NotOpened, Silent, Ordered
  <2>3. NoManifest.status # "COMPLETE"
    BY DEF NoManifest
  <2>4. Sealed(s)
    BY <1>4, <2>3 DEF Sealed
  <2> QED  BY <2>1, <2>2, <2>4 DEF SessionInv
<1> QED  BY <1>1, <1>5, <1>6 DEF IInv

(* Every step of the loop, the writer thread, recovery or the process.       *)
LEMMA InvNext == IInv /\ [Next]_vars => IInv'
<1> SUFFICES ASSUME IInv, [Next]_vars PROVE IInv'
  OBVIOUS
<1>1. ASSUME NEW s \in Sessions, OpenSession(s) PROVE IInv'
  BY <1>1, StepOpenSession
<1>2. ASSUME NEW s \in Sessions, NEW d \in Direction, NEW n \in ChunkSizes,
             Observe(s, d, "data", n)
      PROVE  IInv'
  <2>1. n \in Nat
    BY ChunkSizesAssumption
  <2> QED  BY <1>2, <2>1, StepObserve
<1>3. ASSUME NEW s \in Sessions, NEW d \in Direction, Observe(s, d, "eof", 0) PROVE IInv'
  BY <1>3, StepObserve
<1>4. ASSUME NEW s \in Sessions, NEW d \in Direction, Record(s, d) PROVE IInv'
  BY <1>4, StepRecord
<1>5. ASSUME NEW s \in Sessions, NEW tc \in BOOLEAN, Finalize(s, tc) PROVE IInv'
  BY <1>5, StepFinalize
<1>6. ASSUME NEW s \in Sessions,
             \/ EndPumps(s) \/ LoseFinalizer(s) \/ PutClose(s) \/ PutCloseTimeout(s)
             \/ CancelFinalizer(s) \/ FinalizerReturns(s) \/ NotifyFailure(s)
      PROVE  IInv'
  BY <1>6, StepEndPumps, StepLoseFinalizer, StepPutClose, StepCancelFinalizer,
     StepNotifyFailure
<1>7. ASSUME NEW s \in Sessions,
             \/ RecoverDistrust(s) \/ RecoverSkip(s) \/ RecoverKeepManifest(s)
             \/ RecoverBuild(s)
      PROVE  IInv'
  BY <1>7, StepRecoverPick, StepRecoverDistrust, StepRecoverBuild
<1>8. ASSUME WorkerStep PROVE IInv'
  BY <1>8, StepWorkerOpen, StepWorkerEvent, StepWorkerClose, StepWorkerRename,
     StepWorkerReady, StepWorkerResolve, StepWorkerStop DEF WorkerStep
<1>9. ASSUME RecoverStep PROVE IInv'
  BY <1>7, <1>9, StepRecoverFinish DEF RecoverStep
<1>10. ASSUME \/ Start \/ StartDone \/ StopManager \/ Stopped \/ Crash \/ RecoveryFails
       PROVE  IInv'
  BY <1>10, StepStart, StepStopManager, StepProcessGone
<1>11. ASSUME UNCHANGED vars PROVE IInv'
  <2>1. TypeOK /\ TypeOK'
    BY <1>11 DEF IInv, TypeOK, vars
  <2>2. IdleProcess' /\ RecoveryAtWork' /\ ThreadAtWork'
    BY <1>11 DEF IInv, IdleProcess, RecoveryAtWork, ThreadAtWork, Running, vars
  <2>3. ASSUME NEW s \in Sessions PROVE Untouched(s)
    BY <1>11 DEF Untouched, vars
  <2> QED  BY <2>1, <2>2, <2>3, UntouchedSession DEF IInv
<1> QED  BY <1>1, <1>2, <1>3, <1>4, <1>5, <1>6, <1>7, <1>8, <1>9, <1>10, <1>11 DEF Next

(* The inductive invariant holds in every reachable state.                   *)
THEOREM Invariant == Spec => []IInv
BY InvInit, InvNext, PTL DEF Spec

(* All state keeps its type and the queue stays within queue_max_events,     *)
(* whatever the sessions, the writer thread and crashes do (put_nowait and   *)
(* the bounded puts of the control commands).                                *)
THEOREM TypeCorrect == Spec => []TypeOK
<1>1. IInv => TypeOK
  BY DEF IInv
<1> QED  BY <1>1, Invariant, PTL

(* A manifest that says COMPLETE is honest: every read of both directions is *)
(* on disk, byte for byte, between two EOFs (_SessionSpool.finalize).        *)
THEOREM CompleteHonest == Spec => []CompleteIsHonest
<1>1. IInv => CompleteIsHonest
  BY DEF IInv, SessionInv, Sealed, CompleteIsHonest
<1> QED  BY <1>1, Invariant, PTL

(* A job directory with .ready has its final name, the manifest the marker   *)
(* was made from and files of the recorded sizes (_publish_ready).           *)
THEOREM ReadyBinds == Spec => []ReadyBindsFiles
<1>1. ASSUME IInv, NEW s \in Sessions, ready[s] # NoManifest
      PROVE  dir[s] = "final" /\ manifest[s] = ready[s] /\ manifest[s].files = raw[s]
  BY <1>1 DEF IInv, SessionInv, Sealed
<1>2. IInv => ReadyBindsFiles
  BY <1>1 DEF ReadyBindsFiles
<1> QED  BY <1>2, Invariant, PTL

(***************************************************************************)
(* What no step does to the files of a job.                                *)
(***************************************************************************)

(* The directory of s is as it was.                                          *)
JobKept(s) ==
    /\ dir'[s] = dir[s]
    /\ sfile'[s] = sfile[s]
    /\ raw'[s] = raw[s]
    /\ timeline'[s] = timeline[s]
    /\ tail'[s] = tail[s]
    /\ manifest'[s] = manifest[s]
    /\ ready'[s] = ready[s]

(* Nothing of what s captured is gone.                                       *)
JobGrows(s) ==
    /\ \A d \in Direction : raw[s][d] <= raw'[s][d]
    /\ Len(timeline[s]) <= Len(timeline'[s])
    /\ SubSeq(timeline'[s], 1, Len(timeline[s])) = timeline[s]

(* A timeline is its own prefix, and stays one when a record is appended.    *)
LEMMA TimelinePrefix ==
    ASSUME NEW t \in Seq(CaptureEvent), NEW e \in CaptureEvent
    PROVE  /\ SubSeq(t, 1, Len(t)) = t
           /\ SubSeq(Append(t, e), 1, Len(t)) = t
           /\ Len(t) <= Len(t)
           /\ Len(t) <= Len(Append(t, e))
<1>1. Len(t) \in Nat /\ Append(t, e) \in Seq(CaptureEvent) /\ Len(Append(t, e)) = Len(t) + 1
  OBVIOUS
<1>2. SubSeq(t, 1, Len(t)) = t
  OBVIOUS
<1>3. SubSeq(Append(t, e), 1, Len(t)) = t
  <2> DEFINE u == SubSeq(Append(t, e), 1, Len(t))
  <2>1. u \in Seq(CaptureEvent) /\ Len(u) = Len(t)
    BY <1>1
  <2>2. \A i \in 1 .. Len(t) : u[i] = t[i]
    BY <1>1
  <2> QED  BY <2>1, <2>2
<1> QED  BY <1>1, <1>2, <1>3

(* Steps that leave the disk alone.                                          *)
LEMMA DiskKept ==
    ASSUME TypeOK, UNCHANGED diskVars, NEW s \in Sessions
    PROVE  JobKept(s) /\ JobGrows(s)
<1>1. /\ raw \in [Sessions -> [Direction -> Nat]]
      /\ timeline[s] \in Seq(CaptureEvent)
  BY DEF TypeOK
<1>2. SubSeq(timeline[s], 1, Len(timeline[s])) = timeline[s] /\ Len(timeline[s]) \in Nat
  BY <1>1
<1> QED  BY <1>1, <1>2 DEF JobKept, JobGrows, diskVars

(* Only an append changes the RAW files or the timeline.                     *)
LEMMA EvidenceKept ==
    ASSUME TypeOK, UNCHANGED <<raw, timeline>>, NEW s \in Sessions
    PROVE  JobGrows(s)
<1>1. /\ raw \in [Sessions -> [Direction -> Nat]]
      /\ timeline[s] \in Seq(CaptureEvent)
  BY DEF TypeOK
<1>2. SubSeq(timeline[s], 1, Len(timeline[s])) = timeline[s] /\ Len(timeline[s]) \in Nat
  BY <1>1
<1> QED  BY <1>1, <1>2 DEF JobGrows

(* append() adds to the files of its session and no other.                   *)
LEMMA AppendGrows ==
    ASSUME TypeOK, NEW a \in Sessions, NEW ev \in CaptureEvent,
           AppendDone(a, ev) \/ AppendFails(a, ev), NEW s \in Sessions
    PROVE  JobGrows(s)
<1>1. /\ raw \in [Sessions -> [Direction -> Nat]]
      /\ timeline \in [Sessions -> Seq(CaptureEvent)]
      /\ ev.direction \in Direction /\ ev.length \in Nat
  BY DEF TypeOK, CaptureEvent
<1>2. \/ raw' = raw
      \/ \E n \in Nat : raw' = [raw EXCEPT ![a][ev.direction] = @ + n]
  <2>0. ev.length \in Nat
    BY <1>1
  <2>1. ASSUME AppendDone(a, ev)
        PROVE  \E n \in Nat : raw' = [raw EXCEPT ![a][ev.direction] = @ + n]
    BY <2>0, <2>1 DEF AppendDone
  <2>2. ASSUME AppendFails(a, ev)
        PROVE  \/ raw' = raw
               \/ \E n \in Nat : raw' = [raw EXCEPT ![a][ev.direction] = @ + n]
    BY <2>0, <2>2, SMTT(30) DEF AppendFails
  <2> QED  BY <2>1, <2>2
<1>3. timeline' = timeline \/ timeline' = [timeline EXCEPT ![a] = Append(timeline[a], ev)]
  BY DEF AppendDone, AppendFails
<1>4. ASSUME NEW d \in Direction
      PROVE  raw[s][d] <= raw'[s][d]
  <2>1. ASSUME NEW n \in Nat, raw' = [raw EXCEPT ![a][ev.direction] = @ + n]
        PROVE  raw[s][d] <= raw'[s][d]
    BY <1>1, <2>1
  <2>2. raw[s][d] <= raw[s][d]
    BY <1>1
  <2> QED  BY <1>2, <2>1, <2>2
<1>5. timeline'[s] = timeline[s] \/ timeline'[s] = Append(timeline[s], ev)
  BY <1>1, <1>3
<1> QED  BY <1>1, <1>4, <1>5, TimelinePrefix DEF JobGrows

(* An unpublished job may change, a published one does not, and neither      *)
(* loses evidence: one step per action that writes to a job directory.       *)
LEMMA StepKeepsJobs ==
    ASSUME IInv, [Next]_vars, NEW s \in Sessions
    PROVE  (ready[s] # NoManifest => JobKept(s)) /\ JobGrows(s)
<1>0. TypeOK /\ SessionInv(s)
  BY DEF IInv
<1>1. CASE UNCHANGED diskVars
  BY <1>0, <1>1, DiskKept
<1>2. CASE WorkerOpen
  <2>1. PICK a \in Sessions : a = Head(queue).s /\ Head(queue).op = "open" /\ Head(queue) = queue[1]
                              /\ 1 \in Positions(queue)
    BY <1>0, <1>2, HeadTypes, CommandFields DEF WorkerOpen, Positions
  <2>2. ready[a] = NoManifest
    BY <2>1 DEF IInv, SessionInv, NotOpened, Sealed, OpenAt
  <2>3. /\ dir' = dir \/ dir' = [dir EXCEPT ![a] = "partial"]
        /\ sfile' = sfile \/ sfile' = [sfile EXCEPT ![a] = "ok"]
        /\ UNCHANGED <<raw, timeline, tail, manifest, ready>>
    BY <1>2, <2>1 DEF WorkerOpen
  <2>4. s # a => dir'[s] = dir[s] /\ sfile'[s] = sfile[s]
    BY <1>0, <2>3 DEF TypeOK
  <2> QED  BY <1>0, <2>2, <2>3, <2>4, EvidenceKept DEF JobKept
<1>3. CASE WorkerEvent
  <2>1. PICK a \in Sessions, ev \in CaptureEvent : a = Head(queue).s /\ ev = Head(queue).ev
    BY <1>0, <1>3, HeadTypes, CommandFields DEF WorkerEvent
  <2>2. /\ \/ writer[a].open /\ (AppendDone(a, ev) \/ AppendFails(a, ev))
           \/ UNCHANGED <<raw, timeline, tail>>
        /\ UNCHANGED <<dir, sfile, manifest, ready>>
    BY <1>3, <2>1 DEF WorkerEvent
  <2>3. CASE UNCHANGED <<raw, timeline, tail>>
    BY <1>0, <2>2, <2>3, DiskKept DEF diskVars
  <2>4. CASE writer[a].open /\ (AppendDone(a, ev) \/ AppendFails(a, ev))
    <3>1. ready[a] = NoManifest
      BY <2>4 DEF IInv, SessionInv, OpenWriter, Sealed
    <3>2. JobGrows(s)
      BY <1>0, <2>4, AppendGrows
    <3>3. s # a => raw'[s] = raw[s] /\ timeline'[s] = timeline[s] /\ tail'[s] = tail[s]
      BY <1>0, <2>4, AppendFrame
    <3> QED  BY <2>2, <3>1, <3>2, <3>3 DEF JobKept
  <2> QED  BY <2>2, <2>3, <2>4
<1>4. CASE WorkerClose
  <2>1. PICK a \in Sessions : a = Head(queue).s
    BY <1>0, <1>4, HeadTypes, CommandFields DEF WorkerClose
  <2>2. /\ \/ manifest' = manifest
           \/ writer[a].open /\ \E m : manifest' = [manifest EXCEPT ![a] = m]
        /\ UNCHANGED <<dir, sfile, raw, timeline, tail, ready>>
    BY <1>4, <2>1 DEF WorkerClose
  <2>3. writer[a].open => ready[a] = NoManifest
    BY DEF IInv, SessionInv, OpenWriter, Sealed
  <2>4. s # a => manifest'[s] = manifest[s]
    BY <1>0, <2>2 DEF TypeOK
  <2> QED  BY <1>0, <2>2, <2>3, <2>4, EvidenceKept DEF JobKept
<1>5. CASE WorkerRename \/ WorkerReady
  <2>1. work.s \in Sessions /\ ready[work.s] = NoManifest
    BY <1>5 DEF IInv, ThreadAtWork, WorkerRename, WorkerReady
  <2>2. /\ dir' = dir \/ dir' = [dir EXCEPT ![work.s] = "final"]
        /\ ready' = ready \/ ready' = [ready EXCEPT ![work.s] = manifest[work.s]]
        /\ UNCHANGED <<sfile, raw, timeline, tail, manifest>>
    BY <1>5 DEF WorkerRename, WorkerReady
  <2>3. s # work.s => dir'[s] = dir[s] /\ ready'[s] = ready[s]
    BY <1>0, <2>2 DEF TypeOK
  <2> QED  BY <1>0, <2>1, <2>2, <2>3, EvidenceKept DEF JobKept
<1>6. ASSUME NEW a \in Sessions, RecoverDistrust(a) \/ RecoverBuild(a)
      PROVE  (ready[s] # NoManifest => JobKept(s)) /\ JobGrows(s)
  <2>1. /\ ready[a] = NoManifest
        /\ sfile' = sfile \/ \E x : sfile' = [sfile EXCEPT ![a] = x]
        /\ raw' = raw \/ raw' = [raw EXCEPT ![a] = raw[a]]
        /\ \E x : manifest' = [manifest EXCEPT ![a] = x]
        /\ UNCHANGED <<dir, timeline, tail, ready>>
    BY <1>6 DEF RecoverDistrust, RecoverBuild, Published, RecoveredRaw
  <2>2. raw' = raw
    BY <1>0, <2>1 DEF TypeOK
  <2>3. s # a => sfile'[s] = sfile[s] /\ manifest'[s] = manifest[s]
    BY <1>0, <2>1 DEF TypeOK
  <2> QED  BY <1>0, <2>1, <2>2, <2>3, EvidenceKept DEF JobKept
<1>7. CASE RecoverRename \/ RecoverReady
  <2>1. rec.s \in Sessions /\ ready[rec.s] = NoManifest
    BY <1>7 DEF IInv, RecoveryAtWork, RecoverRename, RecoverReady
  <2>2. /\ dir' = dir \/ dir' = [dir EXCEPT ![rec.s] = "final"]
        /\ ready' = ready \/ ready' = [ready EXCEPT ![rec.s] = manifest[rec.s]]
        /\ UNCHANGED <<sfile, raw, timeline, tail, manifest>>
    BY <1>7 DEF RecoverRename, RecoverReady
  <2>3. s # rec.s => dir'[s] = dir[s] /\ ready'[s] = ready[s]
    BY <1>0, <2>2 DEF TypeOK
  <2> QED  BY <1>0, <2>1, <2>2, <2>3, EvidenceKept DEF JobKept
<1>8. CASE UNCHANGED vars
  BY <1>1, <1>8 DEF vars, diskVars
<1>9. CASE Next
  <2>1. ASSUME NEW a \in Sessions,
               \/ OpenSession(a) \/ EndPumps(a) \/ LoseFinalizer(a) \/ PutClose(a)
               \/ PutCloseTimeout(a) \/ CancelFinalizer(a) \/ FinalizerReturns(a)
               \/ NotifyFailure(a) \/ RecoverSkip(a) \/ RecoverKeepManifest(a)
               \/ (\E d \in Direction : Record(a, d) \/ Observe(a, d, "eof", 0))
               \/ (\E d \in Direction, n \in ChunkSizes : Observe(a, d, "data", n))
               \/ (\E tc \in BOOLEAN : Finalize(a, tc))
        PROVE  UNCHANGED diskVars
    BY <2>1, Zenon DEF OpenSession, EndPumps, LoseFinalizer, PutClose, PutCloseTimeout,
         CancelFinalizer, FinalizerReturns, NotifyFailure, RecoverSkip, RecoverKeepManifest,
         Record, Observe, Finalize
  <2>2. ASSUME \/ WorkerCheckDone \/ WorkerSet \/ WorkerStop \/ Start \/ StartDone
               \/ StopManager \/ Stopped \/ Crash \/ RecoveryFails
        PROVE  UNCHANGED diskVars
    BY <2>2 DEF WorkerCheckDone, WorkerSet, WorkerStop, Start, StartDone, StopManager,
         Stopped, Crash, RecoveryFails, ProcessGone
  <2> QED  BY <1>1, <1>2, <1>3, <1>4, <1>5, <1>6, <1>7, <1>9, <2>1, <2>2, SMTT(30)
           DEF Next, WorkerStep, RecoverStep
<1> QED  BY <1>8, <1>9

(* Nothing changes in a published job directory again: no late event, second *)
(* close, crash or recovery touches it.                                      *)
THEOREM PublishedImmutable == Spec => PublishedIsImmutable
<1>1. IInv /\ [Next]_vars =>
        [\A s \in Sessions :
            ready[s] # NoManifest =>
                /\ dir'[s] = dir[s]
                /\ sfile'[s] = sfile[s]
                /\ raw'[s] = raw[s]
                /\ timeline'[s] = timeline[s]
                /\ tail'[s] = tail[s]
                /\ manifest'[s] = manifest[s]
                /\ ready'[s] = ready[s]]_vars
  BY StepKeepsJobs DEF JobKept
<1> QED  BY <1>1, Invariant, PTL DEF Spec, PublishedIsImmutable

(* RAW bytes and timeline records are never taken back, by the writer thread *)
(* or by the recovery of a crashed process.                                  *)
THEOREM EvidenceGrows == Spec => EvidenceOnlyGrows
<1>1. IInv /\ [Next]_vars =>
        [\A s \in Sessions :
            /\ \A d \in Direction : raw[s][d] <= raw'[s][d]
            /\ Len(timeline[s]) <= Len(timeline'[s])
            /\ SubSeq(timeline'[s], 1, Len(timeline[s])) = timeline[s]]_vars
  BY StepKeepsJobs DEF JobGrows
<1> QED  BY <1>1, Invariant, PTL DEF Spec, EvidenceOnlyGrows
=============================================================================
