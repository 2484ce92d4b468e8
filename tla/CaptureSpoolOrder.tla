-------------------------- MODULE CaptureSpoolOrder --------------------------
(***************************************************************************)
(* OrderInv, the invariant of the numbering, is kept by every action of    *)
(* CaptureSpool.  From it: the order checks of append() never fail on      *)
(* their own, the timeline is a gapless prefix of what was read, the       *)
(* canonical adapter accepts what the capture publishes, and the capture   *)
(* implements JobEvidence.                                                 *)
(***************************************************************************)
EXTENDS CaptureSpoolProofs, CaptureImport

(***************************************************************************)
(* Numbers behind a queue that changes.                                    *)
(***************************************************************************)

(* The head was taken, and the writer went from w to v.                      *)
LEMMA TailFollows ==
    ASSUME NEW s \in Sessions, NEW q \in Seq(Command), q # <<>>, NEW w, NEW v,
           NEW p \in 1 .. Len(q)
    PROVE  /\ \A n : /\ FollowsEvent(q, w, s, n, p + 1)
                     /\ w.next = n => v.next = n
                     /\ EventAt(q, s, 1) /\ q[1].ev.sequence + 1 = n => v.next = n
                     => FollowsEvent(Tail(q), v, s, n, p)
           /\ \A d, m, o :
                  /\ FollowsRead(q, w, s, d, m, o, p + 1)
                  /\ w.dirseq[d] = m /\ w.bytes[d] = o => v.dirseq[d] = m /\ v.bytes[d] = o
                  /\ /\ EventAt(q, s, 1) /\ q[1].ev.direction = d /\ q[1].ev.dirseq + 1 = m
                     /\ q[1].ev.offset + q[1].ev.length = o
                     => v.dirseq[d] = m /\ v.bytes[d] = o
                  => FollowsRead(Tail(q), v, s, d, m, o, p)
<1>1. Shifted(q, s) /\ Len(q) \in Nat
  BY TailPositions
<1>2. ASSUME NEW k \in 1 .. p, k # 1
      PROVE  /\ k - 1 \in 1 .. p - 1
             /\ Tail(q)[k - 1] = q[k]
             /\ EventAt(Tail(q), s, k - 1) <=> EventAt(q, s, k)
  <2>1. k \in Positions(q) \ {1} /\ k - 1 \in 1 .. p - 1
    BY <1>1, <1>2 DEF Positions
  <2> QED  BY <1>1, <2>1 DEF Shifted
<1>3. (p + 1) - 1 = p
  OBVIOUS
<1>4. ASSUME NEW n, FollowsEvent(q, w, s, n, p + 1), w.next = n => v.next = n,
             EventAt(q, s, 1) /\ q[1].ev.sequence + 1 = n => v.next = n
      PROVE  FollowsEvent(Tail(q), v, s, n, p)
  <2>1. CASE w.next = n
    BY <1>4, <2>1 DEF FollowsEvent
  <2>2. CASE \E k \in 1 .. p : EventAt(q, s, k) /\ q[k].ev.sequence + 1 = n
    BY <1>2, <1>4, <2>2 DEF FollowsEvent
  <2> QED  BY <1>3, <1>4, <2>1, <2>2 DEF FollowsEvent
<1>5. ASSUME NEW d, NEW m, NEW o, FollowsRead(q, w, s, d, m, o, p + 1),
             w.dirseq[d] = m /\ w.bytes[d] = o => v.dirseq[d] = m /\ v.bytes[d] = o,
             /\ EventAt(q, s, 1) /\ q[1].ev.direction = d /\ q[1].ev.dirseq + 1 = m
             /\ q[1].ev.offset + q[1].ev.length = o
             => v.dirseq[d] = m /\ v.bytes[d] = o
      PROVE  FollowsRead(Tail(q), v, s, d, m, o, p)
  <2>1. CASE w.dirseq[d] = m /\ w.bytes[d] = o
    BY <1>5, <2>1 DEF FollowsRead
  <2>2. CASE \E k \in 1 .. p : /\ EventAt(q, s, k) /\ q[k].ev.direction = d
                               /\ q[k].ev.dirseq + 1 = m
                               /\ q[k].ev.offset + q[k].ev.length = o
    BY <1>2, <1>5, <2>2 DEF FollowsRead
  <2> QED  BY <1>3, <1>5, <2>1, <2>2 DEF FollowsRead
<1> QED  BY <1>4, <1>5

(* A command was put.                                                        *)
LEMMA AppendFollows ==
    ASSUME NEW s \in Sessions, NEW q \in Seq(Command), NEW c \in Command, NEW w,
           NEW p \in 1 .. Len(q) + 1
    PROVE  /\ \A n : FollowsEvent(q, w, s, n, p) =>
                  /\ FollowsEvent(Append(q, c), w, s, n, p)
                  /\ FollowsEvent(Append(q, c), w, s, n, p + 1)
           /\ \A d, m, o : FollowsRead(q, w, s, d, m, o, p) =>
                  /\ FollowsRead(Append(q, c), w, s, d, m, o, p)
                  /\ FollowsRead(Append(q, c), w, s, d, m, o, p + 1)
<1> DEFINE r == Append(q, c)
<1>1. Extended(q, r, c, s)
  BY AppendPositions
<1> HIDE DEF r
<1>2. ASSUME NEW k \in 1 .. p - 1
      PROVE  /\ k \in 1 .. (p + 1) - 1
             /\ r[k] = q[k]
             /\ EventAt(r, s, k) <=> EventAt(q, s, k)
  <2>1. k \in Positions(q) /\ k \in 1 .. (p + 1) - 1
    BY DEF Positions
  <2> QED  BY <1>1, <2>1 DEF Extended
<1>3. ASSUME NEW n, FollowsEvent(q, w, s, n, p)
      PROVE  FollowsEvent(r, w, s, n, p) /\ FollowsEvent(r, w, s, n, p + 1)
  BY <1>2, <1>3 DEF FollowsEvent
<1>4. ASSUME NEW d, NEW m, NEW o, FollowsRead(q, w, s, d, m, o, p)
      PROVE  FollowsRead(r, w, s, d, m, o, p) /\ FollowsRead(r, w, s, d, m, o, p + 1)
  BY <1>2, <1>4 DEF FollowsRead
<1> QED  BY <1>3, <1>4 DEF r

(* The queue goes from q to r and the session's writer from w to v: its      *)
(* events stay in order, and what was next behind them still is.             *)
KeepsOrder(q, r, w, v, s) ==
    /\ Rising(r, s)
    /\ Chained(r, v, s)
    /\ Expecting(r, v, s) => Expecting(q, w, s)
    /\ \A i \in Positions(r) :
          EventAt(r, s, i) => \E j \in Positions(q) : EventAt(q, s, j) /\ q[j] = r[i]
    /\ \A n : /\ \A i \in Positions(q) : EventAt(q, s, i) => q[i].ev.sequence < n
              /\ Expecting(r, v, s)
              /\ FollowsEvent(q, w, s, n, Len(q) + 1)
              => FollowsEvent(r, v, s, n, Len(r) + 1)
    /\ \A d \in Direction : \A m, o :
          /\ \A i \in Positions(q) :
                EventAt(q, s, i) /\ q[i].ev.direction = d => q[i].ev.dirseq < m
          /\ Expecting(r, v, s)
          /\ FollowsRead(q, w, s, d, m, o, Len(q) + 1)
          => FollowsRead(r, v, s, d, m, o, Len(r) + 1)

(* Nothing changed.                                                          *)
LEMMA KeepSame ==
    ASSUME NEW q, NEW w, NEW s, Rising(q, s), Chained(q, w, s)
    PROVE  KeepsOrder(q, q, w, w, s)
BY DEF KeepsOrder

(* A command joins the queue that is no open and no event of the session.    *)
LEMMA KeepAppend ==
    ASSUME NEW s \in Sessions, NEW q \in Seq(Command), NEW c \in Command, NEW w,
           c.op \in {"stop", "close"} \/ c.s # s, Rising(q, s), Chained(q, w, s)
    PROVE  KeepsOrder(q, Append(q, c), w, w, s)
<1> DEFINE r == Append(q, c)
<1>1. Extended(q, r, c, s) /\ Len(q) \in Nat /\ Len(r) = Len(q) + 1
  BY AppendPositions, AppendToQueue
<1>2. ASSUME NEW p \in 1 .. Len(q) + 1
      PROVE  /\ \A n : FollowsEvent(q, w, s, n, p) =>
                    FollowsEvent(r, w, s, n, p) /\ FollowsEvent(r, w, s, n, p + 1)
             /\ \A d, m, o : FollowsRead(q, w, s, d, m, o, p) =>
                    FollowsRead(r, w, s, d, m, o, p) /\ FollowsRead(r, w, s, d, m, o, p + 1)
  BY AppendFollows
<1> HIDE DEF r
<1>3. ~EventAt(r, s, Len(q) + 1) /\ ~OpenAt(r, s, Len(q) + 1)
  BY <1>1 DEF Extended, EventAt, OpenAt
<1>4. \A i \in Positions(r) :
          EventAt(r, s, i) => i \in Positions(q) /\ EventAt(q, s, i) /\ q[i] = r[i]
  BY <1>1, <1>3 DEF Extended
<1>5. Expecting(r, w, s) => Expecting(q, w, s)
  BY <1>1, <1>3 DEF Expecting, Extended
<1>6. Rising(r, s)
  BY <1>4 DEF Rising
<1>7. Chained(r, w, s)
  <2> SUFFICES ASSUME NEW i \in Positions(r), EventAt(r, s, i)
               PROVE  /\ Expecting(r, w, s) =>
                            /\ FollowsEvent(r, w, s, r[i].ev.sequence, i)
                            /\ FollowsRead(r, w, s, r[i].ev.direction, r[i].ev.dirseq, r[i].ev.offset, i)
                      /\ w.open /\ w.errors => r[i].ev.sequence > w.next
    BY DEF Chained
  <2>1. i \in Positions(q) /\ EventAt(q, s, i) /\ q[i] = r[i] /\ i \in 1 .. Len(q) + 1
    BY <1>1, <1>4 DEF Positions
  <2> QED  BY <1>2, <1>5, <2>1 DEF Chained
<1>8. Len(q) + 1 \in 1 .. Len(q) + 1
  BY <1>1
<1>9. /\ \A n : FollowsEvent(q, w, s, n, Len(q) + 1) => FollowsEvent(r, w, s, n, Len(r) + 1)
      /\ \A d, m, o : FollowsRead(q, w, s, d, m, o, Len(q) + 1)
                         => FollowsRead(r, w, s, d, m, o, Len(r) + 1)
  BY <1>1, <1>2, <1>8
<1> QED  BY <1>4, <1>5, <1>6, <1>7, <1>9 DEF KeepsOrder, r

(* The head is taken: no event of the session, or the one the writer counts. *)
TakenByWriter(w, v, e) ==
    /\ e.sequence = w.next /\ v.next = w.next + 1
    /\ e.dirseq = w.dirseq[e.direction]
    /\ v.dirseq[e.direction] = e.dirseq + 1
    /\ v.bytes[e.direction] = e.offset + e.length
    /\ \A d \in Direction \ {e.direction} : v.dirseq[d] = w.dirseq[d] /\ v.bytes[d] = w.bytes[d]

LEMMA KeepTail ==
    ASSUME NEW s \in Sessions, NEW q \in Seq(Command), q # <<>>, NEW w, NEW v,
           Rising(q, s), Chained(q, w, s),
           Expecting(Tail(q), v, s) =>
               /\ Expecting(q, w, s)
               /\ \/ /\ ~EventAt(q, s, 1)
                     /\ v.next = w.next /\ v.dirseq = w.dirseq /\ v.bytes = w.bytes
                  \/ EventAt(q, s, 1) /\ TakenByWriter(w, v, q[1].ev),
           v.open /\ v.errors =>
               \A i \in Positions(q) \ {1} : EventAt(q, s, i) => q[i].ev.sequence > v.next
    PROVE  KeepsOrder(q, Tail(q), w, v, s)
<1> DEFINE r == Tail(q)
<1>1. Shifted(q, s) /\ Len(q) \in Nat \ {0} /\ Len(r) = Len(q) - 1
  BY TailPositions, TailOfQueue
<1>2. \A i \in Positions(q) : q[i] \in Command /\ (EventAt(q, s, i) => q[i].ev \in CaptureEvent)
  <2>1. \A i \in Positions(q) : q[i] \in Command
    BY DEF Positions
  <2> QED  BY <2>1, CommandFields DEF EventAt
<1>3. ASSUME NEW p \in 1 .. Len(q), Expecting(r, v, s)
      PROVE  /\ \A n : /\ FollowsEvent(q, w, s, n, p + 1)
                       /\ EventAt(q, s, 1) => q[1].ev.sequence < n
                       => FollowsEvent(r, v, s, n, p)
             /\ \A d \in Direction : \A m, o :
                    /\ FollowsRead(q, w, s, d, m, o, p + 1)
                    /\ EventAt(q, s, 1) /\ q[1].ev.direction = d => q[1].ev.dirseq < m
                    => FollowsRead(r, v, s, d, m, o, p)
  <2>1. CASE /\ ~EventAt(q, s, 1)
             /\ v.next = w.next /\ v.dirseq = w.dirseq /\ v.bytes = w.bytes
    BY <2>1, TailFollows
  <2>2. CASE EventAt(q, s, 1) /\ TakenByWriter(w, v, q[1].ev)
    <3>1. q[1].ev.sequence \in Nat /\ q[1].ev.dirseq \in Nat
      BY <1>1, <1>2, <2>2 DEF CaptureEvent, Shifted
    <3>2. ASSUME NEW n, FollowsEvent(q, w, s, n, p + 1), q[1].ev.sequence < n
          PROVE  FollowsEvent(r, v, s, n, p)
      <4>1. w.next = n => v.next = n
        BY <2>2, <3>1, <3>2 DEF TakenByWriter
      <4>2. EventAt(q, s, 1) /\ q[1].ev.sequence + 1 = n => v.next = n
        BY <2>2 DEF TakenByWriter
      <4> QED  BY <3>2, <4>1, <4>2, TailFollows
    <3>3. ASSUME NEW d \in Direction, NEW m, NEW o, FollowsRead(q, w, s, d, m, o, p + 1),
                 q[1].ev.direction = d => q[1].ev.dirseq < m
          PROVE  FollowsRead(r, v, s, d, m, o, p)
      <4>1. w.dirseq[d] = m /\ w.bytes[d] = o => v.dirseq[d] = m /\ v.bytes[d] = o
        BY <2>2, <3>1, <3>3 DEF TakenByWriter
      <4>2. /\ EventAt(q, s, 1) /\ q[1].ev.direction = d /\ q[1].ev.dirseq + 1 = m
            /\ q[1].ev.offset + q[1].ev.length = o
            => v.dirseq[d] = m /\ v.bytes[d] = o
        BY <2>2 DEF TakenByWriter
      <4> QED  BY <3>3, <4>1, <4>2, TailFollows
    <3> QED  BY <2>2, <3>2, <3>3
  <2> QED  BY <1>3, <2>1, <2>2
<1> HIDE DEF r
<1>4. \A i \in Positions(r) :
          /\ i + 1 \in Positions(q) \ {1} /\ q[i + 1] = r[i]
          /\ EventAt(r, s, i) <=> EventAt(q, s, i + 1)
  BY <1>1 DEF Shifted, r, Positions
<1>5. Rising(r, s)
  <2> SUFFICES ASSUME NEW i \in Positions(r), NEW j \in Positions(r), i < j,
                      EventAt(r, s, i), EventAt(r, s, j)
               PROVE  /\ r[i].ev.sequence < r[j].ev.sequence
                      /\ r[i].ev.observed # r[j].ev.observed
                      /\ r[i].ev.direction = r[j].ev.direction => r[i].ev.dirseq < r[j].ev.dirseq
    BY DEF Rising
  <2>1. i + 1 < j + 1
    BY <1>1 DEF Positions
  <2> QED  BY <1>4, <2>1 DEF Rising
<1>6. Chained(r, v, s)
  <2> SUFFICES ASSUME NEW i \in Positions(r), EventAt(r, s, i)
               PROVE  /\ Expecting(r, v, s) =>
                            /\ FollowsEvent(r, v, s, r[i].ev.sequence, i)
                            /\ FollowsRead(r, v, s, r[i].ev.direction, r[i].ev.dirseq, r[i].ev.offset, i)
                      /\ v.open /\ v.errors => r[i].ev.sequence > v.next
    BY DEF Chained
  <2>1. /\ i + 1 \in Positions(q) \ {1} /\ q[i + 1] = r[i] /\ EventAt(q, s, i + 1)
        /\ i \in 1 .. Len(q) /\ 1 \in Positions(q) /\ 1 < i + 1
    BY <1>1, <1>4 DEF Positions, Shifted
  <2>2. r[i].ev.direction \in Direction
    BY <1>2, <2>1 DEF CaptureEvent
  <2>3. EventAt(q, s, 1) => /\ q[1].ev.sequence < r[i].ev.sequence
                            /\ q[1].ev.direction = r[i].ev.direction => q[1].ev.dirseq < r[i].ev.dirseq
    BY <2>1 DEF Rising
  <2>4. v.open /\ v.errors => r[i].ev.sequence > v.next
    BY <2>1
  <2>5. ASSUME Expecting(r, v, s)
        PROVE  /\ FollowsEvent(r, v, s, r[i].ev.sequence, i)
               /\ FollowsRead(r, v, s, r[i].ev.direction, r[i].ev.dirseq, r[i].ev.offset, i)
    <3>1. Expecting(q, w, s)
      BY <2>5 DEF r
    <3>2. /\ FollowsEvent(q, w, s, r[i].ev.sequence, i + 1)
          /\ FollowsRead(q, w, s, r[i].ev.direction, r[i].ev.dirseq, r[i].ev.offset, i + 1)
      BY <2>1, <3>1 DEF Chained
    <3> QED  BY <1>3, <2>1, <2>2, <2>3, <2>5, <3>2
  <2> QED  BY <2>4, <2>5
<1>7. ASSUME NEW n, \A i \in Positions(q) : EventAt(q, s, i) => q[i].ev.sequence < n,
             Expecting(r, v, s), FollowsEvent(q, w, s, n, Len(q) + 1)
      PROVE  FollowsEvent(r, v, s, n, Len(r) + 1)
  <2>1. Len(q) \in 1 .. Len(q) /\ Len(r) + 1 = Len(q) /\ 1 \in Positions(q)
    BY <1>1 DEF Shifted
  <2> QED  BY <1>3, <1>7, <2>1
<1>8. ASSUME NEW d \in Direction, NEW m, NEW o,
             \A i \in Positions(q) : EventAt(q, s, i) /\ q[i].ev.direction = d => q[i].ev.dirseq < m,
             Expecting(r, v, s), FollowsRead(q, w, s, d, m, o, Len(q) + 1)
      PROVE  FollowsRead(r, v, s, d, m, o, Len(r) + 1)
  <2>1. Len(q) \in 1 .. Len(q) /\ Len(r) + 1 = Len(q) /\ 1 \in Positions(q)
    BY <1>1 DEF Shifted
  <2> QED  BY <1>3, <1>8, <2>1
<1>9. Expecting(r, v, s) => Expecting(q, w, s)
  BY DEF r
<1> QED  BY <1>4, <1>5, <1>6, <1>7, <1>8, <1>9 DEF KeepsOrder, r

(***************************************************************************)
(* Frames: what a step leaves of a session's numbering.                    *)
(***************************************************************************)

(* The queue as a session sees it that the step does not touch.              *)
LEMMA UntouchedKeeps ==
    ASSUME TypeOK, NEW s \in Sessions, SessionOrder(s), Untouched(s)
    PROVE  KeepsOrder(queue, queue', writer[s], writer'[s], s)
<1>0. queue \in Seq(Command) /\ Rising(queue, s) /\ Chained(queue, writer[s], s)
  BY DEF TypeOK, SessionOrder
<1>1. writer'[s] = writer[s]
  BY DEF Untouched
<1>2. CASE queue' = queue
  BY <1>0, <1>1, <1>2, KeepSame
<1>3. CASE \E c \in Command : (c.op = "stop" \/ c.s # s) /\ queue' = Append(queue, c)
  BY <1>0, <1>1, <1>3, KeepAppend
<1>4. CASE /\ queue # <<>>
           /\ Head(queue).op = "stop" \/ Head(queue).s # s
           /\ queue' = Tail(queue)
  <2>1. Shifted(queue, s) /\ ~EventAt(queue, s, 1)
    BY <1>0, <1>4, TailPositions, TailOfQueue DEF EventAt
  <2>2. Expecting(Tail(queue), writer[s], s) => Expecting(queue, writer[s], s)
    BY <2>1 DEF Expecting, Shifted
  <2>3. writer[s].open /\ writer[s].errors =>
            \A i \in Positions(queue) \ {1} :
                EventAt(queue, s, i) => queue[i].ev.sequence > writer[s].next
    BY <1>0 DEF Chained
  <2> QED  BY <1>0, <1>1, <1>4, <2>1, <2>2, <2>3, KeepTail
<1> QED  BY <1>2, <1>3, <1>4 DEF Untouched

(* The session goes on with the same counters, or is over; the timeline has  *)
(* at most taken an event from the queue.                                    *)
GoesOn(s) ==
    /\ cnt'[s] = cnt[s]
    /\ pump'[s] = pump[s]
    /\ cap'[s].st = "new" => cap[s].st = "new"
    /\ cap'[s].st = "live" =>
          /\ cap[s].st = "live"
          /\ cap'[s].sequence = cap[s].sequence
          /\ cap'[s].accepting => cap[s].accepting
          /\ held'[s] = held[s]
Unrecorded(s) ==
    /\ \A k \in DOMAIN timeline'[s] :
          \/ \E j \in DOMAIN timeline[s] : timeline'[s][k].observed = timeline[s][j].observed
          \/ \E j \in Positions(queue) : /\ EventAt(queue, s, j)
                                         /\ timeline'[s][k].observed = queue[j].ev.observed
    /\ \A i \in Positions(queue') : \A k \in DOMAIN timeline'[s] :
          EventAt(queue', s, i) => timeline'[s][k].observed # queue'[i].ev.observed

LEMMA NumbersKept ==
    ASSUME NEW s \in Sessions, SessionOrder(s), GoesOn(s), Unrecorded(s),
           KeepsOrder(queue, queue', writer[s], writer'[s], s),
           cap[s].st = "live" /\ writer'[s].open /\ writer'[s].errors
               => cap[s].sequence > writer'[s].next
    PROVE  /\ Rising(queue, s)' /\ Chained(queue, writer[s], s)' /\ QueuedReads(s)'
           /\ NewNumbers(s)' /\ LiveNumbers(s)'
<1>1. Rising(queue, s)' /\ Chained(queue, writer[s], s)'
  BY DEF KeepsOrder
<1>2. \A i \in Positions(queue') :
         EventAt(queue', s, i) =>
             \E j \in Positions(queue) : EventAt(queue, s, j) /\ queue[j] = queue'[i]
  BY DEF KeepsOrder
<1>3. QueuedReads(s)'
  BY <1>2 DEF SessionOrder, QueuedReads, GoesOn, Unrecorded
<1>4. NewNumbers(s)'
  BY DEF SessionOrder, NewNumbers, GoesOn
<1>5. ASSUME cap'[s].st = "live"
      PROVE  LiveNumbers(s)'
  <2>1. /\ cap[s].st = "live" /\ cap'[s].sequence = cap[s].sequence
        /\ cap'[s].accepting => cap[s].accepting
        /\ held'[s] = held[s] /\ cnt'[s] = cnt[s] /\ pump'[s] = pump[s]
    BY <1>5 DEF GoesOn
  <2>2. LiveNumbers(s)
    BY DEF SessionOrder
  <2>3. \A d \in Direction : /\ NextDirseq(s, d)' = NextDirseq(s, d)
                             /\ NextOffset(s, d)' = NextOffset(s, d)
                             /\ Holding(s, d)' = Holding(s, d)
    BY <2>1 DEF NextDirseq, NextOffset, Holding
  <2>4. (cap[s].sequence + Holding(s, "client") + Holding(s, "device") <= cnt[s].events)'
    BY <2>1, <2>2, <2>3 DEF LiveNumbers, Direction
  <2>5. ASSUME NEW d \in Direction, pump[s][d] = "held"
        PROVE  HeldRead(s, d)'
    <3>1. HeldRead(s, d)
      BY <2>1, <2>2, <2>5 DEF LiveNumbers
    <3>2. \A i \in Positions(queue') :
              EventAt(queue', s, i) => queue'[i].ev.observed # held[s][d].observed
      BY <1>2, <3>1 DEF HeldRead
    <3>3. \A k \in DOMAIN timeline'[s] : timeline'[s][k].observed # held[s][d].observed
      BY <3>1 DEF HeldRead, Unrecorded
    <3> QED  BY <2>1, <3>1, <3>2, <3>3 DEF HeldRead
  <2>6. (\A d \in Direction : pump'[s][d] = "held")
            => held'[s]["client"].observed # held'[s]["device"].observed
    BY <2>1, <2>2 DEF LiveNumbers
  <2>7. ASSUME NEW i \in Positions(queue'), EventAt(queue', s, i)
        PROVE  /\ queue'[i].ev.sequence < cap'[s].sequence
               /\ (pump[s][queue[i].ev.direction] \in {"read", "held"} =>
                      queue[i].ev.dirseq < NextDirseq(s, queue[i].ev.direction))'
    <3>1. PICK j \in Positions(queue) : EventAt(queue, s, j) /\ queue[j] = queue'[i]
      BY <1>2, <2>7
    <3>2. NextDirseq(s, queue[i].ev.direction)' = NextDirseq(s, queue[j].ev.direction)
      BY <2>1, <3>1 DEF NextDirseq
    <3> QED  BY <2>1, <2>2, <3>1, <3>2 DEF LiveNumbers
  <2>8. ASSUME cap'[s].accepting, Expecting(queue', writer'[s], s)
        PROVE  /\ FollowsEvent(queue', writer'[s], s, cap'[s].sequence, Len(queue') + 1)
               /\ \A d \in Direction :
                     pump'[s][d] \in {"read", "held"} =>
                         FollowsRead(queue', writer'[s], s, d, NextDirseq(s, d)', NextOffset(s, d)',
                                     Len(queue') + 1)
    <3>1. cap[s].accepting /\ Expecting(queue, writer[s], s)
      BY <2>1, <2>8 DEF KeepsOrder
    <3>2. FollowsEvent(queue', writer'[s], s, cap[s].sequence, Len(queue') + 1)
      <4>1. /\ \A i \in Positions(queue) : EventAt(queue, s, i) => queue[i].ev.sequence < cap[s].sequence
            /\ FollowsEvent(queue, writer[s], s, cap[s].sequence, Len(queue) + 1)
        BY <2>1, <2>2, <3>1 DEF LiveNumbers
      <4> QED  BY <2>8, <4>1 DEF KeepsOrder
    <3>3. ASSUME NEW d \in Direction, pump[s][d] \in {"read", "held"}
          PROVE  FollowsRead(queue', writer'[s], s, d, NextDirseq(s, d), NextOffset(s, d),
                             Len(queue') + 1)
      <4>1. /\ \A i \in Positions(queue) :
                  EventAt(queue, s, i) /\ queue[i].ev.direction = d
                      => queue[i].ev.dirseq < NextDirseq(s, d)
            /\ FollowsRead(queue, writer[s], s, d, NextDirseq(s, d), NextOffset(s, d), Len(queue) + 1)
        BY <2>1, <2>2, <3>1, <3>3 DEF LiveNumbers
      <4> QED  BY <2>8, <4>1 DEF KeepsOrder
    <3> QED  BY <2>1, <2>3, <3>2, <3>3
  <2>9. writer'[s].open /\ writer'[s].errors => cap'[s].sequence > writer'[s].next
    BY <2>1
  <2> QED  BY <2>1, <2>4, <2>5, <2>6, <2>7, <2>8, <2>9 DEF LiveNumbers
<1>6. LiveNumbers(s)'
  BY <1>5 DEF LiveNumbers
<1> QED  BY <1>1, <1>3, <1>4, <1>6

(* The files of a session stay as they are.                                  *)
SameFiles(s) ==
    /\ timeline'[s] = timeline[s]
    /\ raw'[s] = raw[s]
    /\ tail'[s] = tail[s]
    /\ sfile'[s] = sfile[s]
    /\ manifest'[s] = manifest[s]

LEMMA FilesKept ==
    ASSUME NEW s \in Sessions, TypeOK, TypeOK', SessionOrder(s), SameFiles(s),
           cnt[s].events <= cnt'[s].events
    PROVE  /\ RecordsNumbered(s)'
           /\ writer'[s] = writer[s] => WriterCounts(s)'
           /\ ManifestCounts(s)'
<1>1. /\ cnt[s].events \in Nat /\ cnt'[s].events \in Nat
      /\ timeline[s] \in Seq(CaptureEvent)
  BY DEF TypeOK, Counters
<1>2. \A i \in DOMAIN timeline[s] : timeline[s][i].observed \in Nat
  <2>1. \A i \in DOMAIN timeline[s] : timeline[s][i] \in CaptureEvent
    BY <1>1
  <2>2. \A e \in CaptureEvent : e.observed \in Nat
    BY DEF CaptureEvent
  <2> QED  BY <2>1, <2>2
<1>3. \A i \in DOMAIN timeline[s] :
          IsRead(timeline[s][i], cnt[s].events) => IsRead(timeline[s][i], cnt'[s].events)
  BY <1>1, <1>2 DEF IsRead
<1>4. RecordsNumbered(s)'
  <2>1. \A n, m : /\ \A i \in DOMAIN timeline[s] :
                         IsRead(timeline[s][i], n) => IsRead(timeline[s][i], m)
                  /\ Numbered(timeline[s], n, raw[s])
                  => Numbered(timeline[s], m, raw[s])
    BY DEF Numbered
  <2> QED  BY <1>3, <2>1 DEF SessionOrder, RecordsNumbered, SameFiles
<1>5. writer'[s] = writer[s] => WriterCounts(s)'
  BY DEF SessionOrder, WriterCounts, Counted, SameFiles
<1>6. ManifestCounts(s)'
  BY ZenonT(60) DEF SessionOrder, ManifestCounts, Counted, TimelineCoversRaw, SameFiles
<1> QED  BY <1>4, <1>5, <1>6

(* The timeline stays, and what is queued was queued.                        *)
LEMMA NothingRecorded ==
    ASSUME NEW s \in Sessions, SessionOrder(s), timeline'[s] = timeline[s],
           KeepsOrder(queue, queue', writer[s], writer'[s], s)
    PROVE  Unrecorded(s)
<1>1. \A i \in Positions(queue') :
         EventAt(queue', s, i) =>
             \E j \in Positions(queue) : EventAt(queue, s, j) /\ queue[j] = queue'[i]
  BY DEF KeepsOrder
<1> QED  BY <1>1 DEF SessionOrder, QueuedReads, Unrecorded

(* A session of the loop moves on, its writer and its files do not.          *)
LEMMA SessionGoesOn ==
    ASSUME TypeOK, TypeOK', NEW s \in Sessions, SessionOrder(s), GoesOn(s), SameFiles(s),
           writer'[s] = writer[s], KeepsOrder(queue, queue', writer[s], writer'[s], s)
    PROVE  SessionOrder(s)'
<1>2. Unrecorded(s)
  BY NothingRecorded DEF SameFiles
<1>3. cap[s].st = "live" /\ writer'[s].open /\ writer'[s].errors
          => cap[s].sequence > writer'[s].next
  BY DEF SessionOrder, LiveNumbers
<1>4. cnt'[s] = cnt[s] /\ cnt[s].events \in Nat
  BY DEF GoesOn, TypeOK, Counters
<1>5. RecordsNumbered(s)' /\ WriterCounts(s)' /\ ManifestCounts(s)'
  BY <1>4, FilesKept
<1> QED  BY <1>2, <1>3, <1>5, NumbersKept DEF SessionOrder

(* A session the step does not touch.                                        *)
LEMMA Bystander ==
    ASSUME TypeOK, TypeOK', NEW s \in Sessions, SessionOrder(s), Untouched(s),
           sfile'[s] = sfile[s]
    PROVE  SessionOrder(s)'
<1>1. KeepsOrder(queue, queue', writer[s], writer'[s], s)
  BY UntouchedKeeps
<1>2. GoesOn(s) /\ SameFiles(s) /\ writer'[s] = writer[s]
  BY DEF Untouched, GoesOn, SameFiles
<1> QED  BY <1>1, <1>2, SessionGoesOn

(* A session whose commands are where they were.                             *)
LEMMA SameQueue ==
    ASSUME TypeOK, TypeOK', NEW s \in Sessions, SessionOrder(s), GoesOn(s), SameFiles(s),
           writer'[s] = writer[s], queue' = queue
    PROVE  SessionOrder(s)'
<1>1. KeepsOrder(queue, queue', writer[s], writer'[s], s)
  BY KeepSame DEF SessionOrder
<1> QED  BY <1>1, SessionGoesOn

(***************************************************************************)
(* The event loop.                                                         *)
(***************************************************************************)

(* The ends of a session leave what is captured of it alone.                 *)
LEMMA OrderSessionEnds ==
    ASSUME IInv, IInv', OrderInv, NEW a \in Sessions,
           \/ LoseFinalizer(a) \/ PutCloseTimeout(a) \/ CancelFinalizer(a)
           \/ FinalizerReturns(a) \/ \E tc \in BOOLEAN : Finalize(a, tc)
    PROVE  OrderInv'
<1>1. /\ cap \in [Sessions -> SessionState] /\ TypeOK /\ TypeOK'
      /\ UNCHANGED <<cnt, pump, held, queue, threadVars, diskVars>>
  BY DEF IInv, TypeOK, LoseFinalizer, PutCloseTimeout, CancelFinalizer, FinalizerReturns, Finalize
<1>2. PICK c \in SessionState : cap' = [cap EXCEPT ![a] = c] /\ c.st \notin {"new", "live"}
  <2>1. \A st \in {"closing", "detached"} : \A sum \in CloseSummary \cup {cap[a].sum} :
            /\ [cap[a] EXCEPT !.st = st, !.sum = sum] \in SessionState
            /\ [cap[a] EXCEPT !.st = st, !.sum = sum].st = st
            /\ [cap[a] EXCEPT !.st = st] \in SessionState
            /\ [cap[a] EXCEPT !.st = st].st = st
    BY <1>1 DEF SessionState
  <2>2. \A st \in {"lost", "ended"} : SessionAt(st) \in SessionState /\ SessionAt(st).st = st
    BY ConstantTypes DEF SessionAt
  <2>3. CASE \E st \in {"lost", "ended"} : cap' = [cap EXCEPT ![a] = SessionAt(st)]
    BY <2>2, <2>3
  <2>4. CASE cap' = [cap EXCEPT ![a] = [cap[a] EXCEPT !.st = "detached"]]
    BY <2>1, <2>4
  <2>5. ASSUME NEW tc \in BOOLEAN, Finalize(a, tc)
        PROVE  \E c \in SessionState : cap' = [cap EXCEPT ![a] = c] /\ c.st \notin {"new", "live"}
    <3> DEFINE sum == [transport |-> tc, bytes |-> cnt[a].bytes, chunks |-> cnt[a].chunks,
                       failed |-> cap[a].failed, dropped |-> cap[a].dropped]
    <3>1. sum \in CloseSummary
      BY DEF IInv, TypeOK, SessionState, Counters, CloseSummary
    <3>2. cap' = [cap EXCEPT ![a] = [cap[a] EXCEPT !.st = "closing", !.sum = sum]]
      BY <2>5 DEF Finalize
    <3> HIDE DEF sum
    <3> QED  BY <2>1, <3>1, <3>2
  <2> QED  BY <2>3, <2>4, <2>5 DEF LoseFinalizer, PutCloseTimeout, CancelFinalizer, FinalizerReturns
<1>3. ASSUME NEW s \in Sessions
      PROVE  GoesOn(s) /\ SameFiles(s) /\ writer'[s] = writer[s] /\ queue' = queue
  <2>1. cap'[s] = cap[s] \/ cap'[s].st \notin {"new", "live"}
    BY <1>1, <1>2
  <2>2. /\ cnt'[s] = cnt[s] /\ pump'[s] = pump[s] /\ held'[s] = held[s]
        /\ SameFiles(s) /\ writer'[s] = writer[s] /\ queue' = queue
    BY <1>1 DEF SameFiles, threadVars, diskVars
  <2> QED  BY <2>1, <2>2 DEF GoesOn
<1> QED  BY <1>1, <1>3, SameQueue DEF OrderInv

(* _notify_failure only withdraws what a live session promises.              *)
LEMMA OrderNotifyFailure ==
    ASSUME IInv, IInv', OrderInv, NEW a \in Sessions, NotifyFailure(a)
    PROVE  OrderInv'
<1>1. /\ cap \in [Sessions -> SessionState] /\ TypeOK /\ TypeOK'
      /\ UNCHANGED <<cnt, pump, held, queue, threadVars, diskVars>>
  BY DEF IInv, TypeOK, NotifyFailure
<1>2. \/ cap' = cap
      \/ cap' = [cap EXCEPT ![a] = [cap[a] EXCEPT !.failed = TRUE, !.accepting = FALSE]]
  BY DEF NotifyFailure
<1>3. ASSUME NEW s \in Sessions
      PROVE  GoesOn(s) /\ SameFiles(s) /\ writer'[s] = writer[s] /\ queue' = queue
  <2>1. \/ cap'[s] = cap[s]
        \/ /\ cap'[s].st = cap[s].st /\ cap'[s].sequence = cap[s].sequence
           /\ ~cap'[s].accepting
    <3>1. cap'[s] = cap[s] \/ cap'[s] = [cap[s] EXCEPT !.failed = TRUE, !.accepting = FALSE]
      BY <1>1, <1>2
    <3>2. cap[s] \in SessionState
      BY <1>1
    <3> QED  BY <3>1, <3>2 DEF SessionState
  <2>2. /\ cnt'[s] = cnt[s] /\ pump'[s] = pump[s] /\ held'[s] = held[s]
        /\ SameFiles(s) /\ writer'[s] = writer[s] /\ queue' = queue
    BY <1>1 DEF SameFiles, threadVars, diskVars
  <2> QED  BY <2>1, <2>2 DEF GoesOn
<1> QED  BY <1>1, <1>3, SameQueue DEF OrderInv

(* The close and stop commands join the queue behind the session's events.   *)
LEMMA OrderPutControl ==
    ASSUME IInv, IInv', OrderInv, (\E a \in Sessions : PutClose(a)) \/ StopManager
    PROVE  OrderInv'
<1>1. /\ TypeOK /\ TypeOK' /\ queue \in Seq(Command)
      /\ UNCHANGED <<cnt, pump, held, threadVars, diskVars>>
  BY DEF IInv, TypeOK, PutClose, StopManager
<1>2. PICK c \in Command : queue' = Append(queue, c) /\ c.op \in {"close", "stop"}
  <2>1. ASSUME NEW a \in Sessions, PutClose(a)
        PROVE  \E c \in Command : queue' = Append(queue, c) /\ c.op \in {"close", "stop"}
    <3>1. cap[a].sum \in CloseSummary
      BY DEF IInv, TypeOK, SessionState
    <3>2. [op |-> "close", s |-> a, sum |-> cap[a].sum] \in Command
      BY <3>1 DEF Command
    <3> QED  BY <2>1, <3>2 DEF PutClose
  <2>2. CASE StopManager
    <3>1. [op |-> "stop"] \in Command
      BY DEF Command
    <3> QED  BY <2>2, <3>1 DEF StopManager
  <2> QED  BY <2>1, <2>2
<1>3. ASSUME NEW s \in Sessions
      PROVE  cap'[s] = cap[s] \/ cap'[s].st \notin {"new", "live"}
  <2>1. cap \in [Sessions -> SessionState]
    BY DEF IInv, TypeOK
  <2>2. CASE StopManager
    BY <2>2 DEF StopManager
  <2>3. ASSUME NEW a \in Sessions, PutClose(a)
        PROVE  cap'[s] = cap[s] \/ cap'[s].st \notin {"new", "live"}
    <3>1. PICK st \in {"waiting", "lost"} : cap' = [cap EXCEPT ![a] = SessionAt(st)]
      BY <2>3 DEF PutClose
    <3> QED  BY <2>1, <3>1 DEF SessionAt
  <2> QED  BY <2>2, <2>3
<1>4. ASSUME NEW s \in Sessions
      PROVE  SessionOrder(s)'
  <2>1. SessionOrder(s)
    BY DEF OrderInv
  <2>2. KeepsOrder(queue, queue', writer[s], writer[s], s)
    BY <1>1, <1>2, <2>1, KeepAppend DEF SessionOrder
  <2>3. /\ cnt'[s] = cnt[s] /\ pump'[s] = pump[s] /\ held'[s] = held[s]
        /\ SameFiles(s) /\ writer'[s] = writer[s]
    BY <1>1 DEF SameFiles, threadVars, diskVars
  <2>4. GoesOn(s)
    BY <1>3, <2>3 DEF GoesOn
  <2> QED  BY <1>1, <2>1, <2>2, <2>3, <2>4, SessionGoesOn
<1> QED  BY <1>4 DEF OrderInv

(* A session opens with nothing read, queued or counted.                     *)
LEMMA OrderOpenSession ==
    ASSUME IInv, IInv', OrderInv, NEW a \in Sessions, OpenSession(a)
    PROVE  OrderInv'
<1> DEFINE c == [op |-> "open", s |-> a]
<1>0. /\ cap[a].st = "new" /\ SessionInv(a) /\ SessionOrder(a) /\ TypeOK /\ TypeOK'
      /\ cap \in [Sessions -> SessionState] /\ queue \in Seq(Command)
      /\ UNCHANGED <<cnt, pump, held, threadVars, diskVars>>
  BY DEF IInv, OrderInv, TypeOK, OpenSession
<1>1. c \in Command /\ c.op = "open" /\ c.s = a
  BY DEF Command
<1>2. \/ /\ queue' = Append(queue, c)
         /\ cap' = [cap EXCEPT ![a] = [cap[a] EXCEPT !.st = "live", !.accepting = TRUE]]
      \/ /\ queue' = queue
         /\ cap' = [cap EXCEPT ![a] = SessionAt("refused")]
  BY DEF OpenSession
<1> HIDE DEF c
<1>3. ASSUME NEW s \in Sessions, s # a
      PROVE  SessionOrder(s)'
  <2>1. queue' = queue \/ (queue' = Append(queue, c) /\ c \in Command /\ c.s # s)
    BY <1>1, <1>2, <1>3
  <2>2. cap'[s] = cap[s]
    BY <1>0, <1>2, <1>3
  <2>3. Untouched(s) /\ sfile'[s] = sfile[s]
    BY <1>0, <2>1, <2>2 DEF Untouched, threadVars, diskVars
  <2> QED  BY <1>0, <2>3, Bystander DEF OrderInv
<1>4. SameFiles(a) /\ writer'[a] = writer[a] /\ cnt'[a] = cnt[a] /\ pump'[a] = pump[a]
  BY <1>0 DEF SameFiles, threadVars, diskVars
<1>5. CASE /\ queue' = Append(queue, c)
           /\ cap' = [cap EXCEPT ![a] = [cap[a] EXCEPT !.st = "live", !.accepting = TRUE]]
  <2>1. /\ Silent(queue, a) /\ cap[a].sequence = 0 /\ cnt[a] = NewCounters
        /\ \A d \in Direction : pump[a][d] = "read"
        /\ writer[a] = NoWriter
    BY <1>0 DEF SessionInv, Commands, NotOpened, SessionOrder, NewNumbers, WriterCounts
  <2>2. cap'[a].st = "live" /\ cap'[a].sequence = 0
    BY <1>0, <1>5, <2>1 DEF SessionState
  <2>3. \A i \in Positions(queue') : ~EventAt(queue', a, i)
    <3>1. Extended(queue, queue', c, a)
      BY <1>0, <1>1, <1>5, AppendPositions
    <3>2. ~EventAt(queue', a, Len(queue) + 1)
      BY <1>1, <3>1 DEF Extended, EventAt
    <3> QED  BY <2>1, <3>1, <3>2 DEF Extended, Silent
  <2>4. Rising(queue, a)' /\ Chained(queue, writer[a], a)' /\ QueuedReads(a)'
    BY <2>3 DEF Rising, Chained, QueuedReads
  <2>5. \A d \in Direction : /\ Holding(a, d)' = 0 /\ pump'[a][d] = "read"
                             /\ NextDirseq(a, d)' = 0 /\ NextOffset(a, d)' = 0
    BY <1>4, <2>1 DEF Holding, NextDirseq, NextOffset, NewCounters, Zero
  <2>6. cnt'[a].events = 0 /\ "client" \in Direction /\ "device" \in Direction
    BY <1>4, <2>1 DEF NewCounters, Direction
  <2>7. /\ ~writer'[a].open
        /\ FollowsEvent(queue', writer'[a], a, 0, Len(queue') + 1)
        /\ \A d \in Direction : FollowsRead(queue', writer'[a], a, d, 0, 0, Len(queue') + 1)
    BY <1>4, <2>1 DEF NoWriter, Zero, FollowsEvent, FollowsRead
  <2>8. LiveNumbers(a)'
    BY <2>2, <2>3, <2>5, <2>6, <2>7 DEF LiveNumbers
  <2>9. NewNumbers(a)'
    BY <2>2 DEF NewNumbers
  <2>10. RecordsNumbered(a)' /\ WriterCounts(a)' /\ ManifestCounts(a)'
    <3>1. cnt[a].events <= cnt'[a].events
      BY <1>4, <2>1 DEF NewCounters
    <3> QED  BY <1>0, <1>4, <3>1, FilesKept
  <2> QED  BY <1>3, <2>4, <2>8, <2>9, <2>10 DEF OrderInv, SessionOrder
<1>6. CASE queue' = queue /\ cap' = [cap EXCEPT ![a] = SessionAt("refused")]
  <2>1. cap'[a].st = "refused"
    BY <1>0, <1>6 DEF SessionAt
  <2>2. GoesOn(a)
    BY <1>4, <2>1 DEF GoesOn
  <2>3. SessionOrder(a)'
    BY <1>0, <1>4, <1>6, <2>2, SameQueue
  <2> QED  BY <1>3, <2>3 DEF OrderInv
<1> QED  BY <1>2, <1>5, <1>6

(* A pump numbers what it reads: nothing numbered before has that number.    *)
LEMMA OrderObserve ==
    ASSUME IInv, IInv', OrderInv, NEW a \in Sessions, NEW d \in Direction,
           NEW k \in {"data", "eof"}, NEW n \in Nat, k = "eof" => n = 0, Observe(a, d, k, n)
    PROVE  OrderInv'
<1> DEFINE new == [sequence |-> 0, observed |-> cnt[a].events, dirseq |-> cnt[a].dirseq[d],
                   offset |-> cnt[a].bytes[d], direction |-> d, kind |-> k, length |-> n]
<1>0. /\ cap[a].st = "live" /\ pump[a][d] = "read" /\ SessionOrder(a) /\ TypeOK /\ TypeOK'
      /\ UNCHANGED <<cap, queue, threadVars, diskVars>>
      /\ held' = [held EXCEPT ![a][d] = new]
      /\ pump' = [pump EXCEPT ![a][d] = "held"]
  BY DEF IInv, OrderInv, TypeOK, Observe
<1>1. /\ pump \in [Sessions -> [Direction -> {"read", "held", "eof", "dead"}]]
      /\ held \in [Sessions -> [Direction -> CaptureEvent \cup {NoEvent}]]
      /\ cnt \in [Sessions -> Counters] /\ cnt[a] \in Counters
      /\ queue \in Seq(Command) /\ timeline[a] \in Seq(CaptureEvent)
  BY DEF IInv, TypeOK
<1>2. ASSUME NEW s \in Sessions, s # a
      PROVE  SessionOrder(s)'
  <2>1. pump'[s] = pump[s] /\ held'[s] = held[s]
    BY <1>0, <1>1, <1>2
  <2>2. cnt'[s] = cnt[s]
    BY <1>1, <1>2 DEF Observe
  <2>3. Untouched(s) /\ sfile'[s] = sfile[s]
    BY <1>0, <2>1, <2>2 DEF Untouched, threadVars, diskVars
  <2> QED  BY <1>0, <2>3, Bystander DEF OrderInv
<1>3. /\ cnt'[a].events = cnt[a].events + 1
      /\ cnt'[a].dirseq = [cnt[a].dirseq EXCEPT ![d] = @ + 1]
      /\ cnt'[a].bytes = [cnt[a].bytes EXCEPT ![d] = @ + n]
  <2>1. cnt' = [cnt EXCEPT ![a] = [cnt[a] EXCEPT !.events = @ + 1, !.dirseq[d] = @ + 1,
                                       !.bytes[d] = @ + n,
                                       !.chunks[d] = @ + (IF k = "data" THEN 1 ELSE 0)]]
    BY ZenonT(60) DEF Observe
  <2>2. cnt'[a] = [cnt[a] EXCEPT !.events = @ + 1, !.dirseq[d] = @ + 1, !.bytes[d] = @ + n,
                                 !.chunks[d] = @ + (IF k = "data" THEN 1 ELSE 0)]
    BY <1>1, <2>1
  <2> QED  BY <1>1, <2>2 DEF Counters
<1>4. /\ cnt[a].events \in Nat /\ cnt[a].dirseq \in [Direction -> Nat]
      /\ cnt[a].bytes \in [Direction -> Nat]
  BY <1>1 DEF Counters
<1>5. /\ cnt'[a].dirseq[d] = cnt[a].dirseq[d] + 1 /\ cnt'[a].bytes[d] = cnt[a].bytes[d] + n
      /\ \A e \in Direction \ {d} : /\ cnt'[a].dirseq[e] = cnt[a].dirseq[e]
                                    /\ cnt'[a].bytes[e] = cnt[a].bytes[e]
  BY <1>3, <1>4
<1>6. /\ pump'[a][d] = "held" /\ held'[a][d] = new
      /\ \A e \in Direction \ {d} : pump'[a][e] = pump[a][e] /\ held'[a][e] = held[a][e]
  BY <1>0, <1>1
<1>7. /\ new.observed = cnt[a].events /\ new.dirseq = cnt[a].dirseq[d]
      /\ new.offset = cnt[a].bytes[d] /\ new.direction = d /\ new.kind = k /\ new.length = n
  OBVIOUS
<1> HIDE DEF new
<1>8. queue' = queue /\ writer' = writer /\ timeline' = timeline /\ cap' = cap /\ SameFiles(a)
  BY <1>0 DEF SameFiles, threadVars, diskVars
<1>9. ASSUME NEW e, e.observed \in Nat, IsRead(e, cnt[a].events)
      PROVE  IsRead(e, cnt'[a].events) /\ e.observed # new.observed
  BY <1>3, <1>4, <1>7, <1>9 DEF IsRead
<1>10. ASSUME NEW i \in Positions(queue), EventAt(queue, a, i)
       PROVE  /\ queue[i].ev.observed \in Nat /\ queue[i].ev.sequence \in Nat
              /\ queue[i].ev.direction \in Direction
  <2>1. queue[i] \in Command
    BY <1>1 DEF Positions
  <2>2. queue[i].ev \in CaptureEvent
    BY <1>10, <2>1, CommandFields DEF EventAt
  <2> QED  BY <2>2 DEF CaptureEvent
<1>11. ASSUME NEW j \in DOMAIN timeline[a]
       PROVE  timeline[a][j].observed # new.observed
  <2>1. timeline[a][j] \in CaptureEvent
    BY <1>1
  <2>2. timeline[a][j].observed \in Nat
    BY <2>1 DEF CaptureEvent
  <2>3. IsRead(timeline[a][j], cnt[a].events)
    BY <1>0 DEF SessionOrder, RecordsNumbered, Numbered
  <2> QED  BY <1>9, <2>2, <2>3
<1>12. QueuedReads(a) /\ LiveNumbers(a)
  BY <1>0 DEF SessionOrder
<1>13. QueuedReads(a)'
  BY <1>3, <1>4, <1>8, <1>9, <1>10, <1>12 DEF QueuedReads
<1>14. ASSUME NEW e \in Direction
       PROVE  /\ NextDirseq(a, e)' = NextDirseq(a, e)
              /\ NextOffset(a, e)' = NextOffset(a, e)
              /\ pump'[a][e] \in {"read", "held"} <=> pump[a][e] \in {"read", "held"}
  BY <1>0, <1>5, <1>6, <1>7 DEF NextDirseq, NextOffset
<1>15. LiveNumbers(a)'
  <2>1. (cap[a].sequence + Holding(a, "client") + Holding(a, "device") <= cnt[a].events)'
    <3>1. cap[a].sequence + Holding(a, "client") + Holding(a, "device") <= cnt[a].events
      BY <1>0, <1>12 DEF LiveNumbers
    <3>2. cap[a].sequence \in Nat
      BY DEF IInv, TypeOK, SessionState
    <3> QED  BY <1>0, <1>3, <1>4, <1>6, <1>8, <3>1, <3>2 DEF Holding, Direction
  <2>2. HeldRead(a, d)'
    <3>1. IsRead(new, cnt'[a].events)
      BY <1>3, <1>4, <1>7 DEF IsRead
    <3>2. \A i \in Positions(queue) : EventAt(queue, a, i) => queue[i].ev.observed # new.observed
      BY <1>9, <1>10, <1>12 DEF QueuedReads
    <3> QED  BY <1>5, <1>6, <1>7, <1>8, <1>11, <3>1, <3>2 DEF HeldRead
  <2>3. ASSUME NEW e \in Direction \ {d}, pump'[a][e] = "held"
        PROVE  HeldRead(a, e)' /\ held'[a][e].observed # new.observed
    <3>1. HeldRead(a, e) /\ held'[a][e] = held[a][e]
      BY <1>0, <1>6, <1>12, <2>3 DEF LiveNumbers
    <3>2. held[a][e].observed \in Nat
      BY <1>1 DEF CaptureEvent, NoEvent
    <3> QED  BY <1>5, <1>8, <1>9, <3>1, <3>2 DEF HeldRead
  <2>4. (\A e \in Direction : pump'[a][e] = "held")
            => held'[a]["client"].observed # held'[a]["device"].observed
    BY <1>6, <2>3 DEF Direction
  <2>5. \A i \in Positions(queue') :
            (EventAt(queue, a, i) =>
                /\ queue[i].ev.sequence < cap[a].sequence
                /\ pump[a][queue[i].ev.direction] \in {"read", "held"} =>
                      queue[i].ev.dirseq < NextDirseq(a, queue[i].ev.direction))'
    BY <1>0, <1>8, <1>10, <1>12, <1>14 DEF LiveNumbers
  <2>6. (cap[a].accepting /\ Expecting(queue, writer[a], a) =>
            /\ FollowsEvent(queue, writer[a], a, cap[a].sequence, Len(queue) + 1)
            /\ \A e \in Direction :
                  pump[a][e] \in {"read", "held"} =>
                      FollowsRead(queue, writer[a], a, e, NextDirseq(a, e), NextOffset(a, e),
                                  Len(queue) + 1))'
    BY <1>0, <1>8, <1>12, <1>14 DEF LiveNumbers
  <2>7. (writer[a].open /\ writer[a].errors => cap[a].sequence > writer[a].next)'
    BY <1>0, <1>8, <1>12 DEF LiveNumbers
  <2> QED  BY <2>1, <2>2, <2>3, <2>4, <2>5, <2>6, <2>7 DEF LiveNumbers
<1>16. Rising(queue, a)' /\ Chained(queue, writer[a], a)' /\ NewNumbers(a)'
  BY <1>0, <1>8 DEF SessionOrder, NewNumbers
<1>17. RecordsNumbered(a)' /\ WriterCounts(a)' /\ ManifestCounts(a)'
  <2>1. cnt[a].events <= cnt'[a].events /\ writer'[a] = writer[a]
    BY <1>3, <1>4, <1>8
  <2> QED  BY <1>0, <1>8, <2>1, FilesKept
<1> QED  BY <1>2, <1>13, <1>15, <1>16, <1>17, SMTT(30) DEF OrderInv, SessionOrder

(* Pumps that end leave the numbers they took unused.                        *)
LEMMA OrderEndPumps ==
    ASSUME IInv, IInv', OrderInv, NEW a \in Sessions, EndPumps(a)
    PROVE  OrderInv'
<1>0. /\ cap[a].st = "live" /\ SessionOrder(a) /\ TypeOK /\ TypeOK'
      /\ UNCHANGED <<cap, cnt, queue, threadVars, diskVars>>
      /\ pump \in [Sessions -> [Direction -> {"read", "held", "eof", "dead"}]]
      /\ held \in [Sessions -> [Direction -> CaptureEvent \cup {NoEvent}]]
  BY DEF IInv, OrderInv, TypeOK, EndPumps
<1>1. ASSUME NEW s \in Sessions, s # a
      PROVE  SessionOrder(s)'
  <2>1. pump'[s] = pump[s] /\ held'[s] = held[s]
    BY <1>0, <1>1 DEF EndPumps
  <2>2. Untouched(s) /\ sfile'[s] = sfile[s]
    BY <1>0, <2>1 DEF Untouched, threadVars, diskVars
  <2> QED  BY <1>0, <2>2, Bystander DEF OrderInv
<1>2. \A d \in Direction : pump'[a][d] \in {"eof", "dead"}
  BY <1>0 DEF EndPumps
<1>3. /\ queue' = queue /\ writer' = writer /\ timeline' = timeline /\ cap' = cap /\ cnt' = cnt
      /\ SameFiles(a)
  BY <1>0 DEF SameFiles, threadVars, diskVars
<1>4. ASSUME NEW i \in Positions(queue), EventAt(queue, a, i)
      PROVE  queue[i].ev.direction \in Direction
  <2>1. queue[i] \in Command
    BY DEF IInv, TypeOK, Positions
  <2>2. queue[i].ev \in CaptureEvent
    BY <1>4, <2>1, CommandFields DEF EventAt
  <2> QED  BY <2>2 DEF CaptureEvent
<1>5. QueuedReads(a)' /\ Rising(queue, a)' /\ Chained(queue, writer[a], a)' /\ NewNumbers(a)'
  BY <1>0, <1>3 DEF SessionOrder, NewNumbers, QueuedReads
<1>6. LiveNumbers(a)'
  <2>1. LiveNumbers(a) /\ cap[a].sequence \in Nat /\ cnt[a].events \in Nat
    BY <1>0 DEF SessionOrder, TypeOK, SessionState, Counters
  <2>2. (cap[a].sequence + Holding(a, "client") + Holding(a, "device") <= cnt[a].events)'
    <3>1. Holding(a, "client")' = 0 /\ Holding(a, "device")' = 0
      BY <1>2 DEF Holding, Direction
    <3>2. Holding(a, "client") \in {0, 1} /\ Holding(a, "device") \in {0, 1}
      BY DEF Holding
    <3> QED  BY <1>0, <1>3, <2>1, <3>1, <3>2 DEF LiveNumbers
  <2> QED  BY <1>0, <1>2, <1>3, <1>4, <2>1, <2>2 DEF LiveNumbers, Direction
<1>7. RecordsNumbered(a)' /\ WriterCounts(a)' /\ ManifestCounts(a)'
  <2>1. cnt[a].events <= cnt'[a].events /\ writer'[a] = writer[a]
    BY <1>0, <1>3 DEF TypeOK, Counters
  <2> QED  BY <1>0, <1>3, <2>1, FilesKept
<1> QED  BY <1>1, <1>5, <1>6, <1>7 DEF OrderInv, SessionOrder

(* record() queues the last read of a direction behind the earlier ones,     *)
(* under the number after the last; or the session stops accepting.          *)
LEMMA OrderRecord ==
    ASSUME IInv, IInv', OrderInv, NEW a \in Sessions, NEW d \in Direction, Record(a, d)
    PROVE  OrderInv'
<1> DEFINE ev == [held[a][d] EXCEPT !.sequence = cap[a].sequence]
           c == [op |-> "event", s |-> a, ev |-> ev]
<1>0. /\ cap[a].st = "live" /\ pump[a][d] = "held" /\ SessionOrder(a) /\ TypeOK /\ TypeOK'
      /\ UNCHANGED <<cnt, threadVars, diskVars>>
      /\ pump \in [Sessions -> [Direction -> {"read", "held", "eof", "dead"}]]
      /\ held \in [Sessions -> [Direction -> CaptureEvent \cup {NoEvent}]]
      /\ cap \in [Sessions -> SessionState] /\ cap[a] \in SessionState
      /\ queue \in Seq(Command) /\ cnt[a] \in Counters
  BY DEF IInv, OrderInv, TypeOK, Record
<1>1. held[a][d] \in CaptureEvent
  BY <1>0 DEF IInv, SessionInv, LiveSession
<1>2. /\ c \in Command /\ c.op = "event" /\ c.s = a /\ c.ev.sequence = cap[a].sequence
      /\ c.ev.observed = held[a][d].observed /\ c.ev.dirseq = held[a][d].dirseq
      /\ c.ev.offset = held[a][d].offset /\ c.ev.direction = held[a][d].direction
      /\ c.ev.length = held[a][d].length /\ c.ev.kind = held[a][d].kind
  BY <1>0, <1>1 DEF Command, CaptureEvent, SessionState
<1>3. \/ /\ cap[a].accepting
         /\ queue' = Append(queue, c)
         /\ cap' = [cap EXCEPT ![a] = [cap[a] EXCEPT !.sequence = @ + 1]]
      \/ /\ queue' = queue
         /\ cap' = [cap EXCEPT ![a] = Refused(cap[a], held[a][d])]
  BY DEF Record, Accepted
<1> HIDE DEF c
<1>4. ASSUME NEW s \in Sessions, s # a
      PROVE  SessionOrder(s)'
  <2>1. queue' = queue \/ (queue' = Append(queue, c) /\ c \in Command /\ c.s # s)
    BY <1>2, <1>3, <1>4
  <2>2. cap'[s] = cap[s]
    BY <1>0, <1>3, <1>4
  <2>3. pump'[s] = pump[s] /\ held'[s] = held[s]
    BY <1>0, <1>4 DEF Record
  <2>4. Untouched(s) /\ sfile'[s] = sfile[s]
    BY <1>0, <2>1, <2>2, <2>3 DEF Untouched, threadVars, diskVars
  <2> QED  BY <1>0, <2>4, Bystander DEF OrderInv
<1>5. /\ pump'[a][d] \in {"eof", "read"}
      /\ \A e \in Direction \ {d} : pump'[a][e] = pump[a][e] /\ held'[a][e] = held[a][e]
  BY <1>0 DEF Record
<1>6. writer' = writer /\ timeline' = timeline /\ cnt' = cnt /\ SameFiles(a)
  BY <1>0 DEF SameFiles, threadVars, diskVars
<1>7. /\ Rising(queue, a) /\ Chained(queue, writer[a], a) /\ QueuedReads(a) /\ LiveNumbers(a)
      /\ HeldRead(a, d)
  BY <1>0 DEF SessionOrder, LiveNumbers
<1>8. /\ cap[a].sequence \in Nat /\ held[a][d].dirseq \in Nat /\ cnt[a].events \in Nat
      /\ writer[a].next \in Nat
  BY <1>0, <1>1, ZenonT(60) DEF SessionState, CaptureEvent, Counters, TypeOK, Writer
<1>9. ASSUME NEW i \in Positions(queue), EventAt(queue, a, i)
      PROVE  /\ queue[i].ev.sequence \in Nat /\ queue[i].ev.dirseq \in Nat
             /\ queue[i].ev.direction \in Direction
  <2>1. queue[i] \in Command
    BY <1>0 DEF Positions
  <2>2. queue[i].ev \in CaptureEvent
    BY <1>9, <2>1, CommandFields DEF EventAt
  <2> QED  BY <2>2 DEF CaptureEvent
<1>10. /\ NextDirseq(a, d)' = held[a][d].dirseq + 1
       /\ NextOffset(a, d)' = held[a][d].offset + held[a][d].length
       /\ NextDirseq(a, d) = held[a][d].dirseq /\ NextOffset(a, d) = held[a][d].offset
  BY <1>0, <1>5, <1>6, <1>7 DEF HeldRead, NextDirseq, NextOffset
<1>11. ASSUME NEW e \in Direction \ {d}
       PROVE  NextDirseq(a, e)' = NextDirseq(a, e) /\ NextOffset(a, e)' = NextOffset(a, e)
  BY <1>5, <1>6 DEF NextDirseq, NextOffset
<1>12. cap[a].sequence + 1 + Holding(a, "client")' + Holding(a, "device")' <= cnt[a].events
  BY <1>0, <1>5, <1>7, <1>8 DEF LiveNumbers, Holding, Direction
<1>13. Holding(a, "client")' \in {0, 1} /\ Holding(a, "device")' \in {0, 1}
  BY DEF Holding
<1>14. \E e \in Direction : pump'[a][e] # "held"
  BY <1>5
<1>15. RecordsNumbered(a)' /\ WriterCounts(a)' /\ ManifestCounts(a)'
  <2>1. cnt[a].events <= cnt'[a].events /\ writer'[a] = writer[a]
    BY <1>6, <1>8
  <2> QED  BY <1>0, <1>6, <2>1, FilesKept
<1>16. ASSUME NEW i \in Positions(queue), EventAt(queue, a, i)
       PROVE  /\ queue[i].ev.sequence < cap[a].sequence
              /\ queue[i].ev.direction = d => queue[i].ev.dirseq < held[a][d].dirseq
              /\ \A e \in Direction \ {d} :
                    /\ queue[i].ev.direction = e
                    /\ pump[a][e] \in {"read", "held"}
                    => queue[i].ev.dirseq < NextDirseq(a, e)
  BY <1>0, <1>7, <1>10, <1>16 DEF LiveNumbers
<1>17. CASE /\ queue' = queue
            /\ cap' = [cap EXCEPT ![a] = Refused(cap[a], held[a][d])]
  <2>1. cap'[a].st = "live" /\ cap'[a].sequence = cap[a].sequence /\ ~cap'[a].accepting
    BY <1>0, <1>17 DEF SessionState, Refused
  <2>2. Rising(queue, a)' /\ Chained(queue, writer[a], a)' /\ QueuedReads(a)' /\ NewNumbers(a)'
    BY <1>6, <1>7, <1>17, <2>1 DEF QueuedReads, NewNumbers
  <2>3. (cap[a].sequence + Holding(a, "client") + Holding(a, "device") <= cnt[a].events)'
    BY <1>6, <1>8, <1>12, <1>13, <2>1
  <2>4. ASSUME NEW e \in Direction, pump'[a][e] = "held"
        PROVE  HeldRead(a, e)'
    <3>1. e \in Direction \ {d}
      BY <1>5, <2>4
    <3>2. HeldRead(a, e) /\ held'[a][e] = held[a][e]
      BY <1>0, <1>5, <1>7, <2>4, <3>1 DEF LiveNumbers
    <3> QED  BY <1>6, <1>17, <3>2 DEF HeldRead
  <2>5. ASSUME NEW i \in Positions(queue), EventAt(queue, a, i)
        PROVE  (/\ queue[i].ev.sequence < cap[a].sequence
                /\ pump[a][queue[i].ev.direction] \in {"read", "held"} =>
                      queue[i].ev.dirseq < NextDirseq(a, queue[i].ev.direction))'
    <3>1. CASE queue[i].ev.direction = d
      <4>1. queue[i].ev.dirseq < held[a][d].dirseq + 1
        BY <1>8, <1>9, <1>16, <2>5, <3>1
      <4> QED  BY <1>10, <1>17, <1>16, <2>1, <2>5, <3>1, <4>1
    <3>2. CASE queue[i].ev.direction \in Direction \ {d}
      BY <1>5, <1>11, <1>17, <1>16, <2>1, <2>5, <3>2
    <3> QED  BY <1>9, <2>5, <3>1, <3>2
  <2>6. (writer[a].open /\ writer[a].errors => cap[a].sequence > writer[a].next)'
    BY <1>0, <1>6, <1>7, <2>1 DEF LiveNumbers
  <2>7. LiveNumbers(a)'
    BY <1>14, <1>17, <2>1, <2>3, <2>4, <2>5, <2>6 DEF LiveNumbers
  <2> QED  BY <1>4, <1>15, <2>2, <2>7 DEF OrderInv, SessionOrder
<1>18. CASE /\ cap[a].accepting
            /\ queue' = Append(queue, c)
            /\ cap' = [cap EXCEPT ![a] = [cap[a] EXCEPT !.sequence = @ + 1]]
  <2> DEFINE p == Len(queue) + 1
             w == writer[a]
  <2>1. cap'[a].st = "live" /\ cap'[a].sequence = cap[a].sequence + 1
    BY <1>0, <1>18 DEF SessionState
  <2>2. Extended(queue, queue', c, a) /\ EventAt(queue', a, p) /\ ~OpenAt(queue', a, p)
        /\ queue'[p] = c /\ p \in 1 .. p /\ Len(queue) \in Nat /\ Len(queue') = p
    <3>1. Extended(queue, queue', c, a)
      BY <1>0, <1>2, <1>18, AppendPositions
    <3>2. Len(queue) \in Nat /\ Len(queue') = p
      BY <1>0, <1>2, <1>18, AppendToQueue
    <3> QED  BY <1>2, <3>1, <3>2 DEF Extended, EventAt, OpenAt
  <2>3. Expecting(queue', w, a) => Expecting(queue, w, a)
    BY <2>2 DEF Expecting, Extended
  <2>4. ASSUME NEW j \in 1 .. p
        PROVE  /\ \A n : FollowsEvent(queue, w, a, n, j) =>
                      FollowsEvent(queue', w, a, n, j) /\ FollowsEvent(queue', w, a, n, j + 1)
               /\ \A e, m, o : FollowsRead(queue, w, a, e, m, o, j) =>
                      /\ FollowsRead(queue', w, a, e, m, o, j)
                      /\ FollowsRead(queue', w, a, e, m, o, j + 1)
    BY <1>0, <1>2, <1>18, AppendFollows
  <2>5. HeldRead(a, d) /\ c.ev.direction = d
    BY <1>2, <1>7 DEF HeldRead
  <2> HIDE DEF p, w
  <2>6. \A i \in Positions(queue') : i \in Positions(queue) \/ i = p
    BY <2>2 DEF Extended, p
  <2>7. \A i \in Positions(queue) : /\ i < p /\ i \in 1 .. p /\ queue'[i] = queue[i]
                                    /\ EventAt(queue', a, i) <=> EventAt(queue, a, i)
    BY <2>2 DEF Extended, p, Positions
  <2>8. Rising(queue', a)
    <3> SUFFICES ASSUME NEW i \in Positions(queue'), NEW j \in Positions(queue'), i < j,
                        EventAt(queue', a, i), EventAt(queue', a, j)
                 PROVE  /\ queue'[i].ev.sequence < queue'[j].ev.sequence
                        /\ queue'[i].ev.observed # queue'[j].ev.observed
                        /\ queue'[i].ev.direction = queue'[j].ev.direction
                              => queue'[i].ev.dirseq < queue'[j].ev.dirseq
      BY DEF Rising
    <3>1. i \in Positions(queue)
      <4>1. i = p => FALSE
        BY <2>2, <2>6, <2>7 DEF p, Positions
      <4> QED  BY <2>6, <4>1
    <3>2. CASE j \in Positions(queue)
      BY <1>7, <2>7, <3>1, <3>2 DEF Rising
    <3>3. CASE j = p
      BY <1>2, <1>16, <2>2, <2>5, <2>7, <3>1, <3>3 DEF HeldRead
    <3> QED  BY <2>6, <3>2, <3>3
  <2>9. Chained(queue', w, a)
    <3> SUFFICES ASSUME NEW i \in Positions(queue'), EventAt(queue', a, i)
                 PROVE  /\ Expecting(queue', w, a) =>
                              /\ FollowsEvent(queue', w, a, queue'[i].ev.sequence, i)
                              /\ FollowsRead(queue', w, a, queue'[i].ev.direction,
                                             queue'[i].ev.dirseq, queue'[i].ev.offset, i)
                        /\ w.open /\ w.errors => queue'[i].ev.sequence > w.next
      BY DEF Chained
    <3>1. CASE i \in Positions(queue)
      BY <1>7, <2>3, <2>4, <2>7, <3>1 DEF Chained, w
    <3>2. CASE i = p
      <4>1. w.open /\ w.errors => c.ev.sequence > w.next
        BY <1>0, <1>2, <1>7 DEF LiveNumbers, w
      <4>2. Expecting(queue, w, a) =>
               /\ FollowsEvent(queue, w, a, c.ev.sequence, p)
               /\ FollowsRead(queue, w, a, d, c.ev.dirseq, c.ev.offset, p)
        BY <1>0, <1>2, <1>7, <1>10, <1>18 DEF LiveNumbers, w, p
      <4> QED  BY <2>2, <2>3, <2>4, <2>5, <3>2, <4>1, <4>2
    <3> QED  BY <2>6, <3>1, <3>2
  <2>10. Rising(queue, a)' /\ Chained(queue, writer[a], a)'
    BY <1>6, <2>8, <2>9 DEF w
  <2>11. QueuedReads(a)'
    <3>1. c.ev.sequence < cnt[a].events
      BY <1>2, <1>8, <1>12, <1>13
    <3>2. IsRead(c.ev, cnt[a].events)
      BY <1>2, <2>5 DEF HeldRead, IsRead
    <3>3. \A k \in DOMAIN timeline[a] : timeline[a][k].observed # c.ev.observed
      BY <1>2, <2>5 DEF HeldRead
    <3> QED  BY <1>6, <1>7, <2>2, <2>6, <2>7, <3>1, <3>2, <3>3 DEF QueuedReads
  <2>12. (cap[a].sequence + Holding(a, "client") + Holding(a, "device") <= cnt[a].events)'
    BY <1>6, <1>8, <1>12, <1>13, <2>1
  <2>13. ASSUME NEW e \in Direction, pump'[a][e] = "held"
         PROVE  HeldRead(a, e)'
    <3>1. e \in Direction \ {d}
      BY <1>5, <2>13
    <3>2. HeldRead(a, e) /\ held'[a][e] = held[a][e] /\ pump[a][e] = "held"
      BY <1>0, <1>5, <1>7, <2>13, <3>1 DEF LiveNumbers
    <3>3. held[a][e].observed # held[a][d].observed
      BY <1>0, <1>7, <3>1, <3>2 DEF LiveNumbers, Direction
    <3>4. \A i \in Positions(queue') :
              EventAt(queue', a, i) => queue'[i].ev.observed # held[a][e].observed
      BY <1>2, <2>2, <2>6, <2>7, <3>2, <3>3 DEF HeldRead
    <3> QED  BY <1>6, <3>2, <3>4 DEF HeldRead
  <2>14. ASSUME NEW i \in Positions(queue'), EventAt(queue', a, i)
         PROVE  (/\ queue[i].ev.sequence < cap[a].sequence
                 /\ pump[a][queue[i].ev.direction] \in {"read", "held"} =>
                       queue[i].ev.dirseq < NextDirseq(a, queue[i].ev.direction))'
    <3>1. queue'[i].ev.sequence < cap[a].sequence + 1
      BY <1>2, <1>8, <1>9, <1>16, <2>2, <2>6, <2>7, <2>14, SMTT(30)
    <3>2. CASE queue'[i].ev.direction = d
      <4>1. queue'[i].ev.dirseq < held[a][d].dirseq + 1
        BY <1>2, <1>8, <1>9, <1>16, <2>2, <2>6, <2>7, <2>14, <3>2
      <4> QED  BY <1>10, <2>1, <3>1, <3>2, <4>1
    <3>3. CASE queue'[i].ev.direction \in Direction \ {d}
      <4>1. i \in Positions(queue) /\ EventAt(queue, a, i) /\ queue'[i] = queue[i]
        BY <2>2, <2>5, <2>6, <2>7, <2>14, <3>3
      <4> QED  BY <1>5, <1>11, <1>16, <2>1, <3>1, <3>3, <4>1
    <3>4. queue'[i].ev.direction \in Direction
      BY <1>9, <2>2, <2>5, <2>6, <2>7, <2>14
    <3> QED  BY <3>2, <3>3, <3>4
  <2>15. ASSUME cap'[a].accepting, Expecting(queue', w, a)
         PROVE  /\ FollowsEvent(queue', w, a, cap'[a].sequence, Len(queue') + 1)
                /\ \A e \in Direction :
                      pump'[a][e] \in {"read", "held"} =>
                          FollowsRead(queue', w, a, e, NextDirseq(a, e)', NextOffset(a, e)',
                                      Len(queue') + 1)
    <3>1. Len(queue') + 1 = p + 1 /\ p \in 1 .. (p + 1) - 1
      BY <2>2 DEF p
    <3>2. FollowsEvent(queue', w, a, cap'[a].sequence, p + 1)
      BY <1>2, <2>1, <2>2, <3>1 DEF FollowsEvent
    <3>3. FollowsRead(queue', w, a, d, NextDirseq(a, d)', NextOffset(a, d)', p + 1)
      BY <1>2, <1>10, <2>2, <2>5, <3>1 DEF FollowsRead
    <3>4. ASSUME NEW e \in Direction \ {d}, pump'[a][e] \in {"read", "held"}
          PROVE  FollowsRead(queue', w, a, e, NextDirseq(a, e)', NextOffset(a, e)', p + 1)
      <4>1. FollowsRead(queue, w, a, e, NextDirseq(a, e), NextOffset(a, e), p)
        BY <1>0, <1>5, <1>7, <1>18, <2>3, <2>15, <3>4 DEF LiveNumbers, w, p
      <4> QED  BY <1>11, <2>2, <2>4, <4>1
    <3> QED  BY <3>1, <3>2, <3>3, <3>4
  <2>16. (writer[a].open /\ writer[a].errors => cap[a].sequence > writer[a].next)'
    <3>1. writer[a].open /\ writer[a].errors => cap[a].sequence > writer[a].next
      BY <1>0, <1>7 DEF LiveNumbers
    <3> QED  BY <1>6, <1>8, <2>1, <3>1
  <2>17. LiveNumbers(a)'
    <3>1. writer'[a] = w
      BY <1>6 DEF w
    <3> QED  BY <1>14, <2>12, <2>13, <2>14, <2>15, <2>16, <3>1 DEF LiveNumbers
  <2>18. NewNumbers(a)'
    BY <2>1 DEF NewNumbers
  <2> QED  BY <1>4, <1>15, <2>10, <2>11, <2>17, <2>18 DEF OrderInv, SessionOrder
<1> QED  BY <1>3, <1>17, <1>18

(***************************************************************************)
(* The timeline that takes a record.                                       *)
(***************************************************************************)

(* What a timeline covers ends with its last data record.                    *)
LEMMA CoveredByLast ==
    ASSUME NEW t \in Seq(CaptureEvent), NEW d, NEW m \in RecordsOf(t, d, "data"),
           \A j \in RecordsOf(t, d, "data") : j <= m
    PROVE  CoveredBytes(t, d) = t[m].offset + t[m].length
<1> DEFINE data == RecordsOf(t, d, "data")
           last == CHOOSE i \in data : \A j \in data : j <= i
<1>1. data \subseteq Nat /\ m \in data
  BY DEF RecordsOf
<1>2. last \in data /\ \A j \in data : j <= last
  BY <1>1
<1>3. CoveredBytes(t, d) = t[last].offset + t[last].length
  BY <1>1 DEF CoveredBytes
<1> HIDE DEF data, last
<1>4. last = m
  <2>1. last <= m /\ m <= last /\ last \in Nat /\ m \in Nat
    BY <1>1, <1>2 DEF data
  <2> QED  BY <2>1
<1> QED  BY <1>3, <1>4

(* The positions of Append(t, e).                                            *)
LEMMA RecordAppended ==
    ASSUME NEW t \in Seq(CaptureEvent), NEW e \in CaptureEvent
    PROVE  LET u == Append(t, e)
           IN  /\ u \in Seq(CaptureEvent) /\ Len(t) \in Nat /\ Len(u) = Len(t) + 1
               /\ DOMAIN t = 1 .. Len(t)
               /\ DOMAIN u = DOMAIN t \cup {Len(t) + 1} /\ Len(t) + 1 \notin DOMAIN t
               /\ \A i \in DOMAIN t : u[i] = t[i] /\ t[i] \in CaptureEvent /\ i < Len(t) + 1
               /\ u[Len(t) + 1] = e
               /\ \A i \in DOMAIN t : SubSeq(u, 1, i - 1) = SubSeq(t, 1, i - 1)
               /\ SubSeq(u, 1, Len(t)) = t
               /\ \A d \in Direction : \A i \in DOMAIN t : Before(u, i, d) = Before(t, i, d)
               /\ \A d \in Direction : Before(u, Len(t) + 1, d) = Before(t, Len(t) + 1, d)
               /\ \A d, k : RecordsOf(u, d, k) =
                     RecordsOf(t, d, k) \cup (IF e.direction = d /\ e.kind = k THEN {Len(t) + 1} ELSE {})
               /\ \A d : Before(u, Len(t) + 2, d) =
                     Before(t, Len(t) + 1, d) \cup (IF e.direction = d THEN {Len(t) + 1} ELSE {})
<1> DEFINE u == Append(t, e)
           n == Len(t)
<1>1. /\ u \in Seq(CaptureEvent) /\ n \in Nat /\ Len(u) = n + 1
      /\ DOMAIN t = 1 .. n /\ DOMAIN u = 1 .. n + 1
      /\ \A i \in 1 .. n : u[i] = t[i] /\ t[i] \in CaptureEvent
      /\ u[n + 1] = e
  OBVIOUS
<1> HIDE DEF u, n
<1>2. /\ DOMAIN u = DOMAIN t \cup {n + 1} /\ n + 1 \notin DOMAIN t
      /\ \A i \in DOMAIN t : i < n + 1
  BY <1>1
<1>3. ASSUME NEW m \in 0 .. n
      PROVE  SubSeq(u, 1, m) = SubSeq(t, 1, m)
  <2>1. /\ SubSeq(u, 1, m) = [i \in 1 .. m |-> u[i]]
        /\ SubSeq(t, 1, m) = [i \in 1 .. m |-> t[i]]
    BY <1>1 DEF n
  <2>2. \A i \in 1 .. m : u[i] = t[i]
    BY <1>1
  <2> QED  BY <2>1, <2>2
<1>4. SubSeq(t, 1, n) = t
  <2>1. SubSeq(t, 1, n) = [i \in 1 .. n |-> t[i]] /\ t = [i \in 1 .. n |-> t[i]]
    BY <1>1 DEF n
  <2> QED  BY <2>1
<1>5. \A i \in DOMAIN t : i - 1 \in 0 .. n
  BY <1>1
<1>6. /\ \A i \in DOMAIN t : SubSeq(u, 1, i - 1) = SubSeq(t, 1, i - 1)
      /\ SubSeq(u, 1, n) = t
  BY <1>1, <1>3, <1>4, <1>5
<1>7. ASSUME NEW d, NEW i \in 1 .. n + 1
      PROVE  Before(u, i, d) = Before(t, i, d)
  <2>1. \A j \in 1 .. i - 1 : u[j] = t[j]
    BY <1>1
  <2> QED  BY <2>1 DEF Before
<1>8. ASSUME NEW d, NEW k
      PROVE  RecordsOf(u, d, k) =
                RecordsOf(t, d, k) \cup (IF e.direction = d /\ e.kind = k THEN {n + 1} ELSE {})
  <2>1. \A i : i \in DOMAIN u <=> i \in DOMAIN t \/ i = n + 1
    BY <1>2
  <2>2. \A i \in DOMAIN t : u[i] = t[i]
    BY <1>1
  <2> QED  BY <1>1, <1>2, <2>1, <2>2 DEF RecordsOf
<1>9. ASSUME NEW d
      PROVE  Before(u, n + 2, d) =
                Before(t, n + 1, d) \cup (IF e.direction = d THEN {n + 1} ELSE {})
  <2>1. \A i : /\ i \in 1 .. (n + 2) - 1 <=> i \in 1 .. n \/ i = n + 1
               /\ i \in 1 .. (n + 1) - 1 <=> i \in 1 .. n
    BY <1>1
  <2> QED  BY <1>1, <2>1 DEF Before
<1>10. n + 1 \in 1 .. n + 1 /\ \A i \in DOMAIN t : i \in 1 .. n + 1
  BY <1>1
<1> QED  BY <1>1, <1>2, <1>6, <1>7, <1>8, <1>9, <1>10 DEF u, n

(* The numbers of an event.                                                  *)
LEMMA EventNumbers ==
    ASSUME NEW e \in CaptureEvent
    PROVE  /\ e.sequence \in Nat /\ e.observed \in Nat /\ e.dirseq \in Nat
           /\ e.offset \in Nat /\ e.length \in Nat /\ e.offset + e.length \in Nat
           /\ e.direction \in Direction /\ e.kind \in {"data", "eof"}
BY DEF CaptureEvent

(* What a numbered timeline covers is a number of bytes, and its records of  *)
(* a direction are a finite number.                                          *)
LEMMA TimelineNumbers ==
    ASSUME NEW t \in Seq(CaptureEvent), NEW n, NEW r, Numbered(t, n, r), NEW d \in Direction
    PROVE  /\ CoveredBytes(t, d) \in Nat
           /\ IsFiniteSet(RecordsOf(t, d, "data"))
           /\ IsFiniteSet(Before(t, Len(t) + 1, d))
           /\ Cardinality(Before(t, Len(t) + 1, d)) \in Nat
           /\ Cardinality(RecordsOf(t, d, "data")) \in Nat
<1>1. Len(t) \in Nat /\ DOMAIN t = 1 .. Len(t) /\ IsFiniteSet(1 .. Len(t))
  BY FS_Interval
<1>2. RecordsOf(t, d, "data") \subseteq 1 .. Len(t) /\ Before(t, Len(t) + 1, d) \subseteq 1 .. Len(t)
  BY <1>1 DEF RecordsOf, Before
<1>3. IsFiniteSet(RecordsOf(t, d, "data")) /\ IsFiniteSet(Before(t, Len(t) + 1, d))
  BY <1>1, <1>2, FS_Subset
<1>4. CoveredBytes(t, d) \in Nat
  <2>1. CASE RecordsOf(t, d, "data") = {}
    BY <2>1 DEF CoveredBytes
  <2>2. CASE RecordsOf(t, d, "data") # {}
    <3>1. PICK m \in RecordsOf(t, d, "data") : \A j \in RecordsOf(t, d, "data") : j <= m
      BY <2>2 DEF Numbered
    <3>2. t[m] \in CaptureEvent
      BY DEF RecordsOf
    <3>3. t[m].offset + t[m].length \in Nat
      BY <3>2, EventNumbers
    <3> QED  BY <3>1, <3>3, CoveredByLast
  <2> QED  BY <2>1, <2>2
<1> QED  BY <1>3, <1>4, FS_CardinalityType

(* The record e goes behind all others of the timeline t.                    *)
Continues(t, e, n) ==
    /\ IsRead(e, n)
    /\ e.sequence = Len(t)
    /\ e.dirseq = Cardinality(Before(t, Len(t) + 1, e.direction))
    /\ e.offset = CoveredBytes(t, e.direction)
    /\ \A i \in DOMAIN t : t[i].observed # e.observed

(* What the timeline covers and counts then.                                 *)
LEMMA AppendCounts ==
    ASSUME NEW t \in Seq(CaptureEvent), NEW e \in CaptureEvent, NEW n, NEW r,
           Numbered(t, n, r), Continues(t, e, n), NEW d \in Direction
    PROVE  LET u == Append(t, e)
           IN  /\ CoveredBytes(u, d) =
                     CoveredBytes(t, d) + (IF e.direction = d THEN e.length ELSE 0)
               /\ Cardinality(RecordsOf(u, d, "data")) =
                     Cardinality(RecordsOf(t, d, "data"))
                         + (IF e.direction = d /\ e.kind = "data" THEN 1 ELSE 0)
               /\ Cardinality(Before(u, Len(u) + 1, d)) =
                     Cardinality(Before(t, Len(t) + 1, d)) + (IF e.direction = d THEN 1 ELSE 0)
               /\ RecordsOf(u, d, "data") # {} =>
                     \E i \in RecordsOf(u, d, "data") : \A j \in RecordsOf(u, d, "data") : j <= i
<1> DEFINE u == Append(t, e)
           new == Len(t) + 1
           old == RecordsOf(t, d, "data")
           data == RecordsOf(u, d, "data")
<1>1. /\ u \in Seq(CaptureEvent) /\ Len(t) \in Nat /\ Len(u) + 1 = Len(t) + 2
      /\ \A i \in DOMAIN t : u[i] = t[i] /\ i < new
      /\ u[new] = e /\ new \notin DOMAIN t /\ new \in Nat /\ DOMAIN t \subseteq Nat
      /\ data = old \cup (IF e.direction = d /\ e.kind = "data" THEN {new} ELSE {})
      /\ Before(u, Len(t) + 2, d) =
            Before(t, Len(t) + 1, d) \cup (IF e.direction = d THEN {new} ELSE {})
  BY RecordAppended
<1>2. /\ CoveredBytes(t, d) \in Nat /\ IsFiniteSet(old) /\ IsFiniteSet(Before(t, Len(t) + 1, d))
      /\ Cardinality(Before(t, Len(t) + 1, d)) \in Nat /\ Cardinality(old) \in Nat
  BY TimelineNumbers
<1>3. old \subseteq DOMAIN t /\ new \notin Before(t, Len(t) + 1, d)
  BY <1>1 DEF RecordsOf, Before
<1>4. e.length \in Nat /\ e.kind \in {"data", "eof"} /\ (e.kind = "eof" => e.length = 0)
  BY DEF CaptureEvent, Continues, IsRead
<1>5. CoveredBytes(t, d) = (IF old = {} THEN 0
                            ELSE LET last == CHOOSE i \in old : \A j \in old : j <= i
                                 IN  t[last].offset + t[last].length)
  BY DEF CoveredBytes
<1>6. CoveredBytes(u, d) = (IF data = {} THEN 0
                            ELSE LET last == CHOOSE i \in data : \A j \in data : j <= i
                                 IN  u[last].offset + u[last].length)
  BY DEF CoveredBytes
<1>7. Cardinality(Before(u, Len(u) + 1, d)) =
          Cardinality(Before(t, Len(t) + 1, d)) + (IF e.direction = d THEN 1 ELSE 0)
  <2> DEFINE before == Before(t, Len(t) + 1, d)
  <2>1. Cardinality(before \cup {new}) = Cardinality(before) + 1
    BY <1>2, <1>3, FS_AddElement
  <2>2. Before(u, Len(u) + 1, d) = before \cup (IF e.direction = d THEN {new} ELSE {})
    BY <1>1
  <2>3. Cardinality(before) \in Nat
    BY <1>2
  <2> HIDE DEF before, u, new
  <2>4. CASE e.direction = d
    BY <2>1, <2>2, <2>4 DEF before
  <2>5. CASE e.direction # d
    <3>1. Before(u, Len(u) + 1, d) = before
      BY <2>2, <2>5
    <3>2. Cardinality(before) + 0 = Cardinality(before)
      BY <2>3
    <3> QED  BY <2>5, <3>1, <3>2 DEF before
  <2> QED  BY <2>4, <2>5
<1>8. old # {} => \E i \in old : \A j \in old : j <= i
  BY DEF Numbered
<1>9. e.direction = d => e.offset = CoveredBytes(t, d)
  BY DEF Continues
<1>10. CASE e.direction = d /\ e.kind = "data"
  <2>1. data = old \cup {new} /\ new \in data /\ \A j \in data : j <= new
    BY <1>1, <1>3, <1>10
  <2>2. CoveredBytes(u, d) = u[new].offset + u[new].length
    BY <1>1, <2>1, CoveredByLast, ZenonT(60)
  <2>3. Cardinality(data) = Cardinality(old) + 1
    BY <1>1, <1>2, <1>3, <2>1, FS_AddElement
  <2> QED  BY <1>1, <1>7, <1>9, <1>10, <2>1, <2>2, <2>3
<1>11. CASE ~(e.direction = d /\ e.kind = "data")
  <2>1. data = old
    BY <1>1, <1>11
  <2> HIDE DEF u, old, data
  <2>2. CoveredBytes(u, d) = CoveredBytes(t, d)
    <3>1. CASE old = {}
      BY <1>5, <1>6, <2>1, <3>1
    <3>2. CASE old # {}
      <4> DEFINE last == CHOOSE i \in old : \A j \in old : j <= i
      <4>1. last \in old
        BY <1>8, <3>2
      <4>2. u[last] = t[last]
        BY <1>1, <1>3, <4>1
      <4> QED  BY <1>5, <1>6, <2>1, <3>2, <4>2
    <3> QED  BY <3>1, <3>2
  <2>3. e.direction = d => e.length = 0
    BY <1>4, <1>11
  <2>4. CoveredBytes(u, d) = CoveredBytes(t, d) + (IF e.direction = d THEN e.length ELSE 0)
    BY <1>2, <2>2, <2>3
  <2>5. Cardinality(data) = Cardinality(old)
               + (IF e.direction = d /\ e.kind = "data" THEN 1 ELSE 0)
    BY <1>2, <1>11, <2>1
  <2> QED  BY <1>7, <1>8, <2>1, <2>4, <2>5 DEF u, old, data
<1> QED  BY <1>10, <1>11

(* It is numbered as well.                                                   *)
LEMMA AppendNumbered ==
    ASSUME NEW t \in Seq(CaptureEvent), NEW e \in CaptureEvent, NEW n, NEW r, NEW x,
           Numbered(t, n, r), Continues(t, e, n),
           \A d \in Direction : r[d] \in Nat /\ x[d] \in Nat /\ r[d] <= x[d],
           e.offset + e.length <= x[e.direction]
    PROVE  Numbered(Append(t, e), n, x)
<1> DEFINE u == Append(t, e)
           new == Len(t) + 1
<1>1. /\ u \in Seq(CaptureEvent) /\ Len(t) \in Nat
      /\ DOMAIN u = DOMAIN t \cup {new} /\ new - 1 = Len(t)
      /\ \A i \in DOMAIN t : u[i] = t[i] /\ t[i] \in CaptureEvent /\ i < new
      /\ u[new] = e /\ new \notin DOMAIN t /\ new \in Nat /\ DOMAIN t \subseteq Nat
      /\ \A i \in DOMAIN t : SubSeq(u, 1, i - 1) = SubSeq(t, 1, i - 1)
      /\ SubSeq(u, 1, new - 1) = t
      /\ \A d \in Direction : \A i \in DOMAIN t : Before(u, i, d) = Before(t, i, d)
      /\ \A d \in Direction : Before(u, new, d) = Before(t, new, d)
  BY RecordAppended
<1>2. ASSUME NEW d \in Direction
      PROVE  /\ CoveredBytes(t, d) \in Nat
             /\ CoveredBytes(t, d) <= CoveredBytes(u, d)
             /\ e.direction = d => CoveredBytes(u, d) = CoveredBytes(t, d) + e.length
             /\ RecordsOf(u, d, "data") # {} =>
                   \E i \in RecordsOf(u, d, "data") : \A j \in RecordsOf(u, d, "data") : j <= i
             /\ CoveredBytes(u, d) \in Nat
  <2>1. CoveredBytes(t, d) \in Nat /\ e.length \in Nat
    BY TimelineNumbers DEF CaptureEvent
  <2>2. CoveredBytes(u, d) = CoveredBytes(t, d) + (IF e.direction = d THEN e.length ELSE 0)
    BY AppendCounts
  <2>3. RecordsOf(u, d, "data") # {} =>
            \E i \in RecordsOf(u, d, "data") : \A j \in RecordsOf(u, d, "data") : j <= i
    BY AppendCounts
  <2> QED  BY <2>1, <2>2, <2>3
<1> HIDE DEF u, new
<1>3. ASSUME NEW i \in DOMAIN t
      PROVE  /\ t[i].direction \in Direction /\ t[i].offset + t[i].length \in Nat
             /\ t[i].offset + t[i].length <= CoveredBytes(t, t[i].direction)
             /\ t[i].offset + t[i].length <= r[t[i].direction]
  <2>1. t[i] \in CaptureEvent
    BY <1>1
  <2>2. t[i].direction \in Direction /\ t[i].offset + t[i].length \in Nat
    BY <2>1, EventNumbers
  <2> QED  BY <2>2 DEF Numbered
<1>4. e.direction \in Direction /\ e.offset + e.length \in Nat
  BY DEF CaptureEvent
<1>5. ASSUME NEW i \in DOMAIN u
      PROVE  /\ IsRead(u[i], n)
             /\ u[i].sequence = i - 1
             /\ u[i].dirseq = Cardinality(Before(u, i, u[i].direction))
             /\ u[i].offset = CoveredBytes(SubSeq(u, 1, i - 1), u[i].direction)
             /\ u[i].offset + u[i].length <= CoveredBytes(u, u[i].direction)
             /\ u[i].offset + u[i].length <= x[u[i].direction]
  <2>1. CASE i \in DOMAIN t
    <3>1. /\ IsRead(t[i], n)
          /\ t[i].sequence = i - 1
          /\ t[i].dirseq = Cardinality(Before(t, i, t[i].direction))
          /\ t[i].offset = CoveredBytes(SubSeq(t, 1, i - 1), t[i].direction)
      BY <2>1 DEF Numbered
    <3>2. /\ u[i] = t[i] /\ SubSeq(u, 1, i - 1) = SubSeq(t, 1, i - 1)
          /\ Before(u, i, t[i].direction) = Before(t, i, t[i].direction)
      BY <1>1, <1>3, <2>1
    <3> DEFINE end == t[i].offset + t[i].length
               d == t[i].direction
    <3>3. /\ d \in Direction /\ end \in Nat /\ end <= CoveredBytes(t, d) /\ end <= r[d]
      BY <1>3, <2>1
    <3> HIDE DEF d, end
    <3>4. end <= CoveredBytes(u, d) /\ end <= x[d]
      BY <1>2, <3>3
    <3> QED  BY <3>1, <3>2, <3>4 DEF d, end
  <2>2. CASE i = new
    <3>1. /\ IsRead(e, n) /\ e.sequence = new - 1
          /\ e.dirseq = Cardinality(Before(u, new, e.direction))
          /\ e.offset = CoveredBytes(SubSeq(u, 1, new - 1), e.direction)
      BY <1>1, <1>4 DEF Continues, new
    <3>2. e.offset + e.length <= CoveredBytes(u, e.direction)
      BY <1>2, <1>4 DEF Continues
    <3> QED  BY <1>1, <2>2, <3>1, <3>2
  <2> QED  BY <1>1, <2>1, <2>2
<1>6. ASSUME NEW i \in DOMAIN u, NEW j \in DOMAIN u, i < j
      PROVE  /\ u[i].observed # u[j].observed
             /\ u[i].direction = u[j].direction => u[i].offset + u[i].length <= u[j].offset
  <2>1. i \in DOMAIN t
    BY <1>1, <1>6
  <2>2. CASE j \in DOMAIN t
    BY <1>1, <1>6, <2>1, <2>2 DEF Numbered
  <2>3. CASE j = new
    <3>1. t[i].observed # e.observed
      BY <2>1 DEF Continues
    <3>2. t[i].direction = e.direction => t[i].offset + t[i].length <= e.offset
      BY <1>3, <2>1 DEF Continues
    <3> QED  BY <1>1, <2>1, <2>3, <3>1, <3>2
  <2> QED  BY <1>1, <2>2, <2>3
<1> QED  BY <1>2, <1>5, <1>6 DEF Numbered, u

(***************************************************************************)
(* The writer thread.                                                      *)
(***************************************************************************)

(* The writer of a session moves on, its records stay.                       *)
LEMMA WriterMoves ==
    ASSUME NEW s \in Sessions, SessionOrder(s), GoesOn(s),
           timeline'[s] = timeline[s], raw'[s] = raw[s],
           KeepsOrder(queue, queue', writer[s], writer'[s], s),
           cap[s].st = "live" /\ writer'[s].open /\ writer'[s].errors
               => cap[s].sequence > writer'[s].next,
           WriterCounts(s)', ManifestCounts(s)'
    PROVE  SessionOrder(s)'
<1>2. Unrecorded(s)
  BY NothingRecorded
<1>3. RecordsNumbered(s)'
  BY DEF SessionOrder, RecordsNumbered, GoesOn
<1> QED  BY <1>2, <1>3, NumbersKept DEF SessionOrder

(* A session that waits for its open command has no writer and no files.     *)
LEMMA AwaitsOpen ==
    ASSUME NEW s \in Sessions, SessionInv(s), SessionOrder(s),
           \E i \in Positions(queue) : OpenAt(queue, s, i)
    PROVE  /\ writer[s] = NoWriter /\ timeline[s] = <<>> /\ tail[s] = "clean"
           /\ manifest[s] = NoManifest
BY DEF SessionInv, NotOpened, SessionOrder, WriterCounts

(* Counters of all the records of a timeline count the whole of it ...       *)
LEMMA CountedWhole ==
    ASSUME NEW t \in Seq(CaptureEvent), NEW n, n = Len(t), NEW bytes, NEW chunks
    PROVE  Counted(t, n, bytes, chunks) <=>
              \A d \in Direction : /\ CoveredBytes(t, d) = bytes[d]
                                  /\ Cardinality(RecordsOf(t, d, "data")) = chunks[d]
<1>1. SubSeq(t, 1, n) = t /\ Len(t) \in {n, n + 1}
  OBVIOUS
<1> QED  BY <1>1 DEF Counted

(* ... and still count the records before the one appended behind them.      *)
LEMMA CountedButLast ==
    ASSUME NEW t \in Seq(CaptureEvent), NEW e \in CaptureEvent, NEW n, n = Len(t),
           NEW bytes, NEW chunks, Counted(t, n, bytes, chunks)
    PROVE  Counted(Append(t, e), n, bytes, chunks)
<1>1. /\ SubSeq(t, 1, n) = t /\ SubSeq(Append(t, e), 1, n) = t
      /\ Len(Append(t, e)) \in {n, n + 1}
  BY RecordAppended
<1> QED  BY <1>1 DEF Counted

(* An empty timeline counts nothing.                                         *)
LEMMA NothingCounted ==
    /\ \A d \in Direction : /\ CoveredBytes(<<>>, d) = 0
                            /\ Cardinality(RecordsOf(<<>>, d, "data")) = 0
                            /\ Cardinality(Before(<<>>, Len(<<>>) + 1, d)) = 0
    /\ Len(<<>>) = 0
<1>1. DOMAIN <<>> = {} /\ Len(<<>>) = 0
  OBVIOUS
<1>2. ASSUME NEW d \in Direction
      PROVE  RecordsOf(<<>>, d, "data") = {} /\ Before(<<>>, Len(<<>>) + 1, d) = {}
  BY <1>1 DEF RecordsOf, Before
<1>3. Cardinality({}) = 0
  BY FS_EmptySet
<1> QED  BY <1>1, <1>2, <1>3 DEF CoveredBytes

(* The open command: the new writer expects what the missing one did.        *)
LEMMA OrderWorkerOpen ==
    ASSUME IInv, IInv', OrderInv, WorkerOpen
    PROVE  OrderInv'
<1>0. HeadIs("open") /\ TypeOK /\ TypeOK'
  BY DEF WorkerOpen, IInv
<1> PICK a \in Sessions : a = Head(queue).s
  BY <1>0, HeadTypes, CommandFields
<1>1. /\ a = Head(queue).s
      /\ OpenAt(queue, a, 1)
      /\ queue \in Seq(Command) /\ queue # <<>>
      /\ queue' = Tail(queue)
  BY <1>0, HeadTypes DEF WorkerOpen, OpenAt, HeadIs, TypeOK
<1>2. /\ \/ /\ writer' = [writer EXCEPT ![a] = NewWriter]
            /\ dir' = [dir EXCEPT ![a] = "partial"]
            /\ sfile' = [sfile EXCEPT ![a] = "ok"]
         \/ /\ writer' = writer
            /\ dir' = dir \/ dir' = [dir EXCEPT ![a] = "partial"]
            /\ sfile' = sfile \/ sfile' = [sfile EXCEPT ![a] = "ok"]
      /\ UNCHANGED <<cap, cnt, pump, held, raw, timeline, tail, manifest, ready>>
  BY DEF WorkerOpen
<1>3. /\ dir \in [Sessions -> {"absent", "partial", "final"}]
      /\ writer \in [Sessions -> Writer]
      /\ sfile \in [Sessions -> {"missing", "ok", "empty"}]
  BY <1>0 DEF TypeOK
<1>4. ASSUME NEW s \in Sessions, s # a
      PROVE  SessionOrder(s)'
  <2>1. queue # <<>> /\ Head(queue).s # s /\ queue' = Tail(queue)
    BY <1>1, <1>4
  <2>2. writer'[s] = writer[s] /\ dir'[s] = dir[s] /\ sfile'[s] = sfile[s]
    BY <1>2, <1>3, <1>4
  <2>3. Untouched(s)
    BY <1>2, <2>1, <2>2 DEF Untouched
  <2> QED  BY <1>0, <2>2, <2>3, Bystander DEF OrderInv
<1>5. Shifted(queue, a) /\ SessionInv(a) /\ SessionOrder(a) /\ 1 \in Positions(queue)
  BY <1>1, TailPositions DEF IInv, OrderInv, Shifted
<1>6. /\ writer[a] = NoWriter /\ timeline[a] = <<>> /\ tail[a] = "clean"
      /\ manifest[a] = NoManifest /\ ~EventAt(queue, a, 1)
  BY <1>1, <1>5, AwaitsOpen DEF OpenAt, EventAt
<1>7. \A i \in Positions(queue') : ~OpenAt(queue', a, i)
  <2>1. ASSUME NEW i \in Positions(queue'), OpenAt(queue', a, i)
        PROVE  FALSE
    <3>1. i \in Nat /\ i + 1 \in Positions(queue) /\ OpenAt(queue, a, i + 1) /\ i # 0
      BY <1>1, <1>5, <2>1 DEF Shifted, Positions
    <3>2. i + 1 = 1
      BY <1>1, <1>5, <3>1 DEF SessionInv, Commands, Ordered
    <3> QED  BY <3>1, <3>2
  <2> QED  BY <2>1
<1>8. GoesOn(a) /\ timeline'[a] = timeline[a] /\ raw'[a] = raw[a] /\ ManifestCounts(a)'
  BY <1>2, <1>6 DEF GoesOn, ManifestCounts
<1>9. Rising(queue, a) /\ Chained(queue, writer[a], a)
  BY <1>5 DEF SessionOrder
<1>10. CASE writer' = [writer EXCEPT ![a] = NewWriter] /\ sfile' = [sfile EXCEPT ![a] = "ok"]
  <2>1. writer'[a] = NewWriter /\ sfile'[a] = "ok"
    BY <1>3, <1>10
  <2>2. /\ NewWriter.next = NoWriter.next /\ NewWriter.dirseq = NoWriter.dirseq
        /\ NewWriter.bytes = NoWriter.bytes /\ ~NewWriter.errors /\ NewWriter.open
        /\ NewWriter.next = 0 /\ NewWriter.dirseq = Zero /\ NewWriter.bytes = Zero
        /\ NewWriter.chunks = Zero
    BY DEF NewWriter, NoWriter
  <2>3. Expecting(queue, NoWriter, a)
    BY <1>1, <1>5 DEF Expecting
  <2>4. KeepsOrder(queue, queue', writer[a], writer'[a], a)
    BY <1>1, <1>6, <1>9, <2>1, <2>2, <2>3, KeepTail
  <2>5. WriterCounts(a)'
    <3>1. \A d \in Direction : Zero[d] = 0
      BY DEF Zero
    <3>2. Counted(<<>>, 0, Zero, Zero)
      <4>1. <<>> \in Seq(CaptureEvent) /\ 0 = Len(<<>>)
        OBVIOUS
      <4>2. \A d \in Direction : /\ CoveredBytes(<<>>, d) = Zero[d]
                                /\ Cardinality(RecordsOf(<<>>, d, "data")) = Zero[d]
        BY <3>1, NothingCounted
      <4> QED  BY <4>1, <4>2, CountedWhole, Zenon
    <3>3. \A d \in Direction : Zero[d] = Cardinality(Before(<<>>, 0 + 1, d))
      BY <3>1, NothingCounted
    <3>4. timeline'[a] = <<>>
      BY <1>6, <1>8
    <3> QED  BY <2>1, <2>2, <3>2, <3>3, <3>4 DEF WriterCounts
  <2>6. SessionOrder(a)'
    BY <1>5, <1>8, <2>1, <2>2, <2>4, <2>5, WriterMoves
  <2> QED  BY <1>4, <2>6 DEF OrderInv
<1>11. CASE writer' = writer
  <2>1. writer'[a] = NoWriter /\ ~NoWriter.open
    BY <1>6, <1>11 DEF NoWriter
  <2>2. ~Expecting(Tail(queue), NoWriter, a)
    BY <1>1, <1>7, <2>1 DEF Expecting
  <2>3. KeepsOrder(queue, queue', writer[a], writer'[a], a)
    BY <1>1, <1>6, <1>9, <2>1, <2>2, KeepTail
  <2>4. WriterCounts(a)'
    BY <2>1 DEF WriterCounts
  <2>5. SessionOrder(a)'
    BY <1>5, <1>8, <2>1, <2>3, <2>4, WriterMoves
  <2> QED  BY <1>4, <2>5 DEF OrderInv
<1> QED  BY <1>2, <1>10, <1>11

(* The close command: the manifest counts what the writer did.               *)
LEMMA OrderWorkerClose ==
    ASSUME IInv, IInv', OrderInv, WorkerClose
    PROVE  OrderInv'
<1>0. HeadIs("close") /\ TypeOK /\ TypeOK'
  BY DEF WorkerClose, IInv
<1> PICK a \in Sessions, sum \in CloseSummary : a = Head(queue).s /\ sum = Head(queue).sum
  BY <1>0, HeadTypes, CommandFields
<1>1. /\ a = Head(queue).s
      /\ CloseAt(queue, a, 1)
      /\ queue \in Seq(Command) /\ queue # <<>>
      /\ queue' = Tail(queue)
  BY <1>0, HeadTypes DEF WorkerClose, CloseAt, HeadIs, TypeOK
<1>2. /\ \/ /\ writer[a].open
            /\ manifest' = [manifest EXCEPT ![a] = CloseManifest(a, sum)]
         \/ manifest' = manifest
      /\ writer' = [writer EXCEPT ![a] = NoWriter]
      /\ UNCHANGED <<cap, cnt, pump, held, dir, sfile, raw, timeline, tail, ready>>
  BY DEF WorkerClose, CloseFailed, WithoutWriter, loopVars
<1>3. /\ manifest \in [Sessions -> Manifest \cup {NoManifest}]
      /\ writer \in [Sessions -> Writer]
  BY <1>0 DEF TypeOK
<1>4. ASSUME NEW s \in Sessions, s # a
      PROVE  SessionOrder(s)'
  <2>1. queue # <<>> /\ Head(queue).s # s /\ queue' = Tail(queue)
    BY <1>1, <1>4
  <2>2. writer'[s] = writer[s] /\ manifest'[s] = manifest[s] /\ sfile'[s] = sfile[s]
    BY <1>2, <1>3, <1>4
  <2>3. Untouched(s)
    BY <1>2, <2>1, <2>2 DEF Untouched
  <2> QED  BY <1>0, <2>2, <2>3, Bystander DEF OrderInv
<1>5. Shifted(queue, a) /\ SessionInv(a) /\ SessionOrder(a) /\ ~EventAt(queue, a, 1)
  BY <1>1, TailPositions DEF IInv, OrderInv, CloseAt, EventAt
<1>6. GoesOn(a) /\ timeline'[a] = timeline[a] /\ raw'[a] = raw[a]
  BY <1>2 DEF GoesOn
<1>7. writer'[a] = NoWriter /\ ~NoWriter.open
  BY <1>2, <1>3 DEF NoWriter
<1>8. Expecting(queue', NoWriter, a) => writer[a] = NoWriter /\ Expecting(queue, writer[a], a)
  <2> SUFFICES ASSUME Expecting(queue', NoWriter, a)
               PROVE  writer[a] = NoWriter /\ Expecting(queue, writer[a], a)
    OBVIOUS
  <2>1. \E i \in Positions(queue) : OpenAt(queue, a, i)
    BY <1>1, <1>5, <1>7 DEF Expecting, Shifted
  <2> QED  BY <1>5, <2>1, AwaitsOpen DEF Expecting
<1>9. KeepsOrder(queue, queue', writer[a], writer'[a], a)
  <2>1. Rising(queue, a) /\ Chained(queue, writer[a], a)
    BY <1>5 DEF SessionOrder
  <2> QED  BY <1>1, <1>5, <1>7, <1>8, <2>1, KeepTail
<1>10. WriterCounts(a)'
  BY <1>7 DEF WriterCounts
<1>11. ManifestCounts(a)'
  <2>1. CASE manifest' = manifest
    BY <1>2, <1>5, <2>1 DEF SessionOrder, ManifestCounts, TimelineCoversRaw
  <2>2. CASE writer[a].open /\ manifest' = [manifest EXCEPT ![a] = CloseManifest(a, sum)]
    <3> DEFINE m == CloseManifest(a, sum)
    <3>1. manifest'[a] = m
      BY <1>3, <2>2
    <3>2. /\ ~m.recovered /\ m.events = writer[a].next /\ m.bytes = writer[a].bytes
          /\ m.chunks = writer[a].chunks
          /\ m.status = "COMPLETE" => ~writer[a].errors
      BY DEF CloseManifest, StorageComplete
    <3> HIDE DEF m
    <3>3. m.status = "COMPLETE" => m.bytes = raw[a] /\ m.events = Len(timeline[a])
      BY <1>5, <2>2, <3>2 DEF SessionInv, OpenWriter
    <3>4. sfile[a] = "ok" /\ Counted(timeline[a], m.events, m.bytes, m.chunks)
      BY <1>5, <2>2, <3>2 DEF SessionOrder, WriterCounts
    <3> QED  BY <1>2, <3>1, <3>2, <3>3, <3>4 DEF ManifestCounts
  <2> QED  BY <1>2, <2>1, <2>2, SMTT(30)
<1>12. SessionOrder(a)'
  BY <1>5, <1>6, <1>7, <1>9, <1>10, <1>11, WriterMoves
<1> QED  BY <1>4, <1>12 DEF OrderInv

(* The event at the head is the one its writer expects, as long as no write  *)
(* failed; after a failed one it is none the writer would take.              *)
LEMMA HeadInOrder ==
    ASSUME NEW a \in Sessions, queue \in Seq(Command), queue # <<>>, EventAt(queue, a, 1),
           Chained(queue, writer[a], a), writer[a].open
    PROVE  /\ ~writer[a].errors => InOrder(writer[a], queue[1].ev)
           /\ writer[a].errors => queue[1].ev.sequence > writer[a].next
<1>1. 1 \in Positions(queue)
  BY TailPositions DEF Shifted
<1>2. ASSUME ~writer[a].errors
      PROVE  InOrder(writer[a], queue[1].ev)
  <2> DEFINE e == queue[1].ev
  <2>1. Expecting(queue, writer[a], a)
    BY <1>2 DEF Expecting
  <2>2. /\ FollowsEvent(queue, writer[a], a, e.sequence, 1)
        /\ FollowsRead(queue, writer[a], a, e.direction, e.dirseq, e.offset, 1)
    BY <1>1, <2>1 DEF Chained
  <2>3. 1 .. 1 - 1 = {}
    OBVIOUS
  <2> HIDE DEF e
  <2>4. /\ writer[a].next = e.sequence
        /\ writer[a].dirseq[e.direction] = e.dirseq
        /\ writer[a].bytes[e.direction] = e.offset
    BY <2>2, <2>3 DEF FollowsEvent, FollowsRead
  <2> QED  BY <2>4 DEF InOrder, e
<1> QED  BY <1>1, <1>2 DEF Chained

(* The head was an event of the session and left the writer without hope of  *)
(* another: it failed, or there is none.                                     *)
LEMMA EventLost ==
    ASSUME NEW a \in Sessions, queue \in Seq(Command), queue # <<>>, queue' = Tail(queue),
           EventAt(queue, a, 1), \A i \in Positions(queue) : ~OpenAt(queue, a, i),
           Rising(queue, a), Chained(queue, writer[a], a),
           writer[a].next \in Nat, writer'[a].next = writer[a].next,
           \/ ~writer'[a].open
           \/ writer[a].open /\ writer'[a].errors
    PROVE  KeepsOrder(queue, queue', writer[a], writer'[a], a)
<1>1. Shifted(queue, a) /\ 1 \in Positions(queue)
  BY TailPositions DEF Shifted
<1>2. ~Expecting(Tail(queue), writer'[a], a)
  BY <1>1 DEF Expecting, Shifted
<1>3. ASSUME writer'[a].open, writer'[a].errors, NEW i \in Positions(queue) \ {1},
             EventAt(queue, a, i)
      PROVE  queue[i].ev.sequence > writer'[a].next
  <2>1. CASE writer[a].errors
    BY <1>3, <2>1 DEF Chained
  <2>2. CASE ~writer[a].errors
    <3>1. queue[1].ev.sequence = writer[a].next
      BY <1>3, <2>2, HeadInOrder DEF InOrder
    <3>2. queue[1].ev.sequence < queue[i].ev.sequence
      <4>1. 1 < i
        BY DEF Positions
      <4> QED  BY <1>1, <1>3, <4>1 DEF Rising
    <3>3. queue[i] \in Command
      BY DEF Positions
    <3>4. queue[i].ev \in CaptureEvent
      BY <1>3, <3>3, CommandFields DEF EventAt
    <3>5. queue[i].ev.sequence \in Nat
      BY <3>4, EventNumbers
    <3> QED  BY <3>1, <3>2, <3>5
  <2> QED  BY <2>1, <2>2
<1> QED  BY <1>1, <1>2, <1>3, KeepTail

(* The head goes into the timeline.                                          *)
LEMMA HeadRecorded ==
    ASSUME NEW a \in Sessions, TypeOK, SessionOrder(a), queue # <<>>, queue' = Tail(queue),
           EventAt(queue, a, 1), timeline'[a] = Append(timeline[a], queue[1].ev)
    PROVE  Unrecorded(a)
<1> DEFINE e == queue[1].ev
           t == timeline[a]
           u == timeline'[a]
<1>0. queue \in Seq(Command) /\ t \in Seq(CaptureEvent) /\ Rising(queue, a) /\ QueuedReads(a)
  BY DEF TypeOK, SessionOrder
<1>1. Shifted(queue, a) /\ 1 \in Positions(queue)
  BY <1>0, TailPositions DEF Shifted
<1>2. e \in CaptureEvent
  <2>1. queue[1] \in Command
    BY <1>0, <1>1 DEF Positions
  <2> QED  BY <2>1, CommandFields DEF EventAt
<1>3. /\ DOMAIN u = DOMAIN t \cup {Len(t) + 1}
      /\ \A k \in DOMAIN t : u[k] = t[k]
      /\ u[Len(t) + 1] = e
  BY <1>0, <1>2, RecordAppended
<1> HIDE DEF e, t, u
<1>4. ASSUME NEW k \in DOMAIN u
      PROVE  \/ \E j \in DOMAIN t : u[k].observed = t[j].observed
             \/ u[k].observed = e.observed
  BY <1>3
<1>5. ASSUME NEW i \in Positions(queue'), EventAt(queue', a, i), NEW k \in DOMAIN u
      PROVE  u[k].observed # queue'[i].ev.observed
  <2>1. /\ i + 1 \in Positions(queue) /\ queue'[i] = queue[i + 1]
        /\ EventAt(queue, a, i + 1) /\ 1 < i + 1
    BY <1>1, <1>5 DEF Shifted, Positions
  <2>2. e.observed # queue[i + 1].ev.observed
    BY <1>0, <1>1, <2>1 DEF Rising, e
  <2>3. \A j \in DOMAIN t : t[j].observed # queue[i + 1].ev.observed
    BY <1>0, <2>1 DEF QueuedReads, t
  <2> QED  BY <1>4, <2>1, <2>2, <2>3
<1> QED  BY <1>1, <1>4, <1>5 DEF Unrecorded, e, t, u

(* The head continues the timeline of a writer whose writes all succeeded,   *)
(* and the RAW file, once written, holds what it indexes.                    *)
LEMMA HeadContinues ==
    ASSUME NEW a \in Sessions, TypeOK, SessionInv(a), SessionOrder(a), queue # <<>>,
           EventAt(queue, a, 1), writer[a].open, ~writer[a].errors
    PROVE  /\ queue[1].ev \in CaptureEvent
           /\ Continues(timeline[a], queue[1].ev, cnt[a].events)
           /\ queue[1].ev.offset = raw[a][queue[1].ev.direction]
<1> DEFINE e == queue[1].ev
<1>0. /\ queue \in Seq(Command) /\ QueuedReads(a) /\ WriterCounts(a)
      /\ Chained(queue, writer[a], a)
  BY DEF TypeOK, SessionOrder
<1>1. 1 \in Positions(queue)
  BY <1>0, TailPositions DEF Shifted
<1>2. e \in CaptureEvent
  <2>1. queue[1] \in Command
    BY <1>0, <1>1 DEF Positions
  <2> QED  BY <2>1, CommandFields DEF EventAt
<1>3. e.direction \in Direction
  BY <1>2, EventNumbers
<1>4. InOrder(writer[a], e)
  BY <1>0, HeadInOrder
<1>5. raw[a] = writer[a].bytes /\ tail[a] = "clean" /\ Len(timeline[a]) = writer[a].next
  BY DEF SessionInv, OpenWriter
<1>6. IsRead(e, cnt[a].events) /\ \A k \in DOMAIN timeline[a] : timeline[a][k].observed # e.observed
  BY <1>0, <1>1 DEF QueuedReads
<1>7. /\ CoveredBytes(timeline[a], e.direction) = writer[a].bytes[e.direction]
      /\ writer[a].dirseq[e.direction] =
            Cardinality(Before(timeline[a], Len(timeline[a]) + 1, e.direction))
  <2>1. timeline[a] \in Seq(CaptureEvent)
    BY DEF TypeOK
  <2> QED  BY <1>0, <1>3, <1>5, <2>1, CountedWhole DEF WriterCounts
<1> QED  BY <1>2, <1>4, <1>5, <1>6, <1>7 DEF Continues, InOrder

(* The writer's counters after append().                                     *)
LEMMA WriterAdvanced ==
    ASSUME NEW a \in Sessions, TypeOK, NEW e \in CaptureEvent, AppendDone(a, e)
    PROVE  /\ writer'[a].open = writer[a].open /\ writer'[a].errors = writer[a].errors
           /\ writer'[a].next = writer[a].next + 1
           /\ \A d \in Direction :
                 /\ writer'[a].dirseq[d] =
                       writer[a].dirseq[d] + (IF e.direction = d THEN 1 ELSE 0)
                 /\ writer'[a].bytes[d] =
                       writer[a].bytes[d] + (IF e.direction = d THEN e.length ELSE 0)
                 /\ writer'[a].chunks[d] =
                       writer[a].chunks[d]
                           + (IF e.direction = d /\ e.kind = "data" THEN 1 ELSE 0)
                 /\ raw'[a][d] = raw[a][d] + (IF e.direction = d THEN e.length ELSE 0)
<1> DEFINE d == e.direction
           n == e.length
           w == writer[a]
           v == [w EXCEPT !.next = @ + 1, !.dirseq[d] = @ + 1, !.bytes[d] = @ + n,
                          !.chunks[d] = @ + Chunks(e)]
<1>1. /\ raw \in [Sessions -> [Direction -> Nat]] /\ raw[a] \in [Direction -> Nat]
      /\ writer \in [Sessions -> Writer] /\ w \in Writer
      /\ d \in Direction /\ n \in Nat
  BY EventNumbers DEF TypeOK
<1>2. writer' = [writer EXCEPT ![a] = v] /\ raw' = [raw EXCEPT ![a] = [raw[a] EXCEPT ![d] = @ + n]]
  BY ZenonT(60) DEF AppendDone
<1>3. /\ v.open = w.open /\ v.errors = w.errors /\ v.next = w.next + 1
      /\ v.dirseq = [w.dirseq EXCEPT ![d] = @ + 1] /\ v.bytes = [w.bytes EXCEPT ![d] = @ + n]
      /\ v.chunks = [w.chunks EXCEPT ![d] = @ + Chunks(e)]
  <2> HIDE DEF w, d, n
  <2> QED  BY <1>1 DEF Writer
<1>4. raw'[a] = [raw[a] EXCEPT ![d] = @ + n] /\ writer'[a] = v
  <2> HIDE DEF v, d, n
  <2> QED  BY <1>1, <1>2
<1>5. /\ w.dirseq \in [Direction -> Nat] /\ w.bytes \in [Direction -> Nat]
      /\ w.chunks \in [Direction -> Nat]
  BY <1>1 DEF Writer
<1>6. Chunks(e) = IF e.kind = "data" THEN 1 ELSE 0
  BY DEF Chunks
<1> HIDE DEF v, w
<1>7. ASSUME NEW f \in Direction
      PROVE  /\ v.dirseq[f] = w.dirseq[f] + (IF e.direction = f THEN 1 ELSE 0)
             /\ v.bytes[f] = w.bytes[f] + (IF e.direction = f THEN e.length ELSE 0)
             /\ v.chunks[f] = w.chunks[f] + (IF e.direction = f /\ e.kind = "data" THEN 1 ELSE 0)
             /\ raw'[a][f] = raw[a][f] + (IF e.direction = f THEN e.length ELSE 0)
  <2>1. CASE f = d
    BY <1>1, <1>3, <1>4, <1>5, <1>6, <2>1
  <2>2. CASE f # d
    BY <1>1, <1>3, <1>4, <1>5, <2>2
  <2> QED  BY <2>1, <2>2
<1> QED  BY <1>3, <1>4, <1>7 DEF w

(* append() takes the event at the head.                                     *)
LEMMA EventAppended ==
    ASSUME NEW a \in Sessions, TypeOK, SessionInv(a), SessionOrder(a),
           queue # <<>>, queue' = Tail(queue), EventAt(queue, a, 1),
           \A i \in Positions(queue) : ~OpenAt(queue, a, i),
           writer[a].open, AppendDone(a, queue[1].ev), GoesOn(a),
           sfile'[a] = sfile[a], manifest'[a] = manifest[a]
    PROVE  SessionOrder(a)'
<1> DEFINE e == queue[1].ev
           t == timeline[a]
           u == timeline'[a]
<1>0. /\ queue \in Seq(Command) /\ t \in Seq(CaptureEvent) /\ raw[a] \in [Direction -> Nat]
      /\ timeline \in [Sessions -> Seq(CaptureEvent)] /\ writer[a] \in Writer
      /\ Rising(queue, a) /\ Chained(queue, writer[a], a) /\ WriterCounts(a)
      /\ Numbered(t, cnt[a].events, raw[a])
  BY DEF TypeOK, SessionOrder, RecordsNumbered
<1>1. InOrder(writer[a], e)
  BY Zenon DEF AppendDone
<1>2. ~writer[a].errors
  <2>1. writer[a].errors => e.sequence > writer[a].next
    BY <1>0, HeadInOrder
  <2>2. e.sequence = writer[a].next /\ writer[a].next \in Nat
    BY <1>0, <1>1 DEF InOrder, Writer
  <2> QED  BY <2>1, <2>2
<1>3. /\ e \in CaptureEvent /\ Continues(t, e, cnt[a].events)
      /\ e.offset = raw[a][e.direction]
  BY <1>2, HeadContinues
<1>4. /\ e.direction \in Direction /\ e.length \in Nat /\ e.offset + e.length \in Nat
  BY <1>3, EventNumbers, SMTT(30)
<1>5. u = Append(t, e)
  BY <1>0, Zenon DEF AppendDone
<1>6. /\ writer'[a].open = writer[a].open /\ writer'[a].errors = writer[a].errors
      /\ writer'[a].next = writer[a].next + 1
      /\ \A d \in Direction :
            /\ writer'[a].dirseq[d] = writer[a].dirseq[d] + (IF e.direction = d THEN 1 ELSE 0)
            /\ writer'[a].bytes[d] =
                  writer[a].bytes[d] + (IF e.direction = d THEN e.length ELSE 0)
            /\ writer'[a].chunks[d] =
                  writer[a].chunks[d] + (IF e.direction = d /\ e.kind = "data" THEN 1 ELSE 0)
            /\ raw'[a][d] = raw[a][d] + (IF e.direction = d THEN e.length ELSE 0)
  BY <1>3, WriterAdvanced, ZenonT(60)
<1>7. /\ tail'[a] = "clean" /\ tail[a] = "clean" /\ manifest[a] = NoManifest
      /\ Len(t) = writer[a].next
  BY <1>2, Zenon DEF SessionInv, OpenWriter, AppendDone
<1>8. Unrecorded(a)
  BY <1>5, HeadRecorded
<1> HIDE DEF e, t, u
<1>9. KeepsOrder(queue, queue', writer[a], writer'[a], a)
  <2>1. /\ writer[a].dirseq \in [Direction -> Nat] /\ writer[a].bytes \in [Direction -> Nat]
    BY <1>0 DEF Writer
  <2>2. TakenByWriter(writer[a], writer'[a], e)
    <3>1. /\ e.sequence = writer[a].next /\ e.dirseq = writer[a].dirseq[e.direction]
          /\ e.offset = writer[a].bytes[e.direction]
      BY <1>1 DEF InOrder
    <3>2. /\ writer'[a].dirseq[e.direction] = writer[a].dirseq[e.direction] + 1
          /\ writer'[a].bytes[e.direction] = writer[a].bytes[e.direction] + e.length
      BY <1>4, <1>6
    <3>3. ASSUME NEW d \in Direction, d # e.direction
          PROVE  writer'[a].dirseq[d] = writer[a].dirseq[d] /\ writer'[a].bytes[d] = writer[a].bytes[d]
      <4>1. /\ writer'[a].dirseq[d] = writer[a].dirseq[d] + 0
            /\ writer'[a].bytes[d] = writer[a].bytes[d] + 0
        BY <1>6, <3>3
      <4>2. writer[a].dirseq[d] \in Nat /\ writer[a].bytes[d] \in Nat
        BY <2>1
      <4> QED  BY <4>1, <4>2
    <3> QED  BY <1>6, <3>1, <3>2, <3>3 DEF TakenByWriter
  <2>3. Expecting(queue, writer[a], a)
    BY <1>2 DEF Expecting
  <2>4. ~(writer'[a].open /\ writer'[a].errors)
    BY <1>2, <1>6
  <2> QED  BY <1>0, <2>2, <2>3, <2>4, KeepTail DEF e
<1>10. /\ Rising(queue, a)' /\ Chained(queue, writer[a], a)' /\ QueuedReads(a)'
       /\ NewNumbers(a)' /\ LiveNumbers(a)'
  BY <1>2, <1>6, <1>8, <1>9, NumbersKept
<1>11. RecordsNumbered(a)'
  <2>1. \A d \in Direction : raw[a][d] \in Nat /\ raw'[a][d] \in Nat /\ raw[a][d] <= raw'[a][d]
    BY <1>0, <1>4, <1>6, SMTT(30)
  <2>2. e.offset + e.length <= raw'[a][e.direction]
    BY <1>3, <1>4, <1>6
  <2>3. Numbered(u, cnt[a].events, raw'[a])
    BY <1>0, <1>3, <1>5, <2>1, <2>2, AppendNumbered
  <2> QED  BY <2>3 DEF RecordsNumbered, GoesOn, u
<1>12. WriterCounts(a)'
  <2>1. /\ sfile[a] = "ok"
        /\ \A d \in Direction :
              /\ CoveredBytes(t, d) = writer[a].bytes[d]
              /\ Cardinality(RecordsOf(t, d, "data")) = writer[a].chunks[d]
              /\ writer[a].dirseq[d] = Cardinality(Before(t, Len(t) + 1, d))
    BY <1>0, <1>7, CountedWhole DEF WriterCounts, t
  <2>2. Len(u) = writer'[a].next
    BY <1>0, <1>3, <1>5, <1>6, <1>7, RecordAppended, SMTT(30)
  <2>3. ASSUME NEW d \in Direction
        PROVE  /\ CoveredBytes(u, d) = writer'[a].bytes[d]
               /\ Cardinality(RecordsOf(u, d, "data")) = writer'[a].chunks[d]
               /\ writer'[a].dirseq[d] = Cardinality(Before(u, Len(u) + 1, d))
    <3>1. /\ CoveredBytes(u, d) =
                CoveredBytes(t, d) + (IF e.direction = d THEN e.length ELSE 0)
          /\ Cardinality(RecordsOf(u, d, "data")) =
                Cardinality(RecordsOf(t, d, "data"))
                    + (IF e.direction = d /\ e.kind = "data" THEN 1 ELSE 0)
          /\ Cardinality(Before(u, Len(u) + 1, d)) =
                Cardinality(Before(t, Len(t) + 1, d)) + (IF e.direction = d THEN 1 ELSE 0)
      BY <1>0, <1>3, <1>5, AppendCounts
    <3> QED  BY <1>6, <2>1, <3>1, SMTT(30)
  <2>4. Counted(u, writer'[a].next, writer'[a].bytes, writer'[a].chunks)
    <3>1. u \in Seq(CaptureEvent)
      BY <1>0, <1>3, <1>5, RecordAppended
    <3> QED  BY <2>2, <2>3, <3>1, CountedWhole
  <2> QED  BY <1>2, <1>6, <2>1, <2>2, <2>3, <2>4 DEF WriterCounts, u
<1>13. ManifestCounts(a)'
  BY <1>7 DEF ManifestCounts
<1> QED  BY <1>10, <1>11, <1>12, <1>13 DEF SessionOrder

(* append() fails: a record that got through whole is the next one all the   *)
(* same.                                                                     *)
LEMMA EventFailed ==
    ASSUME NEW a \in Sessions, TypeOK, TypeOK', SessionInv(a), SessionOrder(a),
           queue # <<>>, queue' = Tail(queue), EventAt(queue, a, 1),
           \A i \in Positions(queue) : ~OpenAt(queue, a, i),
           writer[a].open, AppendFails(a, queue[1].ev), GoesOn(a),
           sfile'[a] = sfile[a], manifest'[a] = manifest[a]
    PROVE  SessionOrder(a)'
<1> DEFINE e == queue[1].ev
           t == timeline[a]
           x == raw'[a]
<1>0. /\ queue \in Seq(Command) /\ t \in Seq(CaptureEvent) /\ raw[a] \in [Direction -> Nat]
      /\ timeline \in [Sessions -> Seq(CaptureEvent)] /\ writer[a] \in Writer
      /\ writer \in [Sessions -> Writer] /\ raw \in [Sessions -> [Direction -> Nat]]
      /\ tail \in [Sessions -> {"clean", "torn", "unterminated"}]
      /\ Rising(queue, a) /\ Chained(queue, writer[a], a) /\ WriterCounts(a) /\ LiveNumbers(a)
      /\ Numbered(t, cnt[a].events, raw[a]) /\ cap[a].sequence \in Nat
  BY DEF TypeOK, SessionOrder, RecordsNumbered, SessionState
<1>1. /\ writer'[a].open /\ writer'[a].errors /\ writer'[a].next = writer[a].next
      /\ writer'[a].bytes = writer[a].bytes /\ writer'[a].chunks = writer[a].chunks
      /\ writer'[a].dirseq = writer[a].dirseq /\ writer[a].next \in Nat
  <2>1. writer' = [writer EXCEPT ![a] = [writer[a] EXCEPT !.errors = TRUE]]
    BY DEF AppendFails
  <2>2. writer'[a] = [writer[a] EXCEPT !.errors = TRUE]
    BY <1>0, <2>1
  <2> QED  BY <1>0, <2>2 DEF Writer
<1>2. manifest[a] = NoManifest /\ sfile[a] = "ok"
  BY <1>0 DEF SessionInv, OpenWriter, WriterCounts
<1>3. KeepsOrder(queue, queue', writer[a], writer'[a], a)
  BY <1>0, <1>1, EventLost
<1>4. cap[a].st = "live" => cap[a].sequence > writer'[a].next
  <2>1. CASE writer[a].errors
    BY <1>0, <1>1, <2>1 DEF LiveNumbers
  <2>2. CASE ~writer[a].errors
    <3>1. e.sequence = writer[a].next
      BY <1>0, <2>2, HeadInOrder DEF InOrder
    <3>2. 1 \in Positions(queue)
      BY <1>0, TailPositions DEF Shifted
    <3>3. cap[a].st = "live" => e.sequence < cap[a].sequence
      BY <1>0, <3>2 DEF LiveNumbers
    <3> QED  BY <1>0, <1>1, <3>1, <3>3
  <2> QED  BY <2>1, <2>2
<1>5. ManifestCounts(a)'
  BY <1>2 DEF ManifestCounts
<1>6. \/ /\ ~InOrder(writer[a], e) /\ x = raw[a]
         /\ timeline'[a] = t
      \/ /\ InOrder(writer[a], e) /\ \E n \in Nat : x = [raw[a] EXCEPT ![e.direction] = @ + n]
         /\ timeline'[a] = t
      \/ /\ InOrder(writer[a], e) /\ x = [raw[a] EXCEPT ![e.direction] = @ + e.length]
         /\ timeline'[a] = Append(t, e)
  <2>1. e.length \in Nat
    <3>1. 1 \in Positions(queue)
      BY <1>0, TailPositions DEF Shifted
    <3>2. queue[1] \in Command
      BY <1>0, <3>1 DEF Positions
    <3>3. e \in CaptureEvent
      BY <3>2, CommandFields DEF EventAt
    <3> QED  BY <3>3, EventNumbers
  <2>2. \/ /\ ~InOrder(writer[a], e) /\ raw' = raw /\ timeline' = timeline
        \/ /\ InOrder(writer[a], e)
           /\ \E n \in Nat : raw' = [raw EXCEPT ![a] = [raw[a] EXCEPT ![e.direction] = @ + n]]
           /\ timeline' = timeline
        \/ /\ InOrder(writer[a], e)
           /\ raw' = [raw EXCEPT ![a] = [raw[a] EXCEPT ![e.direction] = @ + e.length]]
           /\ timeline' = [timeline EXCEPT ![a] = Append(t, e)]
    BY <2>1, SMTT(30) DEF AppendFails
  <2> HIDE DEF e
  <2> QED  BY <1>0, <2>2
<1>7. ASSUME timeline'[a] = t,
             \A d \in Direction : x[d] \in Nat /\ raw[a][d] <= x[d]
      PROVE  SessionOrder(a)'
  <2>1. WriterCounts(a)'
    BY <1>0, <1>1, <1>2, <1>7 DEF WriterCounts
  <2>2. RecordsNumbered(a)'
    <3>1. ASSUME NEW i \in DOMAIN t
          PROVE  t[i].offset + t[i].length <= x[t[i].direction]
      <4>1. t[i] \in CaptureEvent
        BY <1>0
      <4>2. t[i].direction \in Direction /\ t[i].offset + t[i].length \in Nat
        BY <4>1, EventNumbers
      <4>3. t[i].offset + t[i].length <= raw[a][t[i].direction]
        BY <1>0 DEF Numbered
      <4>4. \A d \in Direction : raw[a][d] \in Nat
        BY <1>0
      <4> QED  BY <1>7, <4>2, <4>3, <4>4
    <3>2. Numbered(t, cnt[a].events, x)
      BY <1>0, <3>1 DEF Numbered
    <3> QED  BY <1>7, <3>2 DEF RecordsNumbered, GoesOn
  <2>3. Unrecorded(a)
    BY <1>3, <1>7, NothingRecorded
  <2> QED  BY <1>3, <1>4, <1>5, <2>1, <2>2, <2>3, NumbersKept DEF SessionOrder
<1>8. CASE x = raw[a] /\ timeline'[a] = t
  <2>1. \A d \in Direction : x[d] \in Nat /\ raw[a][d] <= x[d]
    BY <1>0, <1>8
  <2> QED  BY <1>7, <1>8, <2>1
<1>9. CASE /\ \E n \in Nat : x = [raw[a] EXCEPT ![e.direction] = @ + n]
           /\ timeline'[a] = t
  <2>1. \A d \in Direction : x[d] \in Nat /\ raw[a][d] <= x[d]
    <3>1. PICK n \in Nat : x = [raw[a] EXCEPT ![e.direction] = @ + n]
      BY <1>9
    <3>2. raw[a] \in [Direction -> Nat]
      BY <1>0
    <3> HIDE DEF e, x
    <3>3. ASSUME NEW d \in Direction
          PROVE  raw[a][d] \in Nat /\ (x[d] = raw[a][d] \/ x[d] = raw[a][d] + n)
      BY <3>1, <3>2
    <3> QED  BY <3>3
  <2> QED  BY <1>7, <1>9, <2>1
<1>10. CASE /\ InOrder(writer[a], e) /\ x = [raw[a] EXCEPT ![e.direction] = @ + e.length]
            /\ timeline'[a] = Append(t, e)
  <2>1. ~writer[a].errors
    <3>1. writer[a].errors => e.sequence > writer[a].next
      BY <1>0, HeadInOrder
    <3>2. e.sequence = writer[a].next /\ writer[a].next \in Nat
      BY <1>0, <1>10 DEF InOrder, Writer
    <3> QED  BY <3>1, <3>2
  <2>2. /\ e \in CaptureEvent /\ Continues(t, e, cnt[a].events)
        /\ e.offset = raw[a][e.direction]
    BY <2>1, HeadContinues
  <2>3. e.direction \in Direction /\ e.length \in Nat /\ e.offset \in Nat
    BY <2>2, EventNumbers
  <2>4. /\ \A d \in Direction : raw[a][d] \in Nat /\ x[d] \in Nat /\ raw[a][d] <= x[d]
        /\ e.offset + e.length <= x[e.direction]
    <3>1. x = [raw[a] EXCEPT ![e.direction] = @ + e.length]
      BY <1>10
    <3> HIDE DEF e, x
    <3> QED  BY <1>0, <2>2, <2>3, <3>1
  <2>5. Unrecorded(a)
    BY <1>10, HeadRecorded
  <2>6. RecordsNumbered(a)'
    <3>1. Numbered(Append(t, e), cnt[a].events, x)
      <4> HIDE DEF e, t, x
      <4> QED  BY <1>0, <2>2, <2>4, AppendNumbered
    <3> QED  BY <1>10, <3>1 DEF RecordsNumbered, GoesOn
  <2>7. WriterCounts(a)'
    <3>1. Len(t) = writer[a].next
      BY <2>1 DEF SessionInv, OpenWriter
    <3> HIDE DEF e
    <3>2. Counted(timeline'[a], writer[a].next, writer[a].bytes, writer[a].chunks)
      BY <1>0, <1>10, <2>2, <3>1, CountedButLast DEF WriterCounts
    <3>3. \A d \in Direction :
             Before(timeline'[a], writer[a].next + 1, d) = Before(t, writer[a].next + 1, d)
      BY <1>0, <1>10, <2>2, <3>1, RecordAppended
    <3> QED  BY <1>0, <1>1, <1>2, <3>2, <3>3 DEF WriterCounts
  <2> QED  BY <1>3, <1>4, <1>5, <2>5, <2>6, <2>7, NumbersKept DEF SessionOrder
<1> HIDE DEF e, x
<1> QED  BY <1>6, <1>8, <1>9, <1>10

(* An event command: taken, failed or without a writer.                      *)
LEMMA OrderWorkerEvent ==
    ASSUME IInv, IInv', OrderInv, WorkerEvent
    PROVE  OrderInv'
<1>0. HeadIs("event") /\ TypeOK /\ TypeOK'
  BY DEF WorkerEvent, IInv
<1> PICK a \in Sessions, ev \in CaptureEvent : a = Head(queue).s /\ ev = Head(queue).ev
  BY <1>0, HeadTypes, CommandFields
<1>1. /\ a = Head(queue).s
      /\ queue[1].ev = ev
      /\ EventAt(queue, a, 1)
      /\ queue \in Seq(Command) /\ queue # <<>>
      /\ queue' = Tail(queue)
  BY <1>0, HeadTypes DEF WorkerEvent, EventAt, HeadIs, TypeOK
<1>2. /\ \/ writer[a].open /\ AppendDone(a, ev)
         \/ writer[a].open /\ AppendFails(a, ev)
         \/ ~writer[a].open /\ UNCHANGED <<raw, timeline, tail, writer>>
      /\ UNCHANGED <<cap, cnt, pump, held, dir, sfile, manifest, ready>>
  BY DEF WorkerEvent
<1>3. ASSUME NEW s \in Sessions, s # a
      PROVE  SessionOrder(s)'
  <2>1. queue # <<>> /\ Head(queue).s # s /\ queue' = Tail(queue)
    BY <1>1, <1>3
  <2>2. /\ writer'[s] = writer[s] /\ raw'[s] = raw[s]
        /\ timeline'[s] = timeline[s] /\ tail'[s] = tail[s]
    BY <1>0, <1>2, <1>3, AppendFrame
  <2>3. Untouched(s) /\ sfile'[s] = sfile[s]
    BY <1>2, <2>1, <2>2 DEF Untouched
  <2> QED  BY <1>0, <2>3, Bystander DEF OrderInv
<1>4. SessionInv(a) /\ SessionOrder(a) /\ 1 \in Positions(queue)
  BY <1>1, TailPositions DEF IInv, OrderInv, Shifted
<1>5. \A i \in Positions(queue) : ~OpenAt(queue, a, i)
  BY <1>1, <1>4 DEF SessionInv, Commands, Ordered, Positions
<1>6. GoesOn(a) /\ sfile'[a] = sfile[a] /\ manifest'[a] = manifest[a]
  BY <1>2 DEF GoesOn
<1>7. SessionOrder(a)'
  <2>1. CASE writer[a].open /\ AppendDone(a, ev)
    BY <1>0, <1>1, <1>4, <1>5, <1>6, <2>1, EventAppended
  <2>2. CASE writer[a].open /\ AppendFails(a, ev)
    BY <1>0, <1>1, <1>4, <1>5, <1>6, <2>2, EventFailed
  <2>3. CASE ~writer[a].open /\ UNCHANGED <<raw, timeline, tail, writer>>
    <3>1. writer'[a] = writer[a] /\ writer[a].next \in Nat /\ SameFiles(a)
      BY <1>0, <1>6, <2>3 DEF TypeOK, Writer, SameFiles
    <3>2. KeepsOrder(queue, queue', writer[a], writer'[a], a)
      BY <1>1, <1>4, <1>5, <2>3, <3>1, EventLost DEF SessionOrder
    <3> QED  BY <1>0, <1>4, <1>6, <3>1, <3>2, SessionGoesOn
  <2> QED  BY <1>2, <2>1, <2>2, <2>3
<1> QED  BY <1>3, <1>7 DEF OrderInv

(* The stop command, or the end of the process: every writer is abandoned.   *)
LEMMA OrderAbandoned ==
    ASSUME IInv, IInv', OrderInv, \A s \in Sessions : writer'[s] = NoWriter,
           \/ queue' = <<>>
           \/ queue # <<>> /\ queue' = Tail(queue) /\ Head(queue).op = "stop",
           \A s \in Sessions : GoesOn(s) /\ SameFiles(s)
    PROVE  OrderInv'
<1>1. ASSUME NEW s \in Sessions
      PROVE  SessionOrder(s)'
  <2>0. /\ SessionOrder(s) /\ SessionInv(s) /\ TypeOK /\ TypeOK' /\ queue \in Seq(Command)
        /\ Rising(queue, s) /\ Chained(queue, writer[s], s)
    BY DEF IInv, OrderInv, TypeOK, SessionOrder
  <2>1. ~writer'[s].open /\ WriterCounts(s)' /\ GoesOn(s) /\ SameFiles(s)
    <3>1. writer'[s] = NoWriter /\ ~NoWriter.open
      BY DEF NoWriter
    <3> QED  BY <3>1 DEF WriterCounts
  <2>2. KeepsOrder(queue, queue', writer[s], writer'[s], s)
    <3>1. CASE queue' = <<>>
      <4>1. Positions(queue') = {}
        BY <3>1 DEF Positions
      <4> QED  BY <2>1, <4>1 DEF KeepsOrder, Rising, Chained, Expecting
    <3>2. CASE queue # <<>> /\ queue' = Tail(queue) /\ Head(queue).op = "stop"
      <4>1. Shifted(queue, s) /\ ~EventAt(queue, s, 1)
        BY <2>0, <3>2, TailPositions, TailOfQueue DEF EventAt
      <4>2. Expecting(queue', NoWriter, s) =>
                writer[s] = NoWriter /\ Expecting(queue, writer[s], s)
        <5> SUFFICES ASSUME Expecting(queue', NoWriter, s)
                     PROVE  writer[s] = NoWriter /\ Expecting(queue, writer[s], s)
          OBVIOUS
        <5>1. \E i \in Positions(queue) : OpenAt(queue, s, i)
          BY <3>2, <4>1 DEF Expecting, Shifted, NoWriter
        <5> QED  BY <2>0, <5>1, AwaitsOpen DEF Expecting
      <4> QED  BY <2>0, <2>1, <3>2, <4>1, <4>2, KeepTail
    <3> QED  BY <3>1, <3>2
  <2>3. cnt'[s] = cnt[s] /\ cnt[s].events \in Nat
    BY <2>0, <2>1 DEF GoesOn, TypeOK, Counters
  <2>4. ManifestCounts(s)'
    BY <2>0, <2>1, <2>3, FilesKept
  <2> QED  BY <2>0, <2>1, <2>2, <2>4, WriterMoves DEF SameFiles
<1> QED  BY <1>1 DEF OrderInv

(* Stop of the writer thread.                                                *)
LEMMA OrderWorkerStop ==
    ASSUME IInv, IInv', OrderInv, WorkerStop
    PROVE  OrderInv'
<1>1. /\ queue # <<>> /\ queue' = Tail(queue) /\ Head(queue).op = "stop"
      /\ UNCHANGED <<cap, cnt, pump, held, sfile, raw, timeline, tail, manifest>>
      /\ writer' = [s \in Sessions |-> NoWriter]
  BY DEF WorkerStop, HeadIs, loopVars, diskVars
<1>2. \A s \in Sessions : GoesOn(s) /\ SameFiles(s)
  BY <1>1 DEF GoesOn, SameFiles
<1> QED  BY <1>1, <1>2, OrderAbandoned

(* End of the process: an orderly stop, a crash, a start that fails.         *)
LEMMA OrderProcessGone ==
    ASSUME IInv, IInv', OrderInv, Stopped \/ Crash \/ RecoveryFails
    PROVE  OrderInv'
<1>1. PICK m \in {"down", "crashed"} : ProcessGone(m)
  BY DEF Stopped, Crash, RecoveryFails
<1>2. /\ queue' = <<>> /\ UNCHANGED <<cnt, pump, sfile, raw, timeline, tail, manifest>>
      /\ writer' = [s \in Sessions |-> NoWriter]
  BY <1>1 DEF ProcessGone, diskVars
<1>3. \A s \in Sessions : cap'[s].st # "live" /\ (cap'[s].st = "new" => cap[s].st = "new")
  BY <1>1 DEF ProcessGone, SessionAt
<1>4. \A s \in Sessions : GoesOn(s) /\ SameFiles(s)
  BY <1>2, <1>3 DEF GoesOn, SameFiles
<1> QED  BY <1>2, <1>4, OrderAbandoned

(* Steps that neither read nor write events and records.                     *)
LEMMA OrderQuietStep ==
    ASSUME IInv, IInv', OrderInv,
           UNCHANGED <<cap, cnt, pump, held, queue, writer, sfile, raw, timeline, tail, manifest>>
    PROVE  OrderInv'
<1>1. ASSUME NEW s \in Sessions
      PROVE  SessionOrder(s)'
  <2>1. GoesOn(s) /\ SameFiles(s) /\ writer'[s] = writer[s] /\ queue' = queue
    BY DEF GoesOn, SameFiles
  <2> QED  BY <2>1, SameQueue DEF IInv, OrderInv
<1> QED  BY <1>1 DEF OrderInv

(***************************************************************************)
(* Recovery.                                                               *)
(***************************************************************************)

(* Recovery sets a manifest aside, or counts the timeline it finds.          *)
LEMMA OrderRecover ==
    ASSUME IInv, IInv', OrderInv, NEW a \in Sessions, RecoverDistrust(a) \/ RecoverBuild(a)
    PROVE  OrderInv'
<1>0. /\ TypeOK /\ TypeOK' /\ UNCHANGED <<cap, cnt, pump, held, queue, writer, timeline, tail>>
      /\ manifest \in [Sessions -> Manifest \cup {NoManifest}]
      /\ sfile \in [Sessions -> {"missing", "ok", "empty"}]
      /\ raw \in [Sessions -> [Direction -> Nat]]
      /\ SessionOrder(a)
  BY DEF IInv, OrderInv, TypeOK, RecoverDistrust, RecoverBuild, loopVars, threadVars
<1>1. /\ raw' = raw
      /\ \/ manifest' = [manifest EXCEPT ![a] = NoManifest] /\ sfile' = sfile
         \/ /\ manifest' = [manifest EXCEPT ![a] = RecoveryManifest(a)]
            /\ sfile' = [sfile EXCEPT ![a] = IF @ = "missing" THEN "empty" ELSE @]
  <2>1. [raw EXCEPT ![a] = raw[a]] = raw
    BY <1>0
  <2> QED  BY <2>1 DEF RecoverDistrust, RecoverBuild, RecoveredRaw
<1>2. ASSUME NEW s \in Sessions, s # a
      PROVE  SessionOrder(s)'
  <2>1. GoesOn(s) /\ SameFiles(s) /\ writer'[s] = writer[s] /\ queue' = queue
    BY <1>0, <1>1, <1>2 DEF GoesOn, SameFiles
  <2> QED  BY <1>0, <2>1, SameQueue DEF OrderInv
<1>3. GoesOn(a) /\ writer'[a] = writer[a] /\ queue' = queue /\ ~writer[a].open
  <2>1. rec.pc # "off"
    BY DEF RecoverDistrust, RecoverBuild
  <2>2. ~Running
    BY <2>1 DEF IInv, RecoveryAtWork, Running
  <2> QED  BY <1>0, <2>2 DEF GoesOn, IInv, IdleProcess
<1>4. ManifestCounts(a)'
  <2>1. CASE manifest' = [manifest EXCEPT ![a] = NoManifest]
    BY <1>0, <2>1 DEF ManifestCounts
  <2>2. CASE /\ manifest' = [manifest EXCEPT ![a] = RecoveryManifest(a)]
             /\ sfile' = [sfile EXCEPT ![a] = IF @ = "missing" THEN "empty" ELSE @]
    <3> DEFINE m == RecoveryManifest(a)
    <3>1. manifest'[a] = m /\ sfile'[a] \in {"ok", "empty"}
      BY <1>0, <2>2
    <3>2. /\ m.recovered /\ m.status = "PARTIAL" /\ m.storage = TimelineCoversRaw(a)
          /\ m.bytes = raw[a] /\ m.events = Len(timeline[a])
          /\ m.chunks = [d \in Direction |-> Cardinality(RecordsOf(timeline[a], d, "data"))]
      BY DEF RecoveryManifest, RecoveredStatus, RecoveredRaw
    <3>3. TimelineCoversRaw(a)' = TimelineCoversRaw(a)
      BY <1>0, <1>1 DEF TimelineCoversRaw
    <3> HIDE DEF m
    <3> QED  BY <1>0, <1>1, <3>1, <3>2, <3>3 DEF ManifestCounts
  <2> QED  BY <1>1, <2>1, <2>2
<1>5. WriterCounts(a)'
  BY <1>0, <1>3 DEF SessionOrder, WriterCounts
<1>6. KeepsOrder(queue, queue', writer[a], writer'[a], a)
  BY <1>0, <1>3, KeepSame DEF SessionOrder
<1>7. SessionOrder(a)'
  BY <1>0, <1>1, <1>3, <1>4, <1>5, <1>6, WriterMoves
<1> QED  BY <1>2, <1>7 DEF OrderInv

(***************************************************************************)
(* The invariant.                                                          *)
(***************************************************************************)
LEMMA OrderInit == Init => OrderInv
<1> SUFFICES ASSUME Init, NEW s \in Sessions PROVE SessionOrder(s)
  BY DEF OrderInv
<1>1. /\ cap[s].st = "new" /\ cnt[s] = NewCounters /\ queue = <<>>
      /\ writer[s] = NoWriter /\ timeline[s] = <<>> /\ manifest[s] = NoManifest
      /\ ~NoWriter.open
  BY DEF Init, SessionAt, NoWriter
<1>2. Positions(queue) = {} /\ DOMAIN timeline[s] = {}
  BY <1>1 DEF Positions
<1>3. Rising(queue, s) /\ Chained(queue, writer[s], s) /\ QueuedReads(s)
  BY <1>2 DEF Rising, Chained, QueuedReads
<1>4. NewNumbers(s) /\ LiveNumbers(s)
  BY <1>1 DEF NewNumbers, LiveNumbers
<1>5. RecordsNumbered(s)
  BY <1>2 DEF RecordsNumbered, Numbered, RecordsOf
<1>6. WriterCounts(s) /\ ManifestCounts(s)
  BY <1>1 DEF WriterCounts, ManifestCounts
<1> QED  BY <1>3, <1>4, <1>5, <1>6 DEF SessionOrder

(* Every step, with the first invariant on both sides of it.                 *)
LEMMA OrderNext == IInv /\ IInv' /\ OrderInv /\ [Next]_vars => OrderInv'
<1> SUFFICES ASSUME IInv, IInv', OrderInv, [Next]_vars PROVE OrderInv'
  OBVIOUS
<1>1. ASSUME NEW s \in Sessions, OpenSession(s) PROVE OrderInv'
  BY <1>1, OrderOpenSession
<1>2. ASSUME NEW s \in Sessions, NEW d \in Direction, NEW n \in ChunkSizes,
             Observe(s, d, "data", n)
      PROVE  OrderInv'
  <2>1. n \in Nat
    BY ChunkSizesAssumption
  <2> QED  BY <1>2, <2>1, OrderObserve
<1>3. ASSUME NEW s \in Sessions, NEW d \in Direction, Observe(s, d, "eof", 0) PROVE OrderInv'
  BY <1>3, OrderObserve
<1>4. ASSUME NEW s \in Sessions, NEW d \in Direction, Record(s, d) PROVE OrderInv'
  BY <1>4, OrderRecord
<1>5. ASSUME NEW s \in Sessions, NEW tc \in BOOLEAN, Finalize(s, tc) PROVE OrderInv'
  BY <1>5, OrderSessionEnds
<1>6. ASSUME NEW s \in Sessions,
             \/ EndPumps(s) \/ LoseFinalizer(s) \/ PutClose(s) \/ PutCloseTimeout(s)
             \/ CancelFinalizer(s) \/ FinalizerReturns(s) \/ NotifyFailure(s)
      PROVE  OrderInv'
  BY <1>6, OrderEndPumps, OrderSessionEnds, OrderPutControl, OrderNotifyFailure
<1>7. ASSUME NEW s \in Sessions, RecoverDistrust(s) \/ RecoverBuild(s) PROVE OrderInv'
  BY <1>7, OrderRecover
<1>8. ASSUME WorkerOpen \/ WorkerEvent \/ WorkerClose \/ WorkerStop PROVE OrderInv'
  BY <1>8, OrderWorkerOpen, OrderWorkerEvent, OrderWorkerClose, OrderWorkerStop
<1>9. ASSUME Stopped \/ Crash \/ RecoveryFails PROVE OrderInv'
  BY <1>9, OrderProcessGone
<1>10. ASSUME StopManager PROVE OrderInv'
  BY <1>10, OrderPutControl
<1>11. ASSUME \/ WorkerRename \/ WorkerReady \/ WorkerCheckDone \/ WorkerSet
              \/ RecoverRename \/ RecoverReady \/ Start \/ StartDone \/ UNCHANGED vars
              \/ \E s \in Sessions : RecoverSkip(s) \/ RecoverKeepManifest(s)
       PROVE  OrderInv'
  <2>1. UNCHANGED <<cap, cnt, pump, held, queue, writer, sfile, raw, timeline, tail, manifest>>
    BY <1>11 DEF WorkerRename, WorkerReady, WorkerCheckDone, WorkerSet, RecoverRename,
       RecoverReady, Start, StartDone, RecoverSkip, RecoverKeepManifest, vars, loopVars,
       threadVars, diskVars
  <2> QED  BY <2>1, OrderQuietStep, SMTT(30)
<1>12. ASSUME WorkerStep PROVE OrderInv'
  BY <1>8, <1>11, <1>12 DEF WorkerStep
<1>13. ASSUME RecoverStep PROVE OrderInv'
  BY <1>7, <1>11, <1>13 DEF RecoverStep
<1> QED  BY <1>1, <1>2, <1>3, <1>4, <1>5, <1>6, <1>7, <1>9, <1>10, <1>11, <1>12, <1>13 DEF Next

(* The numbering invariant holds in every reachable state.                   *)
THEOREM OrderInvariant == Spec => []OrderInv
<1>1. IInv /\ OrderInv /\ [Next]_vars => OrderInv'
  BY InvNext, OrderNext
<1> QED  BY Invariant, OrderInit, <1>1, PTL DEF Spec

(* Both invariants of the capture, of its commands and of their numbering,   *)
(* hold together: what record(), append() and finalize() rely on.            *)
THEOREM CaptureInvariant == Spec => []CaptureInv
BY Invariant, OrderInvariant, PTL DEF CaptureInv

(* The order checks of append() never reject an event on their own: the next *)
(* queued event of a writer without a failed write is the one it expects.    *)
THEOREM NoOrderError == Spec => []NoSpuriousOrderError
<1>1. ASSUME IInv, OrderInv PROVE NoSpuriousOrderError
  <2> SUFFICES ASSUME HeadIs("event"), writer[Head(queue).s].open, ~writer[Head(queue).s].errors
               PROVE  InOrder(writer[Head(queue).s], Head(queue).ev)
    BY DEF NoSpuriousOrderError
  <2>1. TypeOK /\ queue \in Seq(Command) /\ queue # <<>>
    BY <1>1 DEF IInv, TypeOK, HeadIs
  <2>2. PICK a \in Sessions : a = Head(queue).s
    BY <2>1, HeadTypes, CommandFields
  <2>3. EventAt(queue, a, 1) /\ Head(queue) = queue[1]
    BY <2>1, <2>2, HeadTypes DEF EventAt, HeadIs
  <2>4. Chained(queue, writer[a], a)
    BY <1>1 DEF OrderInv, SessionOrder
  <2> QED  BY <2>1, <2>2, <2>3, <2>4, HeadInOrder
<1> QED  BY <1>1, Invariant, OrderInvariant, PTL

(* Whatever fails and wherever the process dies, the timeline is a gapless   *)
(* prefix in each direction over bytes that are in RAW (append writes RAW    *)
(* before the record).                                                       *)
THEOREM TimelineGapless == Spec => []TimelineIsPrefix
<1>1. ASSUME IInv, OrderInv PROVE TimelineIsPrefix
  <2>1. ASSUME NEW s \in Sessions
        PROVE  Numbered(timeline[s], cnt[s].events, raw[s])
    BY <1>1 DEF OrderInv, SessionOrder, RecordsNumbered
  <2>2. ASSUME NEW t, NEW n, NEW r, Numbered(t, n, r)
        PROVE  /\ \A i \in DOMAIN t : t[i].sequence = i - 1
               /\ \A i, j \in DOMAIN t :
                     i < j /\ t[i].direction = t[j].direction
                         => t[i].offset + t[i].length <= t[j].offset
               /\ \A i \in DOMAIN t :
                     /\ t[i].dirseq = Cardinality(Before(t, i, t[i].direction))
                     /\ t[i].offset + t[i].length <= r[t[i].direction]
    BY <2>2 DEF Numbered
  <2> QED  BY <2>1, <2>2 DEF TimelineIsPrefix, Before
<1> QED  BY <1>1, Invariant, OrderInvariant, PTL

(***************************************************************************)
(* The canonical adapter reads what the capture published.                 *)
(***************************************************************************)

(* n distinct observed numbers below n are all of them.                      *)
LEMMA AllObserved ==
    ASSUME NEW t \in Seq(CaptureEvent),
           \A i \in DOMAIN t : t[i].observed < Len(t),
           \A i, j \in DOMAIN t : i < j => t[i].observed # t[j].observed
    PROVE  ObservedIsExact(t)
<1> DEFINE n == Len(t)
           f == [i \in 1 .. n |-> t[i].observed]
<1>1. n \in Nat /\ DOMAIN t = 1 .. n /\ \A i \in 1 .. n : t[i] \in CaptureEvent
  OBVIOUS
<1>2. \A i \in 1 .. n : t[i].observed \in Nat
  BY <1>1, EventNumbers
<1>3. \A i \in 1 .. n : t[i].observed \in 0 .. n - 1
  BY <1>1, <1>2
<1>4. \A i, j \in 1 .. n : t[i].observed = t[j].observed => i = j
  <2> SUFFICES ASSUME NEW i \in 1 .. n, NEW j \in 1 .. n, i # j
               PROVE  t[i].observed # t[j].observed
    OBVIOUS
  <2>1. i < j \/ j < i
    BY <1>1
  <2> QED  BY <1>1, <2>1
<1> HIDE DEF n
<1>5. f \in Injection(1 .. n, 0 .. n - 1)
  BY <1>3, <1>4 DEF Injection, IsInjective
<1>6. /\ IsFiniteSet(1 .. n) /\ IsFiniteSet(0 .. n - 1)
      /\ Cardinality(1 .. n) = Cardinality(0 .. n - 1)
  <2>1. 1 \in Int /\ n \in Int /\ 0 \in Int /\ n - 1 \in Int
    BY <1>1
  <2>2. IsFiniteSet(1 .. n) /\ Cardinality(1 .. n) = IF 1 > n THEN 0 ELSE n - 1 + 1
    BY <2>1, FS_Interval
  <2>3. IsFiniteSet(0 .. n - 1) /\ Cardinality(0 .. n - 1) = IF 0 > n - 1 THEN 0 ELSE (n - 1) - 0 + 1
    BY <2>1, FS_Interval
  <2> QED  BY <1>1, <2>2, <2>3
<1>7. f \in Surjection(1 .. n, 0 .. n - 1)
  BY <1>5, <1>6, FS_Injection
<1>8. \A o \in 0 .. n - 1 : \E i \in 1 .. n : f[i] = o
  BY <1>7 DEF Surjection
<1>9. {t[i].observed : i \in 1 .. n} = 0 .. n - 1
  BY <1>3, <1>8
<1> QED  BY <1>1, <1>9 DEF ObservedIsExact, n

(* What load() finds in a published directory with its session descriptor    *)
(* and whole records is what the manifest counted.                           *)
LEMMA PublishedLoads ==
    ASSUME IInv, OrderInv, NEW s \in Sessions, Published(s), sfile[s] # "empty",
           tail[s] = "clean",
           \/ manifest[s].recovered
           \/ manifest[s].bytes = raw[s] /\ manifest[s].events = Len(timeline[s])
    PROVE  Loads(s)
<1> DEFINE m == manifest[s]
           t == timeline[s]
<1>1. /\ m # NoManifest /\ ready[s] = m /\ m.files = raw[s]
      /\ m.status = "COMPLETE" => Len(t) = cnt[s].events
  BY DEF Published, IInv, SessionInv, Sealed
<1>2. /\ m \in Manifest /\ t \in Seq(CaptureEvent)
      /\ raw[s] \in [Direction -> Nat]
  BY <1>1 DEF IInv, TypeOK
<1>3. m.bytes \in [Direction -> Nat]
  BY <1>2 DEF Manifest
<1>4. Numbered(t, cnt[s].events, raw[s]) /\ ManifestCounts(s)
  BY DEF OrderInv, SessionOrder, RecordsNumbered
<1>5. sfile[s] = "ok"
  BY <1>1, <1>4 DEF ManifestCounts
<1>6. \A i \in DOMAIN t : ValidRecord(s, i)
  <2> SUFFICES ASSUME NEW i \in DOMAIN t PROVE ValidRecord(s, i)
    OBVIOUS
  <2>1. /\ t[i].sequence = i - 1
        /\ t[i].dirseq = Cardinality(Before(t, i, t[i].direction))
        /\ t[i].offset = CoveredBytes(SubSeq(t, 1, i - 1), t[i].direction)
        /\ t[i].offset + t[i].length <= raw[s][t[i].direction]
    BY <1>4 DEF Numbered
  <2>2. \A j \in 1 .. i - 1 : t[j].observed # t[i].observed
    <3>1. \A j \in 1 .. i - 1 : j \in DOMAIN t /\ j < i
      BY <1>2
    <3> QED  BY <1>4, <3>1 DEF Numbered
  <2> QED  BY <2>1, <2>2 DEF ValidRecord, Before
<1>7. /\ Len(t) = m.events
      /\ m.bytes = raw[s]
      /\ \A d \in Direction : Cardinality(RecordsOf(t, d, "data")) = m.chunks[d]
  BY <1>1, <1>2, <1>4, CountedWhole DEF ManifestCounts
<1>8. [d \in Direction |-> CoveredBytes(t, d)] # m.bytes => AllowTrailingRaw(m)
  <2>1. CASE ~m.recovered
    <3>1. \A d \in Direction : CoveredBytes(t, d) = m.bytes[d]
      BY <1>1, <1>2, <1>4, <1>7, <2>1, CountedWhole DEF ManifestCounts
    <3> QED  BY <1>3, <3>1
  <2>2. CASE m.recovered
    <3>1. m.status = "PARTIAL" /\ m.storage = TimelineCoversRaw(s)
      BY <1>1, <1>4, <2>2 DEF ManifestCounts
    <3>2. TimelineCoversRaw(s) => [d \in Direction |-> CoveredBytes(t, d)] = raw[s]
      BY <1>2 DEF TimelineCoversRaw
    <3> QED  BY <1>7, <2>2, <3>1, <3>2 DEF AllowTrailingRaw
  <2> QED  BY <2>1, <2>2
<1>9. m.status = "COMPLETE" => ObservedIsExact(t)
  <2> SUFFICES ASSUME m.status = "COMPLETE" PROVE ObservedIsExact(t)
    OBVIOUS
  <2>1. \A i \in DOMAIN t : t[i].observed < Len(t)
    BY <1>1, <1>4 DEF Numbered, IsRead
  <2>2. \A i, j \in DOMAIN t : i < j => t[i].observed # t[j].observed
    BY <1>4 DEF Numbered
  <2> QED  BY <1>2, <2>1, <2>2, AllObserved
<1>10. ParsesTimeline(s)
  BY <1>6, <1>7, <1>8, <1>9 DEF ParsesTimeline
<1> QED  BY <1>1, <1>5, <1>10 DEF Loads

(* A job published as COMPLETE is accepted by the adapter: what finalize()   *)
(* counted is what CanonicalCaptureV1Adapter.load recounts.                  *)
THEOREM CompleteImportable == Spec => []CompleteIsImportable
<1>1. ASSUME IInv, OrderInv PROVE CompleteIsImportable
  <2> SUFFICES ASSUME NEW s \in Sessions, ready[s].status = "COMPLETE" PROVE Loads(s)
    BY DEF CompleteIsImportable
  <2>1. ready[s] # NoManifest
    BY DEF NoManifest
  <2>2. manifest[s] = ready[s] /\ tail[s] = "clean" /\ ManifestCounts(s)
    BY <1>1, <2>1 DEF IInv, SessionInv, Sealed, OrderInv, SessionOrder
  <2>3. /\ ~manifest[s].recovered /\ manifest[s].bytes = raw[s] /\ sfile[s] = "ok"
        /\ manifest[s].events = Len(timeline[s])
    <3>1. manifest[s].status # "PARTIAL"
      BY <2>2
    <3>2. manifest[s].recovered \in BOOLEAN
      BY <1>1, <2>1, <2>2 DEF IInv, TypeOK, Manifest
    <3> QED  BY <2>1, <2>2, <3>1, <3>2 DEF ManifestCounts
  <2> QED  BY <1>1, <2>1, <2>2, <2>3, PublishedLoads DEF Published
<1> QED  BY <1>1, Invariant, OrderInvariant, PTL

(* A published job the adapter refuses lacks its session descriptor, or a    *)
(* write or fsync failed and left more on disk than the manifest counts: no  *)
(* drop, cancellation, crash or recovery makes the reader disagree with the  *)
(* writer.                                                                   *)
THEOREM RefusalHasCause == Spec => []RefusedOnlyForFailedWrites
<1>1. ASSUME IInv, OrderInv PROVE RefusedOnlyForFailedWrites
  BY <1>1, PublishedLoads DEF RefusedOnlyForFailedWrites
<1> QED  BY <1>1, Invariant, OrderInvariant, PTL

(***************************************************************************)
(* The capture implements JobEvidence.                                     *)
(***************************************************************************)

(* Steps that neither read, nor record, nor publish.                         *)
LEMMA EvidenceStutter ==
    ASSUME UNCHANGED <<cnt, timeline, ready>>
    PROVE  UNCHANGED Evidence!evidenceVars
BY SMTT(30) DEF Evidence!evidenceVars

(* A pump reads: Read of its job, which is not published.                    *)
LEMMA EvidenceRead ==
    ASSUME IInv, IInv', NEW a \in Sessions, NEW d \in Direction, NEW k, NEW n, Observe(a, d, k, n)
    PROVE  Evidence!Read(a)
<1>1. /\ cap[a].st = "live" /\ UNCHANGED <<timeline, ready>>
      /\ cnt' = [cnt EXCEPT ![a].events = @ + 1, ![a].dirseq[d] = @ + 1, ![a].bytes[d] = @ + n,
                            ![a].chunks[d] = @ + (IF k = "data" THEN 1 ELSE 0)]
  BY DEF Observe, diskVars
<1>2. cnt \in [Sessions -> Counters] /\ cnt' \in [Sessions -> Counters]
  BY Zenon DEF IInv, TypeOK
<1>3. /\ cnt'[a].events = cnt[a].events + 1
      /\ \A s \in Sessions : s # a => cnt'[s] = cnt[s]
  BY <1>1, <1>2, ZenonT(60) DEF Counters
<1>4. ready[a].status = "none"
  <2>1. ready[a] = NoManifest
    BY <1>1 DEF IInv, SessionInv, Sealed
  <2> QED  BY <2>1 DEF NoManifest
<1>5. [s \in Sessions |-> cnt'[s].events]
          = [[s \in Sessions |-> cnt[s].events] EXCEPT ![a] = cnt[a].events + 1]
  BY <1>3
<1> QED  BY <1>1, <1>4, <1>5, Zenon DEF Evidence!Read

(* The thread appends a record: Capture of its job; there is a read for it.  *)
LEMMA EvidenceCapture ==
    ASSUME IInv, OrderInv, WorkerEvent
    PROVE  \/ UNCHANGED <<cnt, timeline, ready>>
           \/ \E a \in Sessions : Evidence!Capture(a)
<1>0. HeadIs("event") /\ TypeOK
  BY DEF WorkerEvent, IInv
<1> PICK a \in Sessions, ev \in CaptureEvent : a = Head(queue).s /\ ev = Head(queue).ev
  BY <1>0, HeadTypes, CommandFields, SMTT(30)
<1>1. /\ \/ UNCHANGED timeline
         \/ /\ writer[a].open /\ InOrder(writer[a], ev)
            /\ timeline' = [timeline EXCEPT ![a] = Append(timeline[a], ev)]
      /\ UNCHANGED <<cnt, ready>>
  BY Zenon DEF WorkerEvent, AppendDone, AppendFails
<1>2. CASE /\ writer[a].open /\ InOrder(writer[a], ev)
           /\ timeline' = [timeline EXCEPT ![a] = Append(timeline[a], ev)]
  <2>1. /\ queue \in Seq(Command) /\ queue # <<>> /\ queue[1].ev = ev
        /\ EventAt(queue, a, 1) /\ 1 \in Positions(queue)
        /\ timeline \in [Sessions -> Seq(CaptureEvent)] /\ writer[a] \in Writer
    BY <1>0, HeadTypes DEF HeadIs, EventAt, TypeOK, Positions
  <2>2. Chained(queue, writer[a], a) /\ QueuedReads(a) /\ SessionInv(a)
    BY DEF OrderInv, SessionOrder, IInv
  <2>3. ~writer[a].errors
    <3>1. writer[a].errors => ev.sequence > writer[a].next
      BY <1>2, <2>1, <2>2, HeadInOrder, SMTT(30)
    <3>2. ev.sequence = writer[a].next /\ writer[a].next \in Nat
      BY <1>2, <2>1, SMTT(30) DEF InOrder, Writer
    <3> QED  BY <3>1, <3>2
  <2>4. Len(timeline[a]) = ev.sequence /\ ready[a] = NoManifest
    BY <1>2, <2>2, <2>3 DEF SessionInv, OpenWriter, Sealed, InOrder
  <2>5. Len(timeline[a]) < cnt[a].events
    BY <2>1, <2>2, <2>4 DEF QueuedReads
  <2>6. /\ Len(timeline'[a]) = Len(timeline[a]) + 1
        /\ \A s \in Sessions : s # a => timeline'[s] = timeline[s]
    <3>1. timeline'[a] = Append(timeline[a], ev) /\ timeline[a] \in Seq(CaptureEvent)
      BY <1>2, <2>1
    <3>2. \A s \in Sessions : s # a => timeline'[s] = timeline[s]
      BY <1>2, <2>1
    <3> QED  BY <3>1, <3>2
  <2>7. [s \in Sessions |-> Len(timeline'[s])]
            = [[s \in Sessions |-> Len(timeline[s])] EXCEPT ![a] = Len(timeline[a]) + 1]
    BY <2>6
  <2>8. ready[a].status = "none"
    BY <2>4 DEF NoManifest
  <2>9. Evidence!Capture(a)
    BY <1>1, <2>5, <2>7, <2>8 DEF Evidence!Capture
  <2> QED  BY <2>9
<1> QED  BY <1>1, <1>2

(* The marker appears: Publish, as COMPLETE only with every read recorded.   *)
LEMMA EvidencePublish ==
    ASSUME IInv, NEW a \in Sessions, manifest[a] # NoManifest, ready[a] = NoManifest,
           ready' = [ready EXCEPT ![a] = manifest[a]], UNCHANGED <<cnt, timeline>>
    PROVE  \E st \in {"COMPLETE", "PARTIAL"} : Evidence!Publish(a, st)
<1>1. ready \in [Sessions -> Manifest \cup {NoManifest}] /\ manifest[a] \in Manifest
  BY DEF IInv, TypeOK
<1> PICK st \in {"COMPLETE", "PARTIAL"} : st = manifest[a].status
  BY <1>1 DEF Manifest
<1>2. st = "COMPLETE" => Len(timeline[a]) = cnt[a].events
  BY DEF IInv, SessionInv, Sealed
<1>3. ready[a].status = "none"
  BY DEF NoManifest
<1>4. ready'[a].status = st /\ \A s \in Sessions : s # a => ready'[s] = ready[s]
  BY <1>1
<1>5. [s \in Sessions |-> ready'[s].status]
          = [[s \in Sessions |-> ready[s].status] EXCEPT ![a] = st]
  <2> DEFINE old == [s \in Sessions |-> ready[s].status]
             new == [s \in Sessions |-> ready'[s].status]
  <2>1. \A s \in Sessions : new[s] = IF s = a THEN st ELSE old[s]
    BY <1>4
  <2>2. new = [s \in Sessions |-> IF s = a THEN st ELSE old[s]]
    BY <2>1
  <2>3. DOMAIN old = Sessions
    OBVIOUS
  <2> HIDE DEF old, new
  <2>4. [old EXCEPT ![a] = st] = [s \in Sessions |-> IF s = a THEN st ELSE old[s]]
    BY <2>3
  <2> QED  BY <2>2, <2>4 DEF old, new
<1>6. Evidence!Publish(a, st)
  BY <1>2, <1>3, <1>5 DEF Evidence!Publish
<1> QED  BY <1>6

(* Each step is a read, a capture, a publication, or none of them.           *)
LEMMA EvidenceStep ==
    ASSUME IInv, IInv', OrderInv, [Next]_vars
    PROVE  [Evidence!EvidenceNext]_(Evidence!evidenceVars)
<1>1. ASSUME NEW s \in Sessions, NEW d \in Direction, NEW k, NEW n, Observe(s, d, k, n)
      PROVE  Evidence!EvidenceNext
  BY <1>1, EvidenceRead DEF Evidence!EvidenceNext
<1>2. CASE WorkerEvent
  BY <1>2, EvidenceCapture, EvidenceStutter DEF Evidence!EvidenceNext
<1>3. CASE WorkerReady
  <2>1. /\ work.s \in Sessions /\ manifest[work.s] # NoManifest /\ ready[work.s] = NoManifest
        /\ UNCHANGED <<cnt, timeline>>
        /\ ready' = ready \/ ready' = [ready EXCEPT ![work.s] = manifest[work.s]]
    BY <1>3 DEF IInv, ThreadAtWork, WorkerReady, loopVars
  <2> QED  BY <2>1, EvidencePublish, EvidenceStutter DEF Evidence!EvidenceNext
<1>4. CASE RecoverReady
  <2>1. /\ rec.s \in Sessions /\ manifest[rec.s] # NoManifest /\ ready[rec.s] = NoManifest
        /\ UNCHANGED <<cnt, timeline>>
        /\ ready' = [ready EXCEPT ![rec.s] = manifest[rec.s]]
    BY <1>4 DEF IInv, RecoveryAtWork, RecoverReady, loopVars
  <2> QED  BY <2>1, EvidencePublish DEF Evidence!EvidenceNext
<1>5. ASSUME UNCHANGED <<cnt, timeline, ready>>
      PROVE  UNCHANGED Evidence!evidenceVars
  BY <1>5, EvidenceStutter
<1>6. ASSUME NEW s \in Sessions,
             \/ OpenSession(s) \/ EndPumps(s) \/ LoseFinalizer(s) \/ PutClose(s)
             \/ PutCloseTimeout(s) \/ CancelFinalizer(s) \/ FinalizerReturns(s)
             \/ NotifyFailure(s) \/ \E d \in Direction : Record(s, d)
             \/ \E tc \in BOOLEAN : Finalize(s, tc)
      PROVE  UNCHANGED <<cnt, timeline, ready>>
  BY <1>6 DEF OpenSession, EndPumps, LoseFinalizer, PutClose, PutCloseTimeout, CancelFinalizer,
     FinalizerReturns, NotifyFailure, Record, Finalize, diskVars
<1>7. ASSUME NEW s \in Sessions,
             RecoverSkip(s) \/ RecoverKeepManifest(s) \/ RecoverDistrust(s) \/ RecoverBuild(s)
      PROVE  UNCHANGED <<cnt, timeline, ready>>
  BY <1>7 DEF RecoverSkip, RecoverKeepManifest, RecoverDistrust, RecoverBuild, loopVars, diskVars
<1>8. ASSUME \/ WorkerOpen \/ WorkerClose \/ WorkerRename \/ WorkerCheckDone \/ WorkerSet
             \/ WorkerStop \/ RecoverRename
      PROVE  UNCHANGED <<cnt, timeline, ready>>
  BY <1>8 DEF WorkerOpen, WorkerClose, WorkerRename, WorkerCheckDone, WorkerSet, WorkerStop,
     RecoverRename, loopVars, diskVars
<1>9. ASSUME \/ Start \/ StartDone \/ StopManager \/ Stopped \/ Crash \/ RecoveryFails
             \/ UNCHANGED vars
      PROVE  UNCHANGED <<cnt, timeline, ready>>
  BY <1>9 DEF Start, StartDone, StopManager, Stopped, Crash, RecoveryFails, ProcessGone, vars,
     diskVars
<1>10. CASE WorkerStep
  BY <1>2, <1>3, <1>5, <1>8, <1>10 DEF WorkerStep
<1>11. CASE RecoverStep
  BY <1>4, <1>5, <1>7, <1>8, <1>11 DEF RecoverStep
<1> QED  BY <1>1, <1>5, <1>6, <1>7, <1>9, <1>10, <1>11 DEF Next

(* The capture keeps the promise of JobEvidence, for any sessions, queue     *)
(* size, number of reads and number of crashes.                              *)
THEOREM CaptureImplements == Spec => ImplementsJobEvidence
<1>1. Init => Evidence!EvidenceInit
  <2> SUFFICES ASSUME Init PROVE Evidence!EvidenceInit
    OBVIOUS
  <2>1. \A s \in Sessions : cnt[s].events = 0 /\ timeline[s] = <<>> /\ ready[s].status = "none"
    BY DEF Init, NewCounters, NoManifest
  <2>2. Len(<<>>) = 0
    OBVIOUS
  <2> QED  BY <2>1, <2>2 DEF Evidence!EvidenceInit
<1>2. IInv /\ OrderInv /\ [Next]_vars => [Evidence!EvidenceNext]_(Evidence!evidenceVars)
  BY InvNext, EvidenceStep
<1> QED  BY <1>1, <1>2, Invariant, OrderInvariant, PTL DEF Spec, ImplementsJobEvidence, Evidence!EvidenceSpec

=============================================================================
