------------------------ MODULE CaptureSpoolInvariant ------------------------
(***************************************************************************)
(* The inductive invariant behind the theorems about CaptureSpool: what    *)
(* links the counters of the pumps, the commands on the queue, the writer  *)
(* thread's counters and the files of a session.                           *)
(***************************************************************************)
EXTENDS CaptureSpool

(***************************************************************************)
(* Facts about the commands of a session s on a queue q.                   *)
(***************************************************************************)
Positions(q) == 1 .. Len(q)
OpenAt(q, s, i) == q[i].op = "open" /\ q[i].s = s
EventAt(q, s, i) == q[i].op = "event" /\ q[i].s = s
CloseAt(q, s, i) == q[i].op = "close" /\ q[i].s = s

(* There are none.                                                           *)
Silent(q, s) ==
    \A i \in Positions(q) : ~OpenAt(q, s, i) /\ ~EventAt(q, s, i) /\ ~CloseAt(q, s, i)

(* One open command, ahead of the session's events; close behind them.       *)
Ordered(q, s) ==
    \A i, j \in Positions(q) :
        /\ OpenAt(q, s, i) /\ OpenAt(q, s, j) => i = j
        /\ OpenAt(q, s, i) /\ EventAt(q, s, j) => i < j
        /\ CloseAt(q, s, i) /\ EventAt(q, s, j) => j < i

(* Of the n events a session recorded, those its writer w has not seen are   *)
(* on the queue.  It says nothing of a writer that failed.                   *)
Pending(q, w, s, n) ==
    /\ w.open /\ ~w.errors => w.next <= n
    /\ \A i \in Positions(q) : EventAt(q, s, i) => q[i].ev.sequence < n
    /\ \A m \in 0 .. n - 1 :
          \/ \E i \in Positions(q) : OpenAt(q, s, i)
          \/ w.open /\ ~w.errors /\ w.next <= m
          => \E i \in Positions(q) : EventAt(q, s, i) /\ q[i].ev.sequence = m

(***************************************************************************)
(* The parts of the invariant.                                             *)
(***************************************************************************)

(* Outside start() .. stop() the process has no sessions, writers or queue.  *)
IdleProcess ==
    ~Running => /\ queue = <<>>
                /\ work.pc = "off"
                /\ \A s \in Sessions :
                      /\ cap[s].st \notin {"live", "closing", "detached", "waiting"}
                      /\ ~writer[s].open

(* Recovery runs before the manager does, on directories that are there.     *)
RecoveryAtWork ==
    /\ rec.pc # "off" => mgr = "recovering"
    /\ \A s \in rec.todo : dir[s] # "absent"
    /\ rec.pc \in {"rename", "ready"} =>
          /\ rec.s \in Sessions
          /\ manifest[rec.s] # NoManifest
          /\ ready[rec.s] = NoManifest
    /\ rec.pc = "ready" => dir[rec.s] = "final"

(* Between the manifest and the marker the thread is alone with its job.     *)
ThreadAtWork ==
    /\ work.pc \in {"rename", "ready"} =>
          /\ work.s \in Sessions
          /\ manifest[work.s] # NoManifest
          /\ ready[work.s] = NoManifest
    /\ work.pc = "ready" => dir[work.s] = "final"

(* A summary without errors of a session with two EOFs: every read of the    *)
(* session is with the writer or on its way.                                 *)
Faithful(s, sum) ==
    sum.transport /\ ~sum.failed =>
        /\ \A d \in Direction : pump[s][d] = "eof"
        /\ sum.bytes = cnt[s].bytes
        /\ Pending(queue, writer[s], s, cnt[s].events)

Holding(s, d) == IF pump[s][d] = "held" THEN 1 ELSE 0

LiveSession(s) ==
    cap[s].st = "live" =>
        /\ \A d \in Direction : pump[s][d] = "held" => held[s][d] \in CaptureEvent
        /\ ~cap[s].failed => cap[s].accepting
        /\ cap[s].accepting => Pending(queue, writer[s], s, cap[s].sequence)
        /\ cap[s].accepting /\ (\A d \in Direction : pump[s][d] # "dead") =>
              cnt[s].events = cap[s].sequence + Holding(s, "client") + Holding(s, "device")

ClosingSession(s) ==
    cap[s].st \in {"closing", "detached"} => Faithful(s, cap[s].sum)

(* A new session has read and queued nothing; the commands of any other come *)
(* in order, and a close command is true.                                    *)
Commands(s) ==
    /\ cap[s].st = "new" => /\ Silent(queue, s)
                            /\ cap[s].sequence = 0
                            /\ cnt[s].events = 0
                            /\ \A d \in Direction : pump[s][d] = "read"
    /\ Ordered(queue, s)
    /\ \A i \in Positions(queue) :
          CloseAt(queue, s, i) => cap[s].st \notin {"new", "live"} /\ Faithful(s, queue[i].sum)

(* Nothing is on disk before the open command is processed.                  *)
NotOpened(s) ==
    /\ cap[s].st = "new" => dir[s] = "absent"
    /\ \A i \in Positions(queue) : OpenAt(queue, s, i) => dir[s] = "absent"
    /\ dir[s] = "absent" =>
          /\ ~writer[s].open
          /\ raw[s] = Zero
          /\ timeline[s] = <<>>
          /\ tail[s] = "clean"
          /\ manifest[s] = NoManifest

(* A writer without errors has on disk what it has counted.                  *)
OpenWriter(s) ==
    writer[s].open =>
        /\ manifest[s] = NoManifest
        /\ ~writer[s].errors => /\ raw[s] = writer[s].bytes
                                /\ tail[s] = "clean"
                                /\ Len(timeline[s]) = writer[s].next

(* With a manifest the job is at rest.                                       *)
Sealed(s) ==
    /\ manifest[s] # NoManifest =>
          /\ cap[s].st \notin {"new", "live"}
          /\ manifest[s].files = raw[s]
    /\ manifest[s].status = "COMPLETE" =>
          /\ Len(timeline[s]) = cnt[s].events
          /\ raw[s] = cnt[s].bytes
          /\ tail[s] = "clean"
          /\ \A d \in Direction : pump[s][d] = "eof"
    /\ ready[s] # NoManifest => dir[s] = "final" /\ manifest[s] = ready[s]

SessionInv(s) ==
    /\ LiveSession(s)
    /\ ClosingSession(s)
    /\ Commands(s)
    /\ NotOpened(s)
    /\ OpenWriter(s)
    /\ Sealed(s)

IInv ==
    /\ TypeOK
    /\ IdleProcess
    /\ RecoveryAtWork
    /\ ThreadAtWork
    /\ \A s \in Sessions : SessionInv(s)

-----------------------------------------------------------------------------
(***************************************************************************)
(* The second invariant: the numbering.  The pumps number what they read,  *)
(* record() numbers what it queues, append() checks both against its own   *)
(* counters, and the timeline is what it let pass.                         *)
(***************************************************************************)

(* The writer is still going to take the session's events: its open command  *)
(* is on the queue, or it is open and no write has failed.                   *)
Expecting(q, w, s) ==
    \/ \E i \in Positions(q) : OpenAt(q, s, i)
    \/ w.open /\ ~w.errors

(* Number n comes next for the writer w once it has taken what is on the     *)
(* queue ahead of position p; likewise read m, at offset o, of direction d.  *)
FollowsEvent(q, w, s, n, p) ==
    \/ w.next = n
    \/ \E k \in 1 .. p - 1 : EventAt(q, s, k) /\ q[k].ev.sequence + 1 = n
FollowsRead(q, w, s, d, m, o, p) ==
    \/ w.dirseq[d] = m /\ w.bytes[d] = o
    \/ \E k \in 1 .. p - 1 :
          /\ EventAt(q, s, k)
          /\ q[k].ev.direction = d
          /\ q[k].ev.dirseq + 1 = m
          /\ q[k].ev.offset + q[k].ev.length = o

(* The events of a session are queued in the order of both numberings ...    *)
Rising(q, s) ==
    \A i, j \in Positions(q) :
        i < j /\ EventAt(q, s, i) /\ EventAt(q, s, j) =>
            /\ q[i].ev.sequence < q[j].ev.sequence
            /\ q[i].ev.observed # q[j].ev.observed
            /\ q[i].ev.direction = q[j].ev.direction => q[i].ev.dirseq < q[j].ev.dirseq

(* ... each the next one for the writer behind those ahead of it; a writer   *)
(* that failed waits for a number that is gone.                              *)
Chained(q, w, s) ==
    \A i \in Positions(q) :
        EventAt(q, s, i) =>
            LET e == q[i].ev
            IN  /\ Expecting(q, w, s) =>
                      /\ FollowsEvent(q, w, s, e.sequence, i)
                      /\ FollowsRead(q, w, s, e.direction, e.dirseq, e.offset, i)
                /\ w.open /\ w.errors => e.sequence > w.next

(* An event is a read of the session; what is queued is not in the timeline. *)
IsRead(e, n) == e.observed < n /\ (e.kind = "eof" => e.length = 0)
QueuedReads(s) ==
    \A i \in Positions(queue) :
        EventAt(queue, s, i) =>
            /\ IsRead(queue[i].ev, cnt[s].events)
            /\ queue[i].ev.sequence < cnt[s].events
            /\ \A k \in DOMAIN timeline[s] : timeline[s][k].observed # queue[i].ev.observed

(* What a pump holds is the last read of its direction, queued and recorded  *)
(* nowhere else.                                                             *)
HeldRead(s, d) ==
    LET e == held[s][d]
    IN  /\ IsRead(e, cnt[s].events)
        /\ e.direction = d
        /\ e.dirseq + 1 = cnt[s].dirseq[d]
        /\ e.offset + e.length = cnt[s].bytes[d]
        /\ \A i \in Positions(queue) : EventAt(queue, s, i) => queue[i].ev.observed # e.observed
        /\ \A k \in DOMAIN timeline[s] : timeline[s][k].observed # e.observed

(* The read a pump is going to record next.                                  *)
NextDirseq(s, d) == IF pump[s][d] = "held" THEN held[s][d].dirseq ELSE cnt[s].dirseq[d]
NextOffset(s, d) == IF pump[s][d] = "held" THEN held[s][d].offset ELSE cnt[s].bytes[d]

LiveNumbers(s) ==
    cap[s].st = "live" =>
        /\ cap[s].sequence + Holding(s, "client") + Holding(s, "device") <= cnt[s].events
        /\ \A d \in Direction : pump[s][d] = "held" => HeldRead(s, d)
        /\ (\A d \in Direction : pump[s][d] = "held")
              => held[s]["client"].observed # held[s]["device"].observed
        /\ \A i \in Positions(queue) :
              EventAt(queue, s, i) =>
                  /\ queue[i].ev.sequence < cap[s].sequence
                  /\ pump[s][queue[i].ev.direction] \in {"read", "held"} =>
                        queue[i].ev.dirseq < NextDirseq(s, queue[i].ev.direction)
        /\ cap[s].accepting /\ Expecting(queue, writer[s], s) =>
              /\ FollowsEvent(queue, writer[s], s, cap[s].sequence, Len(queue) + 1)
              /\ \A d \in Direction :
                    pump[s][d] \in {"read", "held"} =>
                        FollowsRead(queue, writer[s], s, d, NextDirseq(s, d), NextOffset(s, d),
                                    Len(queue) + 1)
        /\ writer[s].open /\ writer[s].errors => cap[s].sequence > writer[s].next

NewNumbers(s) == cap[s].st = "new" => cnt[s] = NewCounters

(* The records of a timeline t of n reads, over RAW files of sizes r, each   *)
(* at the end of those before it.                                            *)
Before(t, i, d) == {j \in 1 .. i - 1 : t[j].direction = d}
Numbered(t, n, r) ==
    /\ \A i \in DOMAIN t :
          /\ IsRead(t[i], n)
          /\ t[i].sequence = i - 1
          /\ t[i].dirseq = Cardinality(Before(t, i, t[i].direction))
          /\ t[i].offset = CoveredBytes(SubSeq(t, 1, i - 1), t[i].direction)
          /\ t[i].offset + t[i].length <= CoveredBytes(t, t[i].direction)
          /\ t[i].offset + t[i].length <= r[t[i].direction]
    /\ \A i, j \in DOMAIN t :
          i < j => /\ t[i].observed # t[j].observed
                   /\ t[i].direction = t[j].direction => t[i].offset + t[i].length <= t[j].offset
    /\ \A d \in Direction :
          RecordsOf(t, d, "data") # {} =>
              \E i \in RecordsOf(t, d, "data") : \A j \in RecordsOf(t, d, "data") : j <= i
RecordsNumbered(s) == Numbered(timeline[s], cnt[s].events, raw[s])

(* What a timeline is to the counters of the writer or of its manifest: they *)
(* count its records, but for a last one whose newline or fsync failed.      *)
Counted(t, events, bytes, chunks) ==
    LET u == SubSeq(t, 1, events)
    IN  /\ Len(t) \in {events, events + 1}
        /\ \A d \in Direction : /\ CoveredBytes(u, d) = bytes[d]
                                /\ Cardinality(RecordsOf(u, d, "data")) = chunks[d]

WriterCounts(s) ==
    /\ ~writer[s].open => writer[s] = NoWriter
    /\ writer[s].open =>
          /\ sfile[s] = "ok"
          /\ Counted(timeline[s], writer[s].next, writer[s].bytes, writer[s].chunks)
          /\ \A d \in Direction :
                writer[s].dirseq[d] = Cardinality(Before(timeline[s], writer[s].next + 1, d))

ManifestCounts(s) ==
    LET m == manifest[s]
    IN  m # NoManifest =>
            /\ sfile[s] \in {"ok", "empty"}
            /\ ~m.recovered =>
                  /\ sfile[s] = "ok"
                  /\ Counted(timeline[s], m.events, m.bytes, m.chunks)
            /\ m.recovered =>
                  /\ m.status = "PARTIAL"
                  /\ m.storage = TimelineCoversRaw(s)
                  /\ m.bytes = raw[s]
                  /\ m.events = Len(timeline[s])
                  /\ \A d \in Direction :
                        Cardinality(RecordsOf(timeline[s], d, "data")) = m.chunks[d]
            /\ m.status = "COMPLETE" => m.bytes = raw[s] /\ m.events = Len(timeline[s])

SessionOrder(s) ==
    /\ Rising(queue, s) /\ Chained(queue, writer[s], s) /\ QueuedReads(s)
    /\ NewNumbers(s) /\ LiveNumbers(s)
    /\ RecordsNumbered(s) /\ WriterCounts(s) /\ ManifestCounts(s)

OrderInv == \A s \in Sessions : SessionOrder(s)

(* The inductive invariant: no read is lost on its way from the pumps to the *)
(* manifest, and each arrives in its place.                                  *)
CaptureInv == IInv /\ OrderInv
=============================================================================
