---------------------------- MODULE CaptureSpool ----------------------------
(***************************************************************************)
(* The capture side of the relay (proxy/spool.py): sessions of the asyncio *)
(* loop put commands on one bounded queue, a dedicated writer thread turns *)
(* them into a job directory per session, and every process start recovers *)
(* the directories an earlier process left without a .ready marker.        *)
(*                                                                         *)
(* Three actors interleave: the event loop (pumps, finalizers, stop), the  *)
(* writer thread, and crash / restart of the process.  Files are data the  *)
(* properties tell apart: byte counts of the two RAW streams, the sequence *)
(* of timeline records, the manifest, the marker.                          *)
(***************************************************************************)
EXTENDS Naturals, Sequences, FiniteSets

CONSTANTS
    Sessions,      \* sessions of the relay; each has one job directory
    NoSession,     \* no session at hand (writer thread, recovery)
    QueueMax,      \* queue_max_events
    ChunkSizes,    \* lengths a read may return
    MaxObserved,   \* bound: reads (chunks and EOFs) of each session
    MaxCrashes     \* bound: crashes and failed starts

ASSUME SessionsAssumption == NoSession \notin Sessions
ASSUME QueueMaxAssumption == QueueMax \in Nat \ {0}
ASSUME ChunkSizesAssumption == ChunkSizes \subseteq (Nat \ {0})
ASSUME BoundsAssumption == MaxObserved \in [Sessions -> Nat] /\ MaxCrashes \in Nat

Direction == {"client", "device"}
Zero == [d \in Direction |-> 0]

(* A capture event.  sequence numbers what the session recorded, observed   *)
(* and dirseq what the pumps read (in the session, in the direction).       *)
CaptureEvent == [sequence : Nat, observed : Nat, dirseq : Nat, offset : Nat,
                 direction : Direction, kind : {"data", "eof"}, length : Nat]
NoEvent == [sequence |-> 0, observed |-> 0, dirseq |-> 0, offset |-> 0,
            direction |-> "client", kind |-> "none", length |-> 0]

(* SessionCloseSummary with the errors and drops finalize() snapshots.      *)
CloseSummary == [transport : BOOLEAN, bytes : [Direction -> Nat],
                 chunks : [Direction -> Nat], failed : BOOLEAN, dropped : Nat]

Command == [op : {"open"}, s : Sessions]
           \cup [op : {"event"}, s : Sessions, ev : CaptureEvent]
           \cup [op : {"close"}, s : Sessions, sum : CloseSummary]
           \cup [op : {"stop"}]

(* What the properties need of manifest.json.  files holds the sizes of the *)
(* two RAW files it was computed from.                                      *)
Manifest == [status : {"COMPLETE", "PARTIAL"}, recovered : BOOLEAN,
             transport : BOOLEAN, storage : BOOLEAN,
             bytes : [Direction -> Nat], chunks : [Direction -> Nat],
             events : Nat, files : [Direction -> Nat]]
NoManifest == [status |-> "none", recovered |-> FALSE, transport |-> FALSE,
               storage |-> FALSE, bytes |-> Zero, chunks |-> Zero,
               events |-> 0, files |-> Zero]

VARIABLES
    \* ---- event loop
    mgr,        \* life cycle of the CaptureManager and its process
    cap,        \* CaptureSession of each session, and its finalizer task
    cnt,        \* _RelayCounters of each session (kept after its end as history)
    pump,       \* state of the two pumps of each session
    held,       \* the event a pump has numbered and not yet recorded
    notices,    \* sessions with a failure posted by call_soon_threadsafe
    \* ---- between the loop and the writer thread
    queue,      \* the bounded queue.Queue
    fut,        \* future of each session's close command
    \* ---- writer thread
    work,       \* where the thread is
    writer,     \* writers: the _SessionSpool of each open session
    \* ---- start-up recovery
    rec,        \* recover_incomplete_spool: where it is, what it has left
    \* ---- disk
    dir,        \* "absent", "partial" (x.partial) or "final" (x)
    sfile,      \* session.json
    raw,        \* bytes of client.raw and device.raw
    timeline,   \* parseable records of timeline.jsonl
    tail,       \* what follows the last newline-terminated record
    manifest,   \* manifest.json
    ready,      \* the manifest the .ready marker is bound to
    \* ---- bound
    crashes

loopVars == <<mgr, cap, cnt, pump, held, notices>>
threadVars == <<work, writer>>
diskVars == <<dir, sfile, raw, timeline, tail, manifest, ready>>
vars == <<mgr, cap, cnt, pump, held, notices, queue, fut, work, writer, rec,
          dir, sfile, raw, timeline, tail, manifest, ready, crashes>>

NoSummary == [transport |-> FALSE, bytes |-> Zero, chunks |-> Zero,
              failed |-> FALSE, dropped |-> 0]
SessionAt(st) == [st |-> st, accepting |-> FALSE, sequence |-> 0,
                  failed |-> FALSE, dropped |-> 0, sum |-> NoSummary]
NoWriter == [open |-> FALSE, next |-> 0, dirseq |-> Zero, bytes |-> Zero,
             chunks |-> Zero, errors |-> FALSE]
NewWriter == [NoWriter EXCEPT !.open = TRUE]
NewCounters == [events |-> 0, bytes |-> Zero, chunks |-> Zero, dirseq |-> Zero]
ThreadAt(p) == [pc |-> p, s |-> NoSession]
RecoveryAt(p, t) == [pc |-> p, s |-> NoSession, todo |-> t]

Init ==
    /\ mgr = "down"
    /\ cap = [s \in Sessions |-> SessionAt("new")]
    /\ cnt = [s \in Sessions |-> NewCounters]
    /\ pump = [s \in Sessions |-> [d \in Direction |-> "read"]]
    /\ held = [s \in Sessions |-> [d \in Direction |-> NoEvent]]
    /\ notices = {}
    /\ queue = <<>>
    /\ fut = [s \in Sessions |-> "none"]
    /\ work = ThreadAt("off")
    /\ writer = [s \in Sessions |-> NoWriter]
    /\ rec = RecoveryAt("off", {})
    /\ dir = [s \in Sessions |-> "absent"]
    /\ sfile = [s \in Sessions |-> "missing"]
    /\ raw = [s \in Sessions |-> Zero]
    /\ timeline = [s \in Sessions |-> <<>>]
    /\ tail = [s \in Sessions |-> "clean"]
    /\ manifest = [s \in Sessions |-> NoManifest]
    /\ ready = [s \in Sessions |-> NoManifest]
    /\ crashes = 0

(* Definitions named Seeded... are the defects the properties are tried on:  *)
(* each stands for the definition after it with a plausible mistake in it.   *)

(***************************************************************************)
(* What the manifests are computed from.                                   *)
(***************************************************************************)

(* _inspect_timeline: the records that parse are the ones append() wrote,   *)
(* which are chained and contiguous; what it computes of them.  An          *)
(* unterminated last record parses, a torn one ends the scan as not intact. *)
RecordsOf(t, d, k) == {i \in DOMAIN t : t[i].direction = d /\ t[i].kind = k}
CoveredBytes(t, d) ==
    LET data == RecordsOf(t, d, "data")
    IN  IF data = {} THEN 0
        ELSE LET last == CHOOSE i \in data : \A j \in data : j <= i
             IN  t[last].offset + t[last].length

TimelineCoversRaw(s) ==
    /\ tail[s] # "torn"
    /\ \A d \in Direction : CoveredBytes(timeline[s], d) = raw[s][d]

(* recover_incomplete_spool: missing RAW files are created with 0 bytes, the *)
(* others kept as they are; the manifest of a directory that has none.       *)
RecoveredRaw(s) == raw[s]

SeededInventCompleteness(s) == IF TimelineCoversRaw(s) THEN "COMPLETE" ELSE "PARTIAL"
RecoveredStatus(s) == "PARTIAL"

RecoveryManifest(s) ==
    [status |-> RecoveredStatus(s), recovered |-> TRUE, transport |-> FALSE,
     storage |-> TimelineCoversRaw(s), bytes |-> RecoveredRaw(s),
     chunks |-> [d \in Direction |-> Cardinality(RecordsOf(timeline[s], d, "data"))],
     events |-> Len(timeline[s]), files |-> RecoveredRaw(s)]

(* _SessionSpool.finalize: the two completeness flags and the manifest.     *)
SeededIgnoreWriterErrors(s, sum) ==
    /\ sum.bytes = writer[s].bytes
    /\ sum.chunks = writer[s].chunks
    /\ ~sum.failed
    /\ sum.dropped = 0
StorageComplete(s, sum) ==
    /\ sum.bytes = writer[s].bytes
    /\ sum.chunks = writer[s].chunks
    /\ ~writer[s].errors
    /\ ~sum.failed
    /\ sum.dropped = 0

SeededSizesFromCounters(s) == writer[s].bytes
FileFacts(s) == raw[s]

CloseManifest(s, sum) ==
    [status |-> IF StorageComplete(s, sum) /\ sum.transport THEN "COMPLETE" ELSE "PARTIAL",
     recovered |-> FALSE, transport |-> sum.transport,
     storage |-> StorageComplete(s, sum), bytes |-> writer[s].bytes,
     chunks |-> writer[s].chunks, events |-> writer[s].next, files |-> FileFacts(s)]

(***************************************************************************)
(* The event loop: sessions, pumps, finalizers.                            *)
(***************************************************************************)

(* _running holds from the end of start() to the end of stop().             *)
Running == mgr \in {"running", "stopping"}
InSessions(s) == cap[s].st \in {"live", "closing", "waiting"}

(* open_session_nowait: the open command is queued, or the session refused  *)
(* because the manager is not running or the queue is full.                 *)
OpenSession(s) ==
    /\ Running
    /\ cap[s].st = "new"
    /\ \/ /\ Len(queue) < QueueMax
          /\ queue' = Append(queue, [op |-> "open", s |-> s])
          /\ cap' = [cap EXCEPT ![s].st = "live", ![s].accepting = TRUE]
       \/ /\ Len(queue) = QueueMax
          /\ cap' = [cap EXCEPT ![s] = SessionAt("refused")]
          /\ UNCHANGED queue
    /\ UNCHANGED <<mgr, cnt, pump, held, notices, fut, threadVars, rec, diskVars, crashes>>

(* A pump reads a chunk or EOF and numbers it at once (_RelayCounters), then *)
(* awaits the forwarding of it with the event still unrecorded.              *)
Observe(s, d, k, n) ==
    /\ Running
    /\ cap[s].st = "live"
    /\ pump[s][d] = "read"
    /\ cnt[s].events < MaxObserved[s]
    /\ held' = [held EXCEPT ![s][d] =
                  [sequence |-> 0, observed |-> cnt[s].events,
                   dirseq |-> cnt[s].dirseq[d], offset |-> cnt[s].bytes[d],
                   direction |-> d, kind |-> k, length |-> n]]
    /\ cnt' = [cnt EXCEPT ![s].events = @ + 1,
                          ![s].dirseq[d] = @ + 1,
                          ![s].bytes[d] = @ + n,
                          ![s].chunks[d] = @ + (IF k = "data" THEN 1 ELSE 0)]
    /\ pump' = [pump EXCEPT ![s][d] = "held"]
    /\ UNCHANGED <<mgr, cap, notices, queue, fut, threadVars, rec, diskVars, crashes>>

(* CaptureSession.record: queue the event, or drop it (and, when the queue  *)
(* is full, stop accepting for good).                                       *)
SeededNoBound(s) == cap[s].accepting
Chunks(ev) == IF ev.kind = "data" THEN 1 ELSE 0
SeededStillAccepting(c, ev) == [c EXCEPT !.dropped = @ + Chunks(ev)]
Refused(c, ev) == [c EXCEPT !.accepting = FALSE,
                            !.failed = @ \/ c.accepting,
                            !.dropped = @ + Chunks(ev)]
Accepted(s) == cap[s].accepting /\ Len(queue) < QueueMax

Record(s, d) ==
    /\ Running
    /\ cap[s].st = "live"
    /\ pump[s][d] = "held"
    /\ \/ /\ Accepted(s)
          /\ queue' = Append(queue, [op |-> "event", s |-> s,
                        ev |-> [held[s][d] EXCEPT !.sequence = cap[s].sequence]])
          /\ cap' = [cap EXCEPT ![s].sequence = @ + 1]
       \/ /\ ~Accepted(s)
          /\ cap' = [cap EXCEPT ![s] = Refused(@, held[s][d])]
          /\ UNCHANGED queue
    /\ pump' = [pump EXCEPT ![s][d] = IF held[s][d].kind = "eof" THEN "eof" ELSE "read"]
    /\ held' = [held EXCEPT ![s][d] = NoEvent]
    /\ UNCHANGED <<mgr, cnt, notices, fut, threadVars, rec, diskVars, crashes>>

(* The pumps end before EOF: a forwarding error of one, a timeout, a storage *)
(* failure or shutdown ends both.  One cancelled while it forwards never     *)
(* records what it held.                                                     *)
EndPumps(s) ==
    /\ Running
    /\ cap[s].st = "live"
    /\ \E d \in Direction : pump[s][d] \in {"read", "held"}
    /\ pump' = [pump EXCEPT ![s] =
                  [d \in Direction |-> IF pump[s][d] = "eof" THEN "eof" ELSE "dead"]]
    /\ held' = [held EXCEPT ![s] = [d \in Direction |-> NoEvent]]
    /\ UNCHANGED <<mgr, cap, cnt, notices, queue, fut, threadVars, rec, diskVars, crashes>>

PumpsOver(s) == \A d \in Direction : pump[s][d] \in {"eof", "dead"}

(* CaptureSession.finalize: the errors and drops are read now, the close     *)
(* command carries them.  transport_complete needs both pumps at EOF.        *)
Finalize(s, tc) ==
    /\ Running
    /\ cap[s].st = "live"
    /\ PumpsOver(s)
    /\ tc => \A d \in Direction : pump[s][d] = "eof"
    /\ cap' = [cap EXCEPT ![s].st = "closing",
                          ![s].sum = [transport |-> tc, bytes |-> cnt[s].bytes,
                                      chunks |-> cnt[s].chunks,
                                      failed |-> cap[s].failed,
                                      dropped |-> cap[s].dropped]]
    /\ UNCHANGED <<mgr, cnt, pump, held, notices, queue, fut, threadVars, rec, diskVars, crashes>>

(* The session task is cancelled again while it closes the device writer:    *)
(* no finalizer task is created and the job stays .partial until a restart.  *)
LoseFinalizer(s) ==
    /\ Running
    /\ cap[s].st = "live"
    /\ PumpsOver(s)
    /\ cap' = [cap EXCEPT ![s] = SessionAt("lost")]
    /\ UNCHANGED <<mgr, cnt, pump, held, notices, queue, fut, threadVars, rec, diskVars, crashes>>

(* _put_control of the close command, in a helper thread: it goes on after   *)
(* the finalizer that started it was cancelled ("detached").                 *)
PutClose(s) ==
    /\ Running
    /\ cap[s].st \in {"closing", "detached"}
    /\ Len(queue) < QueueMax
    /\ queue' = Append(queue, [op |-> "close", s |-> s, sum |-> cap[s].sum])
    /\ fut' = [fut EXCEPT ![s] = "pending"]
    /\ cap' = [cap EXCEPT ![s] = SessionAt(IF @.st = "closing" THEN "waiting" ELSE "lost")]
    /\ UNCHANGED <<mgr, cnt, pump, held, notices, threadVars, rec, diskVars, crashes>>

(* The put times out on a full queue (CaptureQueueFull).                     *)
PutCloseTimeout(s) ==
    /\ Running
    /\ cap[s].st \in {"closing", "detached"}
    /\ Len(queue) = QueueMax
    /\ cap' = [cap EXCEPT ![s] = SessionAt("lost")]
    /\ UNCHANGED <<mgr, cnt, pump, held, notices, queue, fut, threadVars, rec, diskVars, crashes>>

(* RelayService.stop cancels a finalizer that outlives the grace period.     *)
(* While it waits, cancelling the wrapped future cancels the command's.      *)
CancelFinalizer(s) ==
    /\ mgr = "running"
    /\ \/ /\ cap[s].st = "closing"
          /\ cap' = [cap EXCEPT ![s].st = "detached"]
          /\ UNCHANGED fut
       \/ /\ cap[s].st = "waiting"
          /\ fut[s] = "pending"
          /\ cap' = [cap EXCEPT ![s] = SessionAt("lost")]
          /\ fut' = [fut EXCEPT ![s] = "cancelled"]
    /\ UNCHANGED <<mgr, cnt, pump, held, notices, queue, threadVars, rec, diskVars, crashes>>

(* The finalizer sees its future resolved, by a result or an exception.      *)
FinalizerReturns(s) ==
    /\ Running
    /\ cap[s].st = "waiting"
    /\ fut[s] = "resolved"
    /\ cap' = [cap EXCEPT ![s] = SessionAt("ended")]
    /\ UNCHANGED <<mgr, cnt, pump, held, notices, queue, fut, threadVars, rec, diskVars, crashes>>

(* _notify_failure runs on the loop, some time after the thread posted it.   *)
NotifyFailure(s) ==
    /\ Running
    /\ s \in notices
    /\ notices' = notices \ {s}
    /\ cap' = IF InSessions(s)
              THEN [cap EXCEPT ![s].failed = TRUE, ![s].accepting = FALSE]
              ELSE cap
    /\ UNCHANGED <<mgr, cnt, pump, held, queue, fut, threadVars, rec, diskVars, crashes>>

(***************************************************************************)
(* The writer thread.                                                      *)
(***************************************************************************)
HeadIs(o) == /\ work.pc = "get"
             /\ queue # <<>>
             /\ Head(queue).op = o

(* Open: the directory and its files, or the prefix of them created before   *)
(* an I/O error (open_failed); then no writer exists and the loop is told.   *)
WorkerOpen ==
    /\ HeadIs("open")
    /\ queue' = Tail(queue)
    /\ LET s == Head(queue).s IN
       \/ /\ dir' = [dir EXCEPT ![s] = "partial"]
          /\ sfile' = [sfile EXCEPT ![s] = "ok"]
          /\ writer' = [writer EXCEPT ![s] = NewWriter]
          /\ UNCHANGED notices
       \/ /\ \/ UNCHANGED <<dir, sfile>>
             \/ dir' = [dir EXCEPT ![s] = "partial"] /\ UNCHANGED sfile
             \/ dir' = [dir EXCEPT ![s] = "partial"] /\ sfile' = [sfile EXCEPT ![s] = "ok"]
          /\ notices' = notices \cup {s}
          /\ UNCHANGED writer
    /\ UNCHANGED <<mgr, cap, cnt, pump, held, fut, work, rec, raw, timeline, tail,
                   manifest, ready, crashes>>

(* append: the order checks, then RAW, then the timeline record, then the    *)
(* counters.  A failure at any point leaves the files as they are: also the  *)
(* fsync after a record that is whole, which then no counter counts.         *)
SeededNoSequenceCheck(w, ev) ==
    /\ ev.dirseq = w.dirseq[ev.direction]
    /\ ev.offset = w.bytes[ev.direction]
InOrder(w, ev) ==
    /\ ev.sequence = w.next
    /\ ev.dirseq = w.dirseq[ev.direction]
    /\ ev.offset = w.bytes[ev.direction]

AppendDone(s, ev) ==
    /\ InOrder(writer[s], ev)
    /\ raw' = [raw EXCEPT ![s][ev.direction] = @ + ev.length]
    /\ timeline' = [timeline EXCEPT ![s] = Append(@, ev)]
    /\ writer' = [writer EXCEPT
                    ![s].next = @ + 1,
                    ![s].dirseq[ev.direction] = @ + 1,
                    ![s].bytes[ev.direction] = @ + ev.length,
                    ![s].chunks[ev.direction] = @ + Chunks(ev)]
    /\ UNCHANGED <<tail, notices>>

AppendFails(s, ev) ==
    /\ \/ /\ ~InOrder(writer[s], ev)
          /\ UNCHANGED <<raw, timeline, tail>>
       \/ /\ InOrder(writer[s], ev)       \* RAW: nothing, or a short write
          /\ ev.kind = "data"
          /\ \E n \in 0 .. ev.length - 1 :
                raw' = [raw EXCEPT ![s][ev.direction] = @ + n]
          /\ UNCHANGED <<timeline, tail>>
       \/ /\ InOrder(writer[s], ev)       \* RAW written; the record not, or cut ...
          /\ raw' = [raw EXCEPT ![s][ev.direction] = @ + ev.length]
          /\ tail' \in {tail, [tail EXCEPT ![s] = "torn"]}
          /\ UNCHANGED timeline
       \/ /\ InOrder(writer[s], ev)       \* ... or whole, but for its newline or its fsync
          /\ raw' = [raw EXCEPT ![s][ev.direction] = @ + ev.length]
          /\ timeline' = [timeline EXCEPT ![s] = Append(@, ev)]
          /\ tail' \in {tail, [tail EXCEPT ![s] = "unterminated"]}
    /\ writer' = [writer EXCEPT ![s].errors = TRUE]
    /\ notices' = notices \cup {s}

WorkerEvent ==
    /\ HeadIs("event")
    /\ queue' = Tail(queue)
    /\ LET s == Head(queue).s
           ev == Head(queue).ev
       IN  \/ writer[s].open /\ AppendDone(s, ev)
           \/ writer[s].open /\ AppendFails(s, ev)
           \/ /\ ~writer[s].open
              /\ notices' = notices \cup {s}
              /\ UNCHANGED <<raw, timeline, tail, writer>>
    /\ UNCHANGED <<mgr, cap, cnt, pump, held, fut, work, rec, dir, sfile, manifest,
                   ready, crashes>>

(* Close, first part: the writer leaves the table, its files are closed and  *)
(* the manifest is written; without a writer, or on an error, the future     *)
(* gets an exception and the directory stays as it is.                       *)
SeededNobodyTold(s) == ThreadAt("get")
CloseFailed(s) == [pc |-> "resolve", s |-> s]
WithoutWriter(s) == [writer EXCEPT ![s] = NoWriter]

WorkerClose ==
    /\ HeadIs("close")
    /\ queue' = Tail(queue)
    /\ LET s == Head(queue).s
           sum == Head(queue).sum
       IN  /\ \/ /\ writer[s].open
                 /\ manifest' = [manifest EXCEPT ![s] = CloseManifest(s, sum)]
                 /\ work' = [pc |-> "rename", s |-> s]
              \/ /\ work' = CloseFailed(s)
                 /\ UNCHANGED manifest
           /\ writer' = WithoutWriter(s)
    /\ UNCHANGED <<loopVars, fut, rec, dir, sfile, raw, timeline, tail, ready, crashes>>

(* Close, then: rename .partial away, publish .ready.  Each may fail.        *)
WorkerRename ==
    /\ work.pc = "rename"
    /\ \/ /\ dir' = [dir EXCEPT ![work.s] = "final"]
          /\ work' = [work EXCEPT !.pc = "ready"]
       \/ /\ work' = CloseFailed(work.s)
          /\ UNCHANGED dir
    /\ UNCHANGED <<loopVars, queue, fut, writer, rec, sfile, raw, timeline, tail,
                   manifest, ready, crashes>>

WorkerReady ==
    /\ work.pc = "ready"
    /\ \/ ready' = [ready EXCEPT ![work.s] = manifest[work.s]]
       \/ UNCHANGED ready
    /\ work' = [work EXCEPT !.pc = "resolve"]
    /\ UNCHANGED <<loopVars, queue, fut, writer, rec, dir, sfile, raw, timeline,
                   tail, manifest, crashes>>

(* _future_result / _future_exception: "if not done" is one step, setting    *)
(* the future another; set on a future cancelled in between raises           *)
(* InvalidStateError, which nothing catches: the thread ends.                *)
WorkerCheckDone ==
    /\ work.pc = "resolve"
    /\ work' = IF fut[work.s] = "pending" THEN [work EXCEPT !.pc = "set"] ELSE ThreadAt("get")
    /\ UNCHANGED <<loopVars, queue, fut, writer, rec, diskVars, crashes>>

WorkerSet ==
    /\ work.pc = "set"
    /\ \/ /\ fut[work.s] = "pending"
          /\ fut' = [fut EXCEPT ![work.s] = "resolved"]
          /\ work' = ThreadAt("get")
       \/ /\ fut[work.s] = "cancelled"
          /\ work' = [work EXCEPT !.pc = "dead"]
          /\ UNCHANGED fut
    /\ UNCHANGED <<loopVars, queue, writer, rec, diskVars, crashes>>

(* Stop: every writer is abandoned, the thread returns; what is queued       *)
(* behind the stop command is never processed.                               *)
WorkerStop ==
    /\ HeadIs("stop")
    /\ queue' = Tail(queue)
    /\ writer' = [s \in Sessions |-> NoWriter]
    /\ work' = [work EXCEPT !.pc = "exited"]
    /\ UNCHANGED <<loopVars, fut, rec, diskVars, crashes>>

WorkerStep == WorkerOpen \/ WorkerEvent \/ WorkerClose \/ WorkerRename \/ WorkerReady
              \/ WorkerCheckDone \/ WorkerSet \/ WorkerStop

(***************************************************************************)
(* Life cycle of the process.                                              *)
(***************************************************************************)

(* What a process loses when it ends.  Counters and pumps stay as history.   *)
ProcessGone(m) ==
    /\ mgr' = m
    /\ cap' = [s \in Sessions |->
                 IF cap[s].st \in {"live", "closing", "detached", "waiting"}
                 THEN SessionAt("lost") ELSE cap[s]]
    /\ notices' = {}
    /\ queue' = <<>>
    /\ fut' = [s \in Sessions |-> "none"]
    /\ work' = ThreadAt("off")
    /\ writer' = [s \in Sessions |-> NoWriter]
    /\ rec' = RecoveryAt("off", {})
    /\ held' = [s \in Sessions |-> [d \in Direction |-> NoEvent]]
    /\ UNCHANGED <<cnt, pump, diskVars>>

(* CaptureManager.stop: the stop command is queued (a put that times out     *)
(* changes nothing), and stop() returns once the thread has.                 *)
StopManager ==
    /\ mgr = "running"
    /\ Len(queue) < QueueMax
    /\ queue' = Append(queue, [op |-> "stop"])
    /\ mgr' = "stopping"
    /\ UNCHANGED <<cap, cnt, pump, held, notices, fut, threadVars, rec, diskVars, crashes>>

Stopped ==
    /\ mgr = "stopping"
    /\ work.pc = "exited"
    /\ ProcessGone("down")
    /\ UNCHANGED crashes

Crash ==
    /\ mgr \notin {"down", "crashed"}
    /\ crashes < MaxCrashes
    /\ crashes' = crashes + 1
    /\ ProcessGone("crashed")

(* CaptureManager.start: list the job directories, recover them one by one,  *)
(* then run.  A failure in recovery ends the start (RecoveryFails).          *)
Candidates == {s \in Sessions : dir[s] # "absent"}

Start ==
    /\ mgr \in {"down", "crashed"}
    /\ mgr' = "recovering"
    /\ rec' = RecoveryAt("pick", Candidates)
    /\ UNCHANGED <<cap, cnt, pump, held, notices, queue, fut, threadVars, diskVars, crashes>>

StartDone ==
    /\ rec.pc = "pick"
    /\ rec.todo = {}
    /\ mgr' = "running"
    /\ rec' = RecoveryAt("off", {})
    /\ work' = ThreadAt("get")
    /\ UNCHANGED <<cap, cnt, pump, held, notices, queue, fut, writer, diskVars, crashes>>

(* A published directory is skipped; a readable manifest is kept; one that   *)
(* cannot be read is set aside (manifest.untrusted.json).                    *)
SeededManifestIsEnough(s) == manifest[s] # NoManifest
SeededNothingIs(s) == FALSE
Published(s) == ready[s] # NoManifest

RecoverSkip(s) ==
    /\ rec.pc = "pick"
    /\ s \in rec.todo
    /\ Published(s)
    /\ rec' = [rec EXCEPT !.todo = @ \ {s}]
    /\ UNCHANGED <<loopVars, queue, fut, threadVars, diskVars, crashes>>

RecoverKeepManifest(s) ==
    /\ rec.pc = "pick"
    /\ s \in rec.todo
    /\ ~Published(s)
    /\ manifest[s] # NoManifest
    /\ rec' = [rec EXCEPT !.pc = "rename", !.s = s]
    /\ UNCHANGED <<loopVars, queue, fut, threadVars, diskVars, crashes>>

RecoverDistrust(s) ==
    /\ rec.pc = "pick"
    /\ s \in rec.todo
    /\ ~Published(s)
    /\ manifest[s] # NoManifest
    /\ manifest' = [manifest EXCEPT ![s] = NoManifest]
    /\ UNCHANGED <<loopVars, queue, fut, threadVars, rec, dir, sfile, raw, timeline,
                   tail, ready, crashes>>

(* Without a manifest: missing files are created empty, the others are left  *)
(* as they are, and a PARTIAL manifest of what is there is written.          *)
RecoverBuild(s) ==
    /\ rec.pc = "pick"
    /\ s \in rec.todo
    /\ ~Published(s)
    /\ manifest[s] = NoManifest
    /\ sfile' = [sfile EXCEPT ![s] = IF @ = "missing" THEN "empty" ELSE @]
    /\ raw' = [raw EXCEPT ![s] = RecoveredRaw(s)]
    /\ manifest' = [manifest EXCEPT ![s] = RecoveryManifest(s)]
    /\ rec' = [rec EXCEPT !.pc = "rename", !.s = s]
    /\ UNCHANGED <<loopVars, queue, fut, threadVars, dir, timeline, tail, ready, crashes>>

(* _finish_recovered_directory, then _publish_ready.                         *)
RecoverRename ==
    /\ rec.pc = "rename"
    /\ dir' = [dir EXCEPT ![rec.s] = "final"]
    /\ rec' = [rec EXCEPT !.pc = "ready"]
    /\ UNCHANGED <<loopVars, queue, fut, threadVars, sfile, raw, timeline, tail,
                   manifest, ready, crashes>>

RecoverReady ==
    /\ rec.pc = "ready"
    /\ ready' = [ready EXCEPT ![rec.s] = manifest[rec.s]]
    /\ rec' = RecoveryAt("pick", rec.todo \ {rec.s})
    /\ UNCHANGED <<loopVars, queue, fut, threadVars, dir, sfile, raw, timeline, tail,
                   manifest, crashes>>

(* An I/O error in one directory ends the whole recovery, and the start.     *)
RecoveryFails ==
    /\ mgr = "recovering"
    /\ crashes < MaxCrashes
    /\ crashes' = crashes + 1
    /\ ProcessGone("crashed")

RecoverStep == \/ RecoverRename
               \/ RecoverReady
               \/ \E s \in Sessions : \/ RecoverSkip(s)
                                      \/ RecoverKeepManifest(s)
                                      \/ RecoverBuild(s)

Next ==
    \/ \E s \in Sessions :
          \/ OpenSession(s)
          \/ \E d \in Direction :
                \/ \E n \in ChunkSizes : Observe(s, d, "data", n)
                \/ Observe(s, d, "eof", 0)
                \/ Record(s, d)
          \/ EndPumps(s)
          \/ \E tc \in BOOLEAN : Finalize(s, tc)
          \/ LoseFinalizer(s)
          \/ PutClose(s)
          \/ PutCloseTimeout(s)
          \/ CancelFinalizer(s)
          \/ FinalizerReturns(s)
          \/ NotifyFailure(s)
          \/ RecoverDistrust(s)
    \/ WorkerStep
    \/ RecoverStep
    \/ Start
    \/ StartDone
    \/ StopManager
    \/ Stopped
    \/ Crash
    \/ RecoveryFails

Spec == Init /\ [][Next]_vars

(* The thread, the loop's callbacks and the helper threads keep running while *)
(* the process does; systemd restarts a process that failed.                 *)
Fairness ==
    /\ WF_vars(WorkerStep)
    /\ WF_vars(RecoverStep)
    /\ WF_vars(StartDone)
    /\ WF_vars(Stopped)
    /\ WF_vars(mgr = "crashed" /\ Start)
    /\ \A s \in Sessions : /\ WF_vars(PutClose(s))
                           /\ WF_vars(FinalizerReturns(s))
                           /\ WF_vars(NotifyFailure(s))

FairSpec == Spec /\ Fairness

-----------------------------------------------------------------------------
(***************************************************************************)
(* Properties.                                                             *)
(***************************************************************************)

SessionState == [st : {"new", "refused", "live", "closing", "detached", "waiting",
                       "ended", "lost"},
                 accepting : BOOLEAN, sequence : Nat, failed : BOOLEAN,
                 dropped : Nat, sum : CloseSummary]
Counters == [events : Nat, bytes : [Direction -> Nat], chunks : [Direction -> Nat],
             dirseq : [Direction -> Nat]]
Writer == [open : BOOLEAN, next : Nat, dirseq : [Direction -> Nat],
           bytes : [Direction -> Nat], chunks : [Direction -> Nat], errors : BOOLEAN]

(* Types of all state; the queue never exceeds queue_max_events.             *)
TypeOK ==
    /\ mgr \in {"down", "crashed", "recovering", "running", "stopping"}
    /\ cap \in [Sessions -> SessionState]
    /\ cnt \in [Sessions -> Counters]
    /\ pump \in [Sessions -> [Direction -> {"read", "held", "eof", "dead"}]]
    /\ held \in [Sessions -> [Direction -> CaptureEvent \cup {NoEvent}]]
    /\ notices \subseteq Sessions
    /\ queue \in Seq(Command)
    /\ Len(queue) <= QueueMax
    /\ fut \in [Sessions -> {"none", "pending", "cancelled", "resolved"}]
    /\ work \in [pc : {"off", "get", "rename", "ready", "resolve", "set", "dead", "exited"},
                 s : Sessions \cup {NoSession}]
    /\ writer \in [Sessions -> Writer]
    /\ rec \in [pc : {"off", "pick", "rename", "ready"}, s : Sessions \cup {NoSession},
                todo : SUBSET Sessions]
    /\ dir \in [Sessions -> {"absent", "partial", "final"}]
    /\ sfile \in [Sessions -> {"missing", "ok", "empty"}]
    /\ raw \in [Sessions -> [Direction -> Nat]]
    /\ timeline \in [Sessions -> Seq(CaptureEvent)]
    /\ tail \in [Sessions -> {"clean", "torn", "unterminated"}]
    /\ manifest \in [Sessions -> Manifest \cup {NoManifest}]
    /\ ready \in [Sessions -> Manifest \cup {NoManifest}]
    /\ crashes \in Nat

(* A manifest says COMPLETE only of a session whose every read, the two EOFs *)
(* included, is a record of the timeline, whose RAW files hold exactly the   *)
(* bytes the pumps observed, and of which nothing was dropped or torn: what  *)
(* finalize() decides from two threads' counters, and what recovery keeps.   *)
CompleteIsHonest ==
    \A s \in Sessions :
        manifest[s].status = "COMPLETE" =>
            /\ Len(timeline[s]) = cnt[s].events
            /\ raw[s] = cnt[s].bytes
            /\ tail[s] = "clean"
            /\ \A d \in Direction : pump[s][d] = "eof"

(* Whatever fails and wherever the process dies, the timeline numbers its    *)
(* records from 0 without a gap, in each direction they are the first reads  *)
(* of that direction with adjoining offsets, and every byte a record indexes *)
(* is in the RAW file (RAW is written before the record).                    *)
TimelineIsPrefix ==
    \A s \in Sessions :
        /\ \A i \in DOMAIN timeline[s] : timeline[s][i].sequence = i - 1
        /\ \A i, j \in DOMAIN timeline[s] :
              i < j /\ timeline[s][i].direction = timeline[s][j].direction
                  => timeline[s][i].offset + timeline[s][i].length <= timeline[s][j].offset
        /\ \A i \in DOMAIN timeline[s] :
              LET e == timeline[s][i] IN
              /\ e.dirseq = Cardinality({j \in 1 .. i - 1 :
                                           timeline[s][j].direction = e.direction})
              /\ e.offset + e.length <= raw[s][e.direction]

(* The order checks of append() never reject an event on their own: while no *)
(* write of the session has failed, the next of its events on the queue is   *)
(* the one the writer expects, whatever other sessions, refused events and   *)
(* cancelled pumps did in between.  A job is never PARTIAL for its numbering.*)
NoSpuriousOrderError ==
    HeadIs("event") =>
        LET s == Head(queue).s IN
        writer[s].open /\ ~writer[s].errors => InOrder(writer[s], Head(queue).ev)

(* The marker is the last thing to appear: a directory with .ready has its   *)
(* final name and the manifest the marker was computed from, and the files   *)
(* still have the sizes that manifest records.                               *)
ReadyBindsFiles ==
    \A s \in Sessions :
        ready[s] # NoManifest =>
            /\ dir[s] = "final"
            /\ manifest[s] = ready[s]
            /\ manifest[s].files = raw[s]

(* No later step, not a late event, a second close, a crash or a recovery,   *)
(* changes anything in a published job directory.                            *)
PublishedIsImmutable ==
    [][\A s \in Sessions :
          ready[s] # NoManifest =>
              /\ dir'[s] = dir[s]
              /\ sfile'[s] = sfile[s]
              /\ raw'[s] = raw[s]
              /\ timeline'[s] = timeline[s]
              /\ tail'[s] = tail[s]
              /\ manifest'[s] = manifest[s]
              /\ ready'[s] = ready[s]]_vars

(* Captured bytes and records are never taken back, by the writer or by      *)
(* recovery: the RAW files and the timeline only grow.                       *)
EvidenceOnlyGrows ==
    [][\A s \in Sessions :
          /\ \A d \in Direction : raw[s][d] <= raw'[s][d]
          /\ Len(timeline[s]) <= Len(timeline'[s])
          /\ SubSeq(timeline'[s], 1, Len(timeline[s])) = timeline[s]]_vars

(* The capture keeps the promise of JobEvidence: reads are what the pumps    *)
(* numbered, evidence is the timeline, publication is the marker.            *)
Evidence == INSTANCE JobEvidence WITH
    Jobs <- Sessions,
    read <- [s \in Sessions |-> cnt[s].events],
    captured <- [s \in Sessions |-> Len(timeline[s])],
    status <- [s \in Sessions |-> ready[s].status]
ImplementsJobEvidence == Evidence!EvidenceSpec

(* After a crash every job directory is eventually published.                *)
CrashedJobIsPublished ==
    \A s \in Sessions :
        mgr = "crashed" /\ dir[s] # "absent" ~> ready[s] # NoManifest

(* A finalizer does not wait for ever, unless the writer thread has died.    *)
FinalizerReturnsEventually ==
    \A s \in Sessions :
        cap[s].st \in {"closing", "waiting"}
            ~> (cap[s].st \notin {"closing", "waiting"} \/ work.pc = "dead")

(* An orderly stop ends: once the stop command is queued, stop() returns.    *)
StopReturns == mgr = "stopping" ~> mgr # "stopping"
=============================================================================
