-------------------------------- MODULE Beeper --------------------------------
(***************************************************************************)
(* PosBeeperDispatcher and PosSpoolBeeperWatcher, the audible notification *)
(* of a new kitchen order: the watcher offers a job as soon as the prefix  *)
(* in its .partial directory holds a complete command, the parser worker   *)
(* (module Parsing) offers it again from the database, the dispatcher's    *)
(* bounded queue takes each event once.                                    *)
(*                                                                         *)
(* One printer; event ids are jobs; a job's client.raw has length 1 before *)
(* and 2 after its command is complete.  Sending may fail, which is only   *)
(* logged.                                                                 *)
(***************************************************************************)
EXTENDS Naturals, Sequences

CONSTANTS
    BeepJobs,    \* jobs of the printer
    QueueSize,   \* queue_size_per_device
    RecentLimit  \* _RECENT_EVENT_LIMIT

ASSUME BeeperAssumption == QueueSize \in Nat \ {0} /\ RecentLimit \in Nat \ {0}

VARIABLES
    spoolDir,  \* job -> "absent", "growing", "complete" (both .partial) or "published"
    bell,      \* the dispatcher's queue
    recent,    \* _recent_events, oldest first
    observed,  \* _observed_sizes: job -> size, 0 if unknown
    notified,  \* _notified
    \* ---- history of this life of the service
    queued,    \* job -> times it was queued
    full       \* jobs whose last offer met a full queue

beeperVars == <<spoolDir, bell, recent, observed, notified, queued, full>>

BeeperStarts ==
    /\ bell' = <<>> /\ recent' = <<>>
    /\ observed' = [j \in BeepJobs |-> 0] /\ notified' = {}
    /\ queued' = [j \in BeepJobs |-> 0] /\ full' = {}

BeeperInit ==
    /\ spoolDir = [j \in BeepJobs |-> "absent"]
    /\ bell = <<>> /\ recent = <<>>
    /\ observed = [j \in BeepJobs |-> 0] /\ notified = {}
    /\ queued = [j \in BeepJobs |-> 0] /\ full = {}

Known(j) == \E i \in 1..Len(recent) : recent[i] = j
Newest(s) == IF Len(s) > RecentLimit THEN Tail(s) ELSE s

\* Mutation: the event is remembered although the queue has no room for it.
SeededRememberFirst(j) ==
    IF Known(j) THEN full' = full \ {j} /\ UNCHANGED <<bell, recent, queued>>
    ELSE /\ recent' = Newest(Append(recent, j))
         /\ IF Len(bell) = QueueSize
            THEN full' = full \cup {j} /\ UNCHANGED <<bell, queued>>
            ELSE /\ bell' = Append(bell, j) /\ full' = full \ {j}
                 /\ queued' = [queued EXCEPT ![j] = @ + 1]

\* enqueue: a known event and a full queue are refused, only a queued event
\* is remembered.
Enqueue(j) ==
    IF Known(j) THEN full' = full \ {j} /\ UNCHANGED <<bell, recent, queued>>
    ELSE IF Len(bell) = QueueSize THEN full' = full \cup {j} /\ UNCHANGED <<bell, recent, queued>>
    ELSE /\ bell' = Append(bell, j)
         /\ recent' = Newest(Append(recent, j))
         /\ queued' = [queued EXCEPT ![j] = @ + 1]
         /\ full' = full \ {j}

Accepted(j) == ~Known(j) /\ Len(bell) < QueueSize

Size(j) == IF spoolDir[j] = "complete" THEN 2 ELSE 1

\* _scan_device looks at one .partial directory; scan_once then forgets the
\* directories that are gone.
WatchJob(j) ==
    /\ spoolDir[j] \in {"growing", "complete"} /\ j \notin notified /\ observed[j] # Size(j)
    /\ observed' = [observed EXCEPT ![j] = Size(j)]
    /\ IF spoolDir[j] = "complete"
       THEN Enqueue(j) /\ notified' = IF Accepted(j) THEN notified \cup {j} ELSE notified
       ELSE UNCHANGED <<bell, recent, queued, full, notified>>
    /\ UNCHANGED spoolDir

ForgetGone ==
    LET gone == {j \in BeepJobs : spoolDir[j] \notin {"growing", "complete"}}
    IN  /\ \E j \in gone : j \in notified \/ observed[j] # 0
        /\ notified' = notified \ gone
        /\ observed' = [j \in BeepJobs |-> IF j \in gone THEN 0 ELSE observed[j]]
        /\ UNCHANGED <<spoolDir, bell, recent, queued, full>>

\* _run_device; whether the printer was reached changes nothing here.
SendBeep ==
    /\ bell # <<>>
    /\ bell' = Tail(bell)
    /\ UNCHANGED <<spoolDir, recent, observed, notified, queued, full>>

\* The capture process (module CaptureSpool).
Receive(j) ==
    /\ spoolDir[j] # "published"
    /\ spoolDir' = [spoolDir EXCEPT ![j] =
           CASE @ = "absent" -> "growing" [] @ = "growing" -> "complete" [] @ = "complete" -> "published"]
    /\ UNCHANGED <<bell, recent, observed, notified, queued, full>>

Watch == ForgetGone \/ \E j \in BeepJobs : WatchJob(j)

=============================================================================
