-------------------------------- MODULE Relay --------------------------------
(***************************************************************************)
(* The transport side of the relay (proxy/relay.py) for one target device: *)
(* client tasks compete for the target's lock, the holder connects to the  *)
(* device and runs one pump per direction, with half-close, timeouts,      *)
(* forwarding failures, the two storage failure policies, and an orderly   *)
(* stop that cancels what outlives the grace period, first of the          *)
(* sessions, then of their finalizers, and then stops the capture.         *)
(*                                                                         *)
(* Traffic is unbounded: payloads are not counted, only what the outcome   *)
(* of a session depends on is remembered.  Timers may fire at any moment.  *)
(* The capture is reduced to what relay.py sees of it: it accepts events   *)
(* until it fails, at a record or at any time from the writer thread.      *)
(***************************************************************************)
EXTENDS Naturals, FiniteSets

CONSTANTS
    Clients,           \* client connections
    NoClient,          \* the lock is free
    MaxConnections,    \* max_connections
    HighWater,         \* chunks the device transport buffers before drain() blocks
    Policy,            \* storage_failure_policy
    WaitClosedBlocks   \* may Server.wait_closed() wait for connections? {FALSE} before
                       \* Python 3.12.1, {TRUE} since; requires-python admits both

ASSUME ClientsAssumption == NoClient \notin Clients
ASSUME LimitsAssumption == MaxConnections \in Nat \ {0} /\ HighWater \in Nat
ASSUME PolicyAssumption == Policy \in {"abort", "continue"}
ASSUME InterpreterAssumption == WaitClosedBlocks \in (SUBSET BOOLEAN) \ {{}}

Direction == {"client", "device"}    \* where the bytes come from

VARIABLES
    waits,     \* the interpreter of this process: wait_closed() waits
    svc,       \* RelayService: life cycle of start() .. stop()
    doomed,    \* tasks stop() has cancelled that have not seen it yet
    lock,      \* holder of the target's lock
    active,    \* _active_sessions
    task,      \* where the task of each client is
    talking,   \* the two ends of the session may still send or close
    pump,      \* the pump of each direction
    link,      \* transport to the device
    buf,       \* chunks written to it and not yet taken by the device
    cap,       \* capture session: off, on or failed
    outcome,   \* _SessionOutcome.complete
    closed,    \* the capture finalizer was created
    lost,      \* a chunk or EOF of the direction was read and not forwarded
    unrec      \* forwarded and not recorded (0, 1, 2 or more)

service == <<waits, svc, doomed>>
vars == <<waits, svc, doomed, lock, active, task, talking, pump, link, buf, cap,
          outcome, closed, lost, unrec>>

Init ==
    /\ waits \in WaitClosedBlocks
    /\ svc = "up"
    /\ doomed = {}
    /\ lock = NoClient
    /\ active = {}
    /\ task = [c \in Clients |-> "new"]
    /\ talking = [c \in Clients |-> TRUE]
    /\ pump = [c \in Clients |-> [d \in Direction |-> "off"]]
    /\ link = [c \in Clients |-> "none"]
    /\ buf = [c \in Clients |-> 0]
    /\ cap = [c \in Clients |-> "off"]
    /\ outcome = [c \in Clients |-> "none"]
    /\ closed = [c \in Clients |-> FALSE]
    /\ lost = [c \in Clients |-> [d \in Direction |-> FALSE]]
    /\ unrec = [c \in Clients |-> [d \in Direction |-> 0]]

Pumping(c) == task[c] \in {"duplex", "tail"}
HoldsTarget(c) == task[c] \in {"connecting", "duplex", "tail", "closedev", "dropping"}

(* Definitions named Seeded... are the defects the properties are tried on:  *)
(* each stands for the definition after it with a plausible mistake in it.   *)

(***************************************************************************)
(* _handle_client and _relay_locked.                                       *)
(***************************************************************************)

(* Up to the first await: the connection limit, the ACL and the busy target  *)
(* reject, otherwise the lock is taken.                                      *)
Connect(c) ==
    /\ svc = "up"
    /\ task[c] = "new"
    /\ active' = active \cup {c}
    /\ \/ /\ task' = [task EXCEPT ![c] = "closing"]    \* limit, ACL, busy
          /\ UNCHANGED lock
       \/ /\ Cardinality(active') <= MaxConnections
          /\ lock = NoClient
          /\ lock' = c
          /\ task' = [task EXCEPT ![c] = "connecting"]
    /\ UNCHANGED <<service, talking, pump, link, buf, cap, outcome, closed, lost, unrec>>

ConnectTargetFails(c) ==
    /\ task[c] = "connecting"
    /\ task' = [task EXCEPT ![c] = "closing"]
    /\ lock' = NoClient
    /\ UNCHANGED <<service, active, talking, pump, link, buf, cap, outcome, closed, lost, unrec>>

(* The device is connected and the capture opened; if that fails the policy  *)
(* decides between no session and a session without capture.                 *)
TargetConnected(c) ==
    /\ task[c] = "connecting"
    /\ \/ /\ cap' = [cap EXCEPT ![c] = "on"]
          /\ link' = [link EXCEPT ![c] = "open"]
          /\ task' = [task EXCEPT ![c] = "duplex"]
          /\ pump' = [pump EXCEPT ![c] = [d \in Direction |-> "read"]]
       \/ /\ Policy = "continue"
          /\ link' = [link EXCEPT ![c] = "open"]
          /\ task' = [task EXCEPT ![c] = "duplex"]
          /\ pump' = [pump EXCEPT ![c] = [d \in Direction |-> "read"]]
          /\ UNCHANGED cap
       \/ /\ Policy = "abort"
          /\ link' = [link EXCEPT ![c] = "closing"]
          /\ task' = [task EXCEPT ![c] = "dropping"]
          /\ UNCHANGED <<cap, pump>>
    /\ UNCHANGED <<service, lock, active, talking, buf, outcome, closed, lost, unrec>>

(* _close_writer(device_writer) returns: closed, or after two seconds.  The  *)
(* finalizer task is created, then the lock released.                        *)
SeededNoFinalizerOnError(c) == outcome[c] = "complete"
Finalizes(c) == task[c] = "closedev"

DeviceClosed(c) ==
    /\ task[c] \in {"closedev", "dropping"}
    /\ closed' = [closed EXCEPT ![c] = Finalizes(c)]
    /\ lock' = NoClient
    /\ task' = [task EXCEPT ![c] = "closing"]
    /\ UNCHANGED <<service, active, talking, pump, link, buf, cap, outcome, lost, unrec>>

ClientClosed(c) ==
    /\ task[c] = "closing"
    /\ task' = [task EXCEPT ![c] = "done"]
    /\ active' = active \ {c}
    /\ UNCHANGED <<service, lock, talking, pump, link, buf, cap, outcome, closed, lost, unrec>>

(***************************************************************************)
(* The two pumps.                                                          *)
(***************************************************************************)

(* A chunk is read and written to the other side's transport, or EOF is      *)
(* read; the pump then awaits drain().                                       *)
Read(c, d) ==
    /\ Pumping(c)
    /\ talking[c]
    /\ pump[c][d] = "read"
    /\ \/ /\ pump' = [pump EXCEPT ![c][d] = "data"]
          /\ buf' = IF d = "client" /\ link[c] = "open"
                    THEN [buf EXCEPT ![c] = @ + 1] ELSE buf
       \/ /\ pump' = [pump EXCEPT ![c][d] = "eofing"]
          /\ UNCHANGED buf
    /\ UNCHANGED <<service, lock, active, task, talking, link, cap, outcome, closed, lost, unrec>>

(* The read raises (connection reset): the pump ends with nothing in hand.   *)
ReadFails(c, d) ==
    /\ Pumping(c)
    /\ pump[c][d] = "read"
    /\ pump' = [pump EXCEPT ![c][d] = "failed"]
    /\ UNCHANGED <<service, lock, active, task, talking, link, buf, cap, outcome, closed,
                   lost, unrec>>

(* drain() returns below the high-water mark, not when all is sent.          *)
Drained(c, d) == d = "client" => link[c] = "open" /\ buf[c] <= HighWater

(* What becomes of a pump whose event the capture did not accept.            *)
SeededWatcherWillStop(p) == IF p = "data" THEN "read" ELSE "eof"
AfterRefusal(p) == IF Policy = "abort" THEN "failed" ELSE IF p = "data" THEN "read" ELSE "eof"

Forwarded(c, d) ==
    /\ Pumping(c)
    /\ pump[c][d] \in {"data", "eofing"}
    /\ Drained(c, d)
    /\ \/ /\ cap[c] = "on"                              \* record() accepts
          /\ pump' = [pump EXCEPT ![c][d] = IF @ = "data" THEN "read" ELSE "eof"]
          /\ UNCHANGED <<cap, unrec>>
       \/ /\ cap' = [cap EXCEPT ![c] = IF @ = "on" THEN "failed" ELSE @]
          /\ unrec' = [unrec EXCEPT ![c][d] = IF @ < 2 THEN @ + 1 ELSE @]
          /\ pump' = [pump EXCEPT ![c][d] = AfterRefusal(@)]
    /\ UNCHANGED <<service, lock, active, task, talking, link, buf, outcome, closed, lost>>

(* The write fails or drain() times out: the transport is aborted, which     *)
(* discards its buffer, before anything else happens.                        *)
SeededGracefulClose(b, c) == b
Aborted(b, c) == [b EXCEPT ![c] = 0]

ForwardFails(c, d) ==
    /\ Pumping(c)
    /\ pump[c][d] \in {"data", "eofing"}
    /\ pump' = [pump EXCEPT ![c][d] = "failed"]
    /\ lost' = [lost EXCEPT ![c][d] = TRUE]
    /\ IF d = "client"
       THEN /\ link' = [link EXCEPT ![c] = "gone"]
            /\ buf' = Aborted(buf, c)
       ELSE UNCHANGED <<link, buf>>
    /\ \/ UNCHANGED cap                                 \* the failed event is recorded
       \/ cap' = [cap EXCEPT ![c] = IF @ = "on" THEN "failed" ELSE @]
    /\ UNCHANGED <<service, lock, active, task, talking, outcome, closed, unrec>>

(* The capture fails on its own (failure posted by the writer thread).       *)
CaptureFails(c) ==
    /\ Pumping(c)
    /\ cap[c] = "on"
    /\ cap' = [cap EXCEPT ![c] = "failed"]
    /\ UNCHANGED <<service, lock, active, task, talking, pump, link, buf, outcome, closed, lost, unrec>>

(* The device takes a chunk from the connection, also while the transport    *)
(* is closing: close() flushes what is buffered.                             *)
DeviceTakes(c) ==
    /\ link[c] \in {"open", "closing"}
    /\ buf[c] > 0
    /\ buf' = [buf EXCEPT ![c] = @ - 1]
    /\ UNCHANGED <<service, lock, active, task, talking, pump, link, cap, outcome, closed, lost, unrec>>

(* The ends of the session fall silent.                                      *)
FallSilent(c) ==
    /\ talking[c]
    /\ talking' = [talking EXCEPT ![c] = FALSE]
    /\ UNCHANGED <<service, lock, active, task, pump, link, buf, cap, outcome, closed, lost, unrec>>

(***************************************************************************)
(* _run_full_duplex: what ends a session.  Pumps that still run are         *)
(* cancelled; what they were forwarding stays unforwarded and unrecorded.   *)
(* The device writer is closed without aborting it.                         *)
(***************************************************************************)
EndSession(c, complete) ==
    /\ outcome' = [outcome EXCEPT ![c] = complete]
    /\ lost' = [lost EXCEPT ![c] =
                  [d \in Direction |-> lost[c][d] \/ pump[c][d] \in {"data", "eofing"}]]
    /\ pump' = [pump EXCEPT ![c] =
                  [d \in Direction |-> IF pump[c][d] \in {"read", "data", "eofing"}
                                       THEN "stopped" ELSE pump[c][d]]]
    /\ link' = [link EXCEPT ![c] = IF @ = "open" THEN "closing" ELSE @]
    /\ task' = [task EXCEPT ![c] = "closedev"]

(* No traffic for session_idle_timeout, or after half-close for              *)
(* response_tail_timeout.                                                    *)
SeededNoTailTimeout(c) == task[c] = "duplex"
TimerRuns(c) == Pumping(c)

IdleTimeout(c) ==
    /\ TimerRuns(c)
    /\ EndSession(c, "incomplete")
    /\ UNCHANGED <<service, lock, active, talking, buf, cap, closed, unrec>>

StorageFailure(c) ==
    /\ Pumping(c)
    /\ Policy = "abort"
    /\ cap[c] = "failed"
    /\ EndSession(c, "incomplete")
    /\ UNCHANGED <<service, lock, active, talking, buf, cap, closed, unrec>>

TransportError(c) ==
    /\ Pumping(c)
    /\ \E d \in Direction : pump[c][d] = "failed"
    /\ EndSession(c, "incomplete")
    /\ UNCHANGED <<service, lock, active, talking, buf, cap, closed, unrec>>

HalfClosed(c) ==
    /\ task[c] = "duplex"
    /\ \E d \in Direction : pump[c][d] = "eof"
    /\ \A d \in Direction : pump[c][d] # "failed"
    /\ task' = [task EXCEPT ![c] = "tail"]
    /\ UNCHANGED <<service, lock, active, talking, pump, link, buf, cap, outcome, closed, lost, unrec>>

SeededOneEofIsEnough(c) == \E d \in Direction : pump[c][d] = "eof"
CleanEof(c) == \A d \in Direction : pump[c][d] = "eof"

BothEof(c) ==
    /\ Pumping(c)
    /\ CleanEof(c)
    /\ EndSession(c, "complete")
    /\ UNCHANGED <<service, lock, active, talking, buf, cap, closed, unrec>>

(***************************************************************************)
(* stop(): close the listeners, wait for the sessions, cancel what is left, *)
(* the same with the finalizers, then stop the capture.                     *)
(***************************************************************************)
clients == <<lock, active, task, talking, pump, link, buf, cap, outcome, closed, lost, unrec>>

StopRequested ==
    /\ svc = "up"
    /\ svc' = "closing"
    /\ UNCHANGED <<waits, doomed, clients>>

Over(c) == task[c] \in {"new", "done"}

ServersClosed ==
    /\ svc = "closing"
    /\ waits => \A c \in Clients : Over(c)
    /\ svc' = "grace"
    /\ UNCHANGED <<waits, doomed, clients>>

SeededSparePumps == {c \in Clients : ~Over(c) /\ ~Pumping(c)}
Outliving == {c \in Clients : ~Over(c)}

GraceExpires ==
    /\ svc = "grace"
    /\ \E c \in Clients : ~Over(c)
    /\ svc' = "cancelling"
    /\ doomed' = Outliving
    /\ UNCHANGED <<waits, clients>>

(* CancelledError at the task's await.  While it closes the device writer    *)
(* the finalizer is skipped; while it closes the client writer it just ends. *)
ReleaseOnCancel(c) == IF HoldsTarget(c) /\ ~Pumping(c) THEN NoClient ELSE lock

Cancelled(c) ==
    /\ c \in doomed
    /\ doomed' = doomed \ {c}
    /\ lock' = ReleaseOnCancel(c)
    /\ \/ /\ Pumping(c)
          /\ EndSession(c, "incomplete")
       \/ /\ task[c] \in {"connecting", "closedev", "dropping"}
          /\ task' = [task EXCEPT ![c] = "closing"]
          /\ UNCHANGED <<outcome, lost, pump, link>>
       \/ /\ task[c] \in {"closing", "done"}
          /\ task' = [task EXCEPT ![c] = "done"]
          /\ UNCHANGED <<outcome, lost, pump, link>>
    /\ UNCHANGED <<waits, svc, active, talking, buf, cap, closed, unrec>>

SessionsOver ==
    /\ svc \in {"grace", "cancelling"}
    /\ doomed = {}
    /\ \A c \in Clients : Over(c)
    /\ svc' = "finalizers"
    /\ UNCHANGED <<waits, doomed, clients>>

(* All finalizers have returned, or a second grace period has passed and     *)
(* those left are cancelled, which they do not resist: what becomes of their *)
(* jobs is CaptureSpool's (CancelFinalizer).                                 *)
FinalizersOver ==
    /\ svc = "finalizers"
    /\ svc' = "capture"
    /\ UNCHANGED <<waits, doomed, clients>>

(* capture_manager.stop() returns or raises; it may also never do so         *)
(* (CaptureSpool!StopReturns).                                               *)
Stopped ==
    /\ svc = "capture"
    /\ svc' = "down"
    /\ UNCHANGED <<waits, doomed, clients>>

Next ==
    \/ \E c \in Clients :
          \/ Connect(c) \/ ConnectTargetFails(c) \/ TargetConnected(c)
          \/ DeviceClosed(c) \/ ClientClosed(c)
          \/ \E d \in Direction : \/ Read(c, d) \/ ReadFails(c, d)
                                    \/ Forwarded(c, d) \/ ForwardFails(c, d)
          \/ CaptureFails(c) \/ DeviceTakes(c) \/ FallSilent(c)
          \/ IdleTimeout(c) \/ StorageFailure(c) \/ TransportError(c)
          \/ HalfClosed(c) \/ BothEof(c) \/ Cancelled(c)
    \/ StopRequested \/ ServersClosed \/ GraceExpires \/ SessionsOver
    \/ FinalizersOver \/ Stopped

Spec == Init /\ [][Next]_vars

(* Timers fire: connecting, forwarding, closing and the grace periods are    *)
(* bounded, and a silent session times out.  What a talking end sends is     *)
(* read, and a session one of whose pumps or watchers ended it goes on.      *)
(* Nothing is assumed of the device, of when a talking end falls silent, of  *)
(* a finalizer or of capture_manager.stop().                                 *)
Fairness ==
    /\ \A c \in Clients :
          /\ WF_vars(ConnectTargetFails(c) \/ TargetConnected(c))
          /\ WF_vars(DeviceClosed(c))
          /\ WF_vars(ClientClosed(c))
          /\ WF_vars(Cancelled(c))
          /\ WF_vars(~talking[c] /\ IdleTimeout(c))
          /\ WF_vars(TransportError(c) \/ StorageFailure(c) \/ BothEof(c))
          /\ WF_vars(\E d \in Direction : Read(c, d))
          /\ WF_vars(\E d \in Direction : Forwarded(c, d) \/ ForwardFails(c, d))
    /\ WF_vars(ServersClosed)
    /\ WF_vars(GraceExpires)
    /\ WF_vars(SessionsOver)
    /\ WF_vars(FinalizersOver)

FairSpec == Spec /\ Fairness

-----------------------------------------------------------------------------
(* Types; the device transport never holds more than one chunk over the      *)
(* high-water mark, whatever the device does (backpressure).                 *)
TypeOK ==
    /\ waits \in BOOLEAN
    /\ svc \in {"up", "closing", "grace", "cancelling", "finalizers", "capture", "down"}
    /\ doomed \subseteq Clients
    /\ lock \in Clients \cup {NoClient}
    /\ active \subseteq Clients
    /\ task \in [Clients -> {"new", "connecting", "duplex", "tail", "closedev",
                             "dropping", "closing", "done"}]
    /\ talking \in [Clients -> BOOLEAN]
    /\ pump \in [Clients -> [Direction -> {"off", "read", "data", "eofing", "eof",
                                           "failed", "stopped"}]]
    /\ link \in [Clients -> {"none", "open", "closing", "gone"}]
    /\ buf \in [Clients -> 0 .. HighWater + 1]
    /\ cap \in [Clients -> {"off", "on", "failed"}]
    /\ outcome \in [Clients -> {"none", "complete", "incomplete"}]
    /\ closed \in [Clients -> BOOLEAN]
    /\ lost \in [Clients -> [Direction -> BOOLEAN]]
    /\ unrec \in [Clients -> [Direction -> 0 .. 2]]

(* stop() has been through with the sessions, cancelling what was left.      *)
GraceOver == svc \in {"cancelling", "finalizers", "capture", "down"}

(* What ties the task of a client to its pumps, its transport and its        *)
(* outcome, whatever the other client, the device and stop() do: only the    *)
(* lock's holder is at the device; what was not forwarded belongs to a pump  *)
(* that ended; a pump reads again only below the high-water mark.            *)
ClientInv(c) ==
    /\ HoldsTarget(c) <=> lock = c
    /\ task[c] \in {"new", "connecting"} =>
          /\ buf[c] = 0
          /\ \A d \in Direction : pump[c][d] = "off" /\ unrec[c][d] = 0
    /\ Pumping(c) => link[c] \in {"open", "gone"}
    /\ outcome[c] # "none" => task[c] \in {"closedev", "closing", "done"}
    /\ outcome[c] = "complete" => \A d \in Direction : pump[c][d] = "eof"
    /\ pump[c]["client"] = "read" => buf[c] <= HighWater
    /\ \A d \in Direction : lost[c][d] => pump[c][d] \in {"failed", "stopped"}
    /\ pump[c]["client"] = "failed" /\ lost[c]["client"] => link[c] = "gone" /\ buf[c] = 0
    /\ link[c] = "gone" => pump[c]["client"] \in {"failed", "stopped"}
    /\ Policy = "abort" =>
          \A d \in Direction : unrec[c][d] # 0 => unrec[c][d] = 1 /\ pump[c][d] = "failed"
    /\ outcome[c] # "none" /\ task[c] \in {"closing", "done"} /\ ~closed[c]
          => GraceOver

RelayInv ==
    /\ TypeOK
    /\ doomed # {} => svc = "cancelling"
    /\ \A c \in Clients : ClientInv(c)

(* clean_bidirectional_eof means that every chunk and both EOFs read in      *)
(* either direction were forwarded; a pump cancelled in the middle of a      *)
(* write, a failed write or a tail timeout never ends as complete.           *)
CompleteIsForwarded ==
    \A c \in Clients :
        outcome[c] = "complete" =>
            \A d \in Direction : pump[c][d] = "eof" /\ ~lost[c][d]

(* With the abort policy a direction forwards at most one event that the     *)
(* capture did not take: the pump itself stops, it does not wait for the     *)
(* watcher of the failure event.                                             *)
AbortBoundsUnrecorded ==
    Policy = "abort" => \A c \in Clients : \A d \in Direction : unrec[c][d] <= 1

(* After a failed write to the device nothing of the session's buffer is     *)
(* left when the lock is released and a client may retry.                    *)
FailedWriteLeavesNoTail ==
    \A c \in Clients : pump[c]["client"] = "failed" /\ lost[c]["client"] => buf[c] = 0

(* A session that ran is handed to the capture finalizer, unless stop()      *)
(* cancelled its task while it was closing the device.                       *)
FinalizerOnlyLostInShutdown ==
    \A c \in Clients :
        outcome[c] # "none" /\ task[c] \in {"closing", "done"} /\ ~closed[c]
            => GraceOver

(* A session whose two ends have fallen silent ends, and frees the target.   *)
SilentSessionEnds ==
    \A c \in Clients : ~talking[c] /\ ~Over(c) ~> Over(c) /\ lock # c

(* stop() gets as far as stopping the capture, whatever the device and the   *)
(* finalizers do; on an interpreter whose wait_closed() waits for the        *)
(* connections, once its clients have ended or fallen silent.                *)
Quiet(c) == Over(c) \/ ~talking[c]
StopIsBounded ==
    svc = "closing" /\ (waits => \A c \in Clients : Quiet(c)) ~> svc \in {"capture", "down"}

(* The same however long the clients go on talking: shutdown_grace is "tempo *)
(* bounded per una terminazione ordinata".                                   *)
GraceBoundsStop == svc = "closing" ~> svc \in {"capture", "down"}

(* "secondo client stesso target: ... nessun interlacciamento": while a      *)
(* session is connected to the target, no other session's bytes are still    *)
(* on their way to it.                                                       *)
NoInterleaving ==
    \A c1, c2 \in Clients :
        c1 # c2 /\ Pumping(c1) => buf[c2] = 0
=============================================================================
