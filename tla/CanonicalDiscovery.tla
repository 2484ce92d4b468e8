------------------------- MODULE CanonicalDiscovery -------------------------
(***************************************************************************)
(* Discovery of published jobs by CanonicalCaptureV1Adapter: instead of    *)
(* walking the spool on every poll, the adapter keeps an index and rescans *)
(* a device directory only when its mtime moved.  The capture process      *)
(* creates, renames and marks job directories at any moment of a scan.     *)
(*                                                                         *)
(* One device directory; it exists from the first job on.  A modification  *)
(* time is a counter that every change of the directory's own entries      *)
(* moves; writing .ready changes the job directory, not its parent.        *)
(***************************************************************************)
EXTENDS Naturals, FiniteSets

CONSTANTS
    Jobs,      \* names in sort order (the timestamp prefix): numbers
    Maximum,   \* candidates one poll may return
    MaxRestarts \* bound: restarts of the ingestion process

ASSUME JobsAssumption == Jobs \subseteq Nat /\ IsFiniteSet(Jobs)
ASSUME MaximumAssumption == Maximum \in Nat \ {0} /\ MaxRestarts \in Nat

VARIABLES
    \* ---- the spool, written by the capture process
    disk,       \* "absent", "partial", "final" or "ready"
    mtime,      \* modification time of the device directory, 0: not there
    \* ---- the adapter's index
    rootSeen,   \* root listing done with the device directory in it
    seen,       \* _device_mtimes, -1 is 0 here
    markers,    \* _markers_by_device
    unready,    \* _unready_jobs: paths, that is jobs with the name listed
    cursor,     \* _discovery_cursor
    \* ---- the poll under way
    pc,
    listed,     \* directory entries the scan has read
    offered,    \* jobs some poll returned
    \* ---- history
    restarts,
    raced       \* renamed between a scan's listing and its final stat

spool == <<disk, mtime>>
index == <<rootSeen, seen, markers, unready, cursor>>
vars == <<disk, mtime, rootSeen, seen, markers, unready, cursor, pc, listed, offered, restarts, raced>>

Names == {"partial", "final"}

Init ==
    /\ disk = [j \in Jobs |-> "absent"]
    /\ mtime = 0
    /\ rootSeen = FALSE
    /\ seen = 0
    /\ markers = {}
    /\ unready = {}
    /\ cursor = 0
    /\ pc = "idle"
    /\ listed = {}
    /\ offered = {}
    /\ restarts = 0
    /\ raced = {}

Name(j) == IF disk[j] = "partial" THEN "partial" ELSE "final"
Exists(p) == disk[p[1]] # "absent" /\ p[2] = Name(p[1])
HasMarker(p) == p[2] = "final" /\ disk[p[1]] = "ready"

(***************************************************************************)
(* The capture process (spool.py): mkdir x.partial, rename to x, .ready.   *)
(***************************************************************************)
Scanning == pc \in {"mark", "stat"}

CreateJob(j) ==
    /\ disk[j] = "absent"
    /\ disk' = [disk EXCEPT ![j] = "partial"]
    /\ mtime' = mtime + 1
    /\ UNCHANGED <<index, pc, listed, offered, restarts, raced>>

RenameJob(j) ==
    /\ disk[j] = "partial"
    /\ disk' = [disk EXCEPT ![j] = "final"]
    /\ mtime' = mtime + 1
    /\ raced' = IF Scanning THEN raced \cup {j} ELSE raced
    /\ UNCHANGED <<index, pc, listed, offered, restarts>>

MarkJob(j) ==
    /\ disk[j] = "final"
    /\ disk' = [disk EXCEPT ![j] = "ready"]
    /\ UNCHANGED <<mtime, index, pc, listed, offered, restarts, raced>>

(***************************************************************************)
(* One poll: _refresh_discovery_index, then the selection.                 *)
(***************************************************************************)

(* The root is listed when its mtime moved since the last listing, which     *)
(* here happens once: when the device directory has been created.            *)
StatRoot ==
    /\ pc = "idle"
    /\ rootSeen' = (mtime > 0)
    /\ pc' = "device"
    /\ UNCHANGED <<spool, seen, markers, unready, cursor, listed, offered, restarts, raced>>

(* An unchanged device directory is not read.                                *)
StatDevice ==
    /\ pc = "device"
    /\ IF rootSeen /\ mtime # seen
       THEN pc' = "list"
       ELSE pc' = "recheck"
    /\ UNCHANGED <<spool, index, listed, offered, restarts, raced>>

(* _scan_device: the entries are read, then each is looked into for .ready.  *)
ListDevice ==
    /\ pc = "list"
    /\ listed' = {<<j, Name(j)>> : j \in {k \in Jobs : disk[k] # "absent"}}
    /\ pc' = "mark"
    /\ UNCHANGED <<spool, index, offered, restarts, raced>>

NotYetReady == {p \in listed : ~HasMarker(p)}

MarkListed ==
    /\ pc = "mark"
    /\ markers' = {p[1] : p \in {q \in listed : HasMarker(q)}}
    /\ unready' = NotYetReady
    /\ listed' = {}
    /\ pc' = "stat"
    /\ UNCHANGED <<spool, rootSeen, seen, cursor, offered, restarts, raced>>

(* The mtime is taken after the scan.                                        *)
StatAfterScan ==
    /\ pc = "stat"
    /\ seen' = mtime
    /\ pc' = "recheck"
    /\ UNCHANGED <<spool, rootSeen, markers, unready, cursor, listed, offered, restarts, raced>>

(* Directories that were not ready are looked at again on every poll; the    *)
(* ones that are gone (renamed) are forgotten.                               *)
NowReady == {p \in unready : HasMarker(p)}

Recheck ==
    /\ pc = "recheck"
    /\ markers' = markers \cup {p[1] : p \in NowReady}
    /\ unready' = {p \in unready : Exists(p)} \ NowReady
    /\ pc' = "select"
    /\ UNCHANGED <<spool, rootSeen, seen, cursor, listed, offered, restarts, raced>>

(* _rotating_markers: a window of Maximum markers in sort order, which moves *)
(* on by its own length, around the end, on every poll.                      *)
Rank(M, j) == Cardinality({k \in M : k < j})
Window(M, c) ==
    LET n == Cardinality(M) IN
    IF n <= Maximum THEN M
    ELSE {j \in M : (Rank(M, j) + n - (c % n)) % n < Maximum}
(* Mutation: the window always starts at the same place.                     *)
SeededFixedCursor(M, c) == c
NextCursor(M, c) ==
    LET n == Cardinality(M) IN
    IF n <= Maximum THEN 0 ELSE ((c % n) + Maximum) % n

Select ==
    /\ pc = "select"
    /\ offered' = offered \cup Window(markers, cursor)
    /\ cursor' = NextCursor(markers, cursor)
    /\ pc' = "idle"
    /\ UNCHANGED <<spool, rootSeen, seen, markers, unready, listed, restarts, raced>>

PollStep == StatRoot \/ StatDevice \/ ListDevice \/ MarkListed \/ StatAfterScan
            \/ Recheck \/ Select

(* A restarted ingestion process begins with an empty index.                 *)
Restart ==
    /\ restarts < MaxRestarts
    /\ restarts' = restarts + 1
    /\ rootSeen' = FALSE
    /\ seen' = 0
    /\ markers' = {}
    /\ unready' = {}
    /\ cursor' = 0
    /\ pc' = "idle"
    /\ listed' = {}
    /\ raced' = {}
    /\ UNCHANGED <<spool, offered>>

Next ==
    \/ \E j \in Jobs : CreateJob(j) \/ RenameJob(j) \/ MarkJob(j)
    \/ PollStep
    \/ Restart

(* The ingestion worker polls for ever; nothing restarts it by itself.       *)
Spec == Init /\ [][Next]_vars
FairSpec == Spec /\ WF_vars(PollStep)

-----------------------------------------------------------------------------
(* Types; the index never names a job that is not published.                 *)
TypeOK ==
    /\ disk \in [Jobs -> {"absent", "partial", "final", "ready"}]
    /\ mtime \in Nat
    /\ rootSeen \in BOOLEAN
    /\ seen \in Nat
    /\ markers \subseteq {j \in Jobs : disk[j] = "ready"}
    /\ unready \subseteq Jobs \X Names
    /\ cursor \in Nat
    /\ pc \in {"idle", "device", "list", "mark", "stat", "recheck", "select"}
    /\ listed \subseteq Jobs \X Names
    /\ offered \subseteq Jobs
    /\ restarts \in 0 .. MaxRestarts
    /\ raced \subseteq Jobs


(* A published job is offered for import, if its rename did not fall into a  *)
(* scan: neither the skipped scans nor the rotation of a full window starve  *)
(* it.                                                                       *)
PublishedOutsideScanIsOffered ==
    \A j \in Jobs : disk[j] = "ready" ~> (j \in offered \/ j \in raced)

(* Every published job is offered for import: "If publication raced with     *)
(* this scan, the next poll observes another change and scans again".        *)
PublishedIsOffered ==
    \A j \in Jobs : disk[j] = "ready" ~> j \in offered
=============================================================================
