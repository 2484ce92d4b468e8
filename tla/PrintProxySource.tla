-------------------------- MODULE PrintProxySource --------------------------
(***************************************************************************)
(* PrintProxyV3Adapter reading the archive of a running legacy printproxy: *)
(* one route with its ledger (manifest.jsonl), the head file that commits  *)
(* it, and per job a RAW and a metadata file.  The printproxy itself is    *)
(* not part of the repository; its writes are what the adapter's checks    *)
(* presuppose: the metadata file is replaced, the record that names its    *)
(* hash is appended, the head is advanced, each at its own moment.         *)
(*                                                                         *)
(* A hash is the thing hashed: a chain hash is a position in the ledger,   *)
(* a metadata hash the position of the record that names it.  HMACs, JSON  *)
(* syntax, size limits and sidecar files are left out, the rotation of the *)
(* window is that of CanonicalDiscovery.                                   *)
(***************************************************************************)
EXTENDS Naturals, Sequences, FiniteSets

CONSTANTS
    PpJobs,     \* jobs of the route
    MaxRecords, \* bound: length of the ledger
    NoWrite     \* model value: the printproxy is between two writes

ASSUME PpAssumption == IsFiniteSet(PpJobs) /\ MaxRecords \in Nat

VARIABLES
    \* ---- the archive
    ledger,     \* records [job, event]
    torn,       \* an unfinished last line
    head,       \* record_count of the head file
    rawFile,    \* jobs with a RAW file
    metaFile,   \* job -> ledger position its metadata file is written for
    writing,    \* the record the printproxy is writing, or NoWrite
    \* ---- the adapter
    at,
    headBefore, snapshot, snapshotTorn,
    todo,       \* candidates still to load
    loading,    \* the candidate whose RAW has been read
    delivered,  \* envelopes handed to the worker
    refused     \* candidates quarantined by the worker

archive == <<ledger, torn, head, rawFile, metaFile, writing>>
ppVars == <<ledger, torn, head, rawFile, metaFile, writing,
            at, headBefore, snapshot, snapshotTorn, todo, loading, delivered, refused>>

\* _EVENT_STATUS
EventStatus ==
    [ARCHIVED |-> "SEALED", DUPLEX_ACTIVE |-> "DUPLEX_ACTIVE", DUPLEX_ABORTED |-> "DUPLEX_ABORTED",
     QUEUED |-> "QUEUED", PARTIAL_ARCHIVED |-> "PARTIAL", SEND_ARMED |-> "SEND_ARMED",
     SENDING |-> "SENDING", SENT_UNCONFIRMED |-> "SENT_UNCONFIRMED",
     FAILED_BEFORE_SEND |-> "FAILED_BEFORE_SEND", FAILED_BEFORE_SEND_RECOVERY |-> "FAILED_BEFORE_SEND",
     UNKNOWN_PRINT_STATE |-> "UNKNOWN_PRINT_STATE", UNKNOWN_PRINT_STATE_RECOVERY |-> "UNKNOWN_PRINT_STATE",
     MANUAL_RETRY_QUEUED |-> "QUEUED", RETENTION_DELETE_STARTED |-> "RETENTION_DELETING",
     RETENTION_DELETED |-> "RETENTION_DELETED", QUARANTINED |-> "QUARANTINED"]

Events == DOMAIN EventStatus
PpRecord == [job : PpJobs, event : Events]

ASSUME NoWriteAssumption == NoWrite \notin PpRecord

\* _EVENT_PREDECESSORS; "none" is Python's None.
EventPredecessors ==
    LET failed == {"FAILED_BEFORE_SEND", "FAILED_BEFORE_SEND_RECOVERY"}
        unknown == {"UNKNOWN_PRINT_STATE", "UNKNOWN_PRINT_STATE_RECOVERY"}
        queued == {"QUEUED", "MANUAL_RETRY_QUEUED"}
    IN  [ARCHIVED |-> {"none", "DUPLEX_ACTIVE"}, DUPLEX_ACTIVE |-> {"none"},
         DUPLEX_ABORTED |-> {"ARCHIVED"}, QUEUED |-> {"ARCHIVED"}, PARTIAL_ARCHIVED |-> {"ARCHIVED"},
         SEND_ARMED |-> queued \cup failed, SENDING |-> {"SEND_ARMED"},
         SENT_UNCONFIRMED |-> {"SENDING", "ARCHIVED"}, FAILED_BEFORE_SEND |-> {"SEND_ARMED", "ARCHIVED"},
         FAILED_BEFORE_SEND_RECOVERY |-> {"SEND_ARMED"},
         UNKNOWN_PRINT_STATE |-> {"SENDING", "ARCHIVED", "SENT_UNCONFIRMED"},
         UNKNOWN_PRINT_STATE_RECOVERY |-> {"SENDING", "ARCHIVED"},
         MANUAL_RETRY_QUEUED |-> queued \cup failed \cup unknown,
         RETENTION_DELETE_STARTED |-> {"SENT_UNCONFIRMED"},
         RETENTION_DELETED |-> {"RETENTION_DELETE_STARTED"},
         QUARANTINED |-> (Events \cup {"none"}) \ {"RETENTION_DELETED"}]

Positions(s, j) == {i \in 1..Len(s) : s[i].job = j}
Last(s, j) == CHOOSE i \in Positions(s, j) : \A k \in Positions(s, j) : k <= i
EventBefore(s, j, i) ==
    LET earlier == Positions(SubSeq(s, 1, i - 1), j)
    IN  IF earlier = {} THEN "none" ELSE s[Last(SubSeq(s, 1, i - 1), j)].event

PpInit ==
    /\ ledger = <<>> /\ torn = FALSE /\ head = 0
    /\ rawFile = {} /\ metaFile = [j \in PpJobs |-> 0] /\ writing = NoWrite
    /\ at = "idle" /\ headBefore = 0 /\ snapshot = <<>> /\ snapshotTorn = FALSE
    /\ todo = {} /\ loading = {} /\ delivered = {} /\ refused = {}

-----------------------------------------------------------------------------
(* The printproxy.                                                         *)

WriteMetadata(j, e) ==
    /\ writing = NoWrite /\ Len(ledger) < MaxRecords
    /\ EventBefore(ledger, j, Len(ledger) + 1) \in EventPredecessors[e]
    /\ e = "ARCHIVED" => \A i \in Positions(ledger, j) : ledger[i].event # "ARCHIVED"
    /\ rawFile' = IF e = "RETENTION_DELETED" THEN rawFile \ {j} ELSE rawFile \cup {j}
    /\ metaFile' = [metaFile EXCEPT ![j] = Len(ledger) + 1]
    /\ writing' = [job |-> j, event |-> e]
    /\ UNCHANGED <<ledger, torn, head, at, headBefore, snapshot, snapshotTorn, todo, loading, delivered, refused>>

AppendRecord ==
    /\ writing # NoWrite /\ Len(ledger) = head
    /\ \/ ~torn /\ torn' = TRUE /\ UNCHANGED ledger
       \/ torn' = FALSE /\ ledger' = Append(ledger, writing)
    /\ UNCHANGED <<head, rawFile, metaFile, writing, at, headBefore, snapshot, snapshotTorn, todo, loading, delivered, refused>>

AdvanceHead ==
    /\ writing # NoWrite /\ Len(ledger) = head + 1
    /\ head' = head + 1
    /\ writing' = NoWrite
    /\ UNCHANGED <<ledger, torn, rawFile, metaFile, at, headBefore, snapshot, snapshotTorn, todo, loading, delivered, refused>>

-----------------------------------------------------------------------------
(* The adapter: _read_ledger, _candidate_from_events, load.                *)

ReadHead ==
    /\ at = "idle"
    /\ headBefore' = head
    /\ at' = "ledger"
    /\ UNCHANGED <<archive, snapshot, snapshotTorn, todo, loading, delivered, refused>>

ReadLedger ==
    /\ at = "ledger"
    /\ snapshot' = ledger /\ snapshotTorn' = torn
    /\ at' = "head"
    /\ UNCHANGED <<archive, headBefore, todo, loading, delivered, refused>>

\* Mutation: the head is taken to commit whatever the ledger holds.
SeededHeadNotCompared(h) == h # headBefore \/ snapshotTorn

\* The head changed, the ledger has a tail, or the two do not match.
SnapshotBusy(h) == h # headBefore \/ snapshotTorn \/ h # Len(snapshot)

ValidHistory(j) ==
    /\ \A i \in Positions(snapshot, j) :
          EventBefore(snapshot, j, i) \in EventPredecessors[snapshot[i].event]
    /\ Cardinality({i \in Positions(snapshot, j) : snapshot[i].event = "ARCHIVED"}) <= 1

Retained(s, j) ==
    \A i \in Positions(s, j) : s[i].event \notin {"RETENTION_DELETE_STARTED", "RETENTION_DELETED"}

\* Archived jobs whose deletion has not begun; a job with an invalid history
\* is a candidate too, which load refuses.
IsCandidate(s, j) ==
    \E i \in Positions(s, j) : s[i].event = "ARCHIVED" /\ Retained(s, j)

\* Mutation: after a busy snapshot only the head is read again.
SeededHeadOnly ==
    /\ at = "head"
    /\ IF SnapshotBusy(head)
       THEN UNCHANGED <<at, todo>>
       ELSE at' = "load" /\ todo' = {j \in PpJobs : ~ValidHistory(j) \/ IsCandidate(snapshot, j)}
    /\ UNCHANGED <<archive, headBefore, snapshot, snapshotTorn, loading, delivered, refused>>

\* A busy route is one candidate that load reports as busy.
ReadHeadAgain ==
    /\ at = "head"
    /\ IF SnapshotBusy(head)
       THEN at' = "idle" /\ UNCHANGED todo
       ELSE at' = "load" /\ todo' = {j \in PpJobs : ~ValidHistory(j) \/ IsCandidate(snapshot, j)}
    /\ UNCHANGED <<archive, headBefore, snapshot, snapshotTorn, loading, delivered, refused>>

Refuse(j) == refused' = refused \cup {[job |-> j, latest |-> Last(snapshot, j)]}

LoadRaw(j) ==
    /\ at = "load" /\ loading = {} /\ j \in todo
    /\ todo' = todo \ {j}
    /\ IF ValidHistory(j) /\ j \in rawFile
       THEN loading' = {j} /\ UNCHANGED refused
       ELSE Refuse(j) /\ UNCHANGED loading
    /\ UNCHANGED <<archive, at, headBefore, snapshot, snapshotTorn, delivered>>

\* Mutation: a job that failed before sending counts as unsupported.
SeededSafeState == {"SEALED", "DUPLEX_ACTIVE", "DUPLEX_ABORTED", "QUEUED", "SEND_ARMED", "SENDING",
                    "SENT_UNCONFIRMED", "UNKNOWN_PRINT_STATE", "PARTIAL", "QUARANTINED"}

\* _SAFE_STATE
SafeState == {"SEALED", "DUPLEX_ACTIVE", "DUPLEX_ABORTED", "QUEUED", "SEND_ARMED", "SENDING", "SENT_UNCONFIRMED",
              "FAILED_BEFORE_SEND", "UNKNOWN_PRINT_STATE", "PARTIAL", "QUARANTINED"}

\* The metadata file is the one the latest record of the snapshot names.
MetadataBound(j) == metaFile[j] = Last(snapshot, j)

LoadMetadata(j) ==
    /\ at = "load" /\ j \in loading
    /\ LET last == Last(snapshot, j)
           status == EventStatus[snapshot[last].event]
       IN  IF MetadataBound(j) /\ status \in SafeState
           THEN /\ delivered' = delivered \cup
                       {[job |-> j, latest |-> last, status |-> status,
                         complete |-> status \notin {"PARTIAL", "DUPLEX_ABORTED"}]}
                /\ UNCHANGED refused
           ELSE Refuse(j) /\ UNCHANGED delivered
    /\ loading' = {}
    /\ UNCHANGED <<archive, at, headBefore, snapshot, snapshotTorn, todo>>

EndPoll ==
    /\ at = "load" /\ loading = {} /\ todo = {}
    /\ at' = "idle"
    /\ headBefore' = 0 /\ snapshot' = <<>> /\ snapshotTorn' = FALSE
    /\ UNCHANGED <<archive, todo, loading, delivered, refused>>

PpPoll == \/ ReadHead \/ ReadLedger \/ ReadHeadAgain \/ EndPoll
          \/ \E j \in PpJobs : LoadRaw(j) \/ LoadMetadata(j)

PpNext ==
    \/ \E j \in PpJobs, e \in Events : WriteMetadata(j, e)
    \/ AppendRecord \/ AdvanceHead
    \/ PpPoll

PpSpec == PpInit /\ [][PpNext]_ppVars

-----------------------------------------------------------------------------
\* An envelope shows one committed state of its job: the record its key names
\* is covered by the head, belongs to the job, carries the envelope's status
\* and does not follow the start of the job's deletion, however the reads of
\* head, ledger, RAW and metadata fall between the printproxy's writes.
PpEnvelopeIsCommitted ==
    \A d \in delivered :
        /\ d.latest \in Positions(SubSeq(ledger, 1, head), d.job)
        /\ d.status = EventStatus[ledger[d.latest].event]
        /\ IsCandidate(SubSeq(ledger, 1, d.latest), d.job)

\* A job is refused, and so quarantined, only if the printproxy moved it on
\* after the ledger was read.
PpRefusalHasCause ==
    \A r \in refused : metaFile[r.job] > r.latest

\* A job that stays where it is is delivered in that state.
PpQuietJobIsDelivered ==
    \A j \in PpJobs, n \in 1..MaxRecords :
        (metaFile[j] = n /\ head >= n /\ IsCandidate(ledger, j))
            ~> (metaFile[j] # n \/ \E d \in delivered : d.job = j /\ d.latest = n)

\* What makes it so: a metadata file is written for the last record of its job
\* in the ledger as it will be, no record is ever taken back, and the snapshot
\* of a poll that loads is committed by the head.
Coming == IF writing # NoWrite /\ Len(ledger) = head THEN Append(ledger, writing) ELSE ledger
Begins(s, t) == Len(s) <= Len(t) /\ \A i \in 1..Len(s) : s[i] = t[i]

Lawful(s) ==
    /\ \A i \in 1..Len(s) : EventBefore(s, s[i].job, i) \in EventPredecessors[s[i].event]
    /\ \A i, k \in 1..Len(s) :
          s[i].job = s[k].job /\ s[i].event = "ARCHIVED" /\ s[k].event = "ARCHIVED" => i = k

WriterInv ==
    /\ ledger \in Seq(PpRecord) /\ writing \in PpRecord \cup {NoWrite}
    /\ head \in Nat /\ rawFile \subseteq PpJobs /\ metaFile \in [PpJobs -> Nat]
    /\ head <= Len(ledger) /\ Len(ledger) <= head + 1
    /\ writing = NoWrite => Len(ledger) = head
    /\ Lawful(Coming)
    /\ \A j \in PpJobs :
          /\ \A i \in Positions(Coming, j) : i <= metaFile[j]
          /\ metaFile[j] <= Len(Coming)
          /\ j \notin rawFile /\ metaFile[j] \in Positions(Coming, j)
                => Coming[metaFile[j]].event = "RETENTION_DELETED"

ReaderInv ==
    /\ at \in {"idle", "ledger", "head", "load"}
    /\ at \in {"head", "load"} => snapshot \in Seq(PpRecord) /\ Begins(snapshot, ledger)
    /\ at = "load" => Len(snapshot) <= head
    /\ at # "load" => todo = {} /\ loading = {}
    /\ \A j \in todo \cup loading : j \in PpJobs /\ IsCandidate(snapshot, j)
    /\ delivered \subseteq [job : PpJobs, latest : Nat, status : {EventStatus[e] : e \in Events}, complete : BOOLEAN]
    /\ refused \subseteq [job : PpJobs, latest : Nat]

PpInv == WriterInv /\ ReaderInv /\ PpEnvelopeIsCommitted /\ PpRefusalHasCause

=============================================================================
