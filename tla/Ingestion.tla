----------------------------- MODULE Ingestion -----------------------------
(***************************************************************************)
(* Ingestion of published jobs into the evidence database: the worker of   *)
(* ingestion/worker.py, run for ever by the service and in passes by the   *)
(* one-shot historical importer, over the transactions of                  *)
(* SqlAlchemyIngestionRepository.  Both processes read the same source     *)
(* tree and share the database (READ COMMITTED).                           *)
(*                                                                         *)
(* One adapter.  A source key is a job and the version of its manifest     *)
(* (the key contains the manifest's hash); source_job_id is the job alone. *)
(* Waiting times are left out, and so is the orderly stop, which ends the  *)
(* service between two scans as a crash there does.  Left out too is the   *)
(* DeviceStatus row that store_import adds: no constraint but its own id   *)
(* is on it, and what it says of the backlog is replaced when the scan     *)
(* refreshes the device.                                                   *)
(***************************************************************************)
EXTENDS Naturals, Sequences, FiniteSets

CONSTANTS
    Jobs,          \* jobs of the source tree, numbers in path order
    Service, Importer,
    NoBatch,       \* model value: no import batch is active
    DeviceOf,      \* job -> configured device
    SessionOf,     \* job -> source session
    WithDocuments, \* jobs whose envelope carries parsed documents
    Invalid,       \* jobs the adapter refuses
    Published,     \* jobs in the tree from the start
    Moving,        \* jobs whose source state moves after publication
    MaxVersion,    \* bound: versions of a moving job
    Window,        \* maximum_per_adapter
    RetryAttempts,
    MaxPasses,     \* maximum_passes of the importer
    MaxFaults      \* bound: failures of the database, of a source read

Procs == {Service, Importer}
Devices == {DeviceOf[j] : j \in Jobs}
Versions == 1..MaxVersion
Keys == Jobs \X Versions

ASSUME SourceAssumption ==
    /\ Jobs \subseteq Nat /\ IsFiniteSet(Jobs)
    /\ WithDocuments \subseteq Jobs /\ Invalid \subseteq Jobs
    /\ Published \subseteq Jobs /\ Moving \subseteq Jobs
ASSUME BoundsAssumption ==
    /\ {Window, RetryAttempts, MaxPasses, MaxVersion} \subseteq Nat \ {0}
    /\ MaxFaults \in Nat
ASSUME ProcsAssumption ==
    /\ Service # Importer
    /\ {"nobody", "none", "committed"} \cap {Service, Importer} = {}

VARIABLES
    \* ---- the source tree
    source,     \* job -> published version, 0: not published
    \* ---- the database
    stored,     \* source keys of print_jobs
    items,      \* source key -> import batches that hold its items
    parser,     \* the parser_versions row: "none", "committed" or the process that inserted it
    holder,     \* device -> process whose transaction has locked its row
    pending,    \* device -> pending_imports of its last status
    \* ---- a process
    pc,
    cursor,     \* _discovery_cursor of the adapter
    queue,      \* candidates of the scan still to handle
    key,        \* source key of the envelope under way
    attempt,
    report,     \* IngestionRunReport of the scan
    batch,      \* active import batch: its items, or NoBatch
    \* ---- the importer
    passes, seen, needsAttention, exit,
    \* ---- history
    faults, drifted

tree == <<source>>
db == <<stored, items, parser, holder>>
scan == <<cursor, queue, key, attempt, report, batch>>
importer == <<passes, seen, needsAttention, exit>>
vars == <<source, stored, items, parser, holder, pending, pc, cursor, queue, key, attempt, report,
          batch, passes, seen, needsAttention, exit, faults, drifted>>

Nobody == "nobody"
NoKey == <<0, 0>>

EmptyReport == [discovered |-> 0, imported |-> 0, duplicates |-> 0, quarantined |-> 0,
                exhausted |-> 0, busy |-> 0, errors |-> FALSE, keys |-> {}]

Init ==
    /\ source = [j \in Jobs |-> IF j \in Published THEN 1 ELSE 0]
    /\ stored = {}
    /\ items = [k \in Keys |-> 0]
    /\ parser = "none"
    /\ holder = [d \in Devices |-> Nobody]
    /\ pending = [d \in Devices |-> 0]
    /\ pc = [p \in Procs |-> "begin"]
    /\ cursor = [p \in Procs |-> 0]
    /\ queue = [p \in Procs |-> <<>>]
    /\ key = [p \in Procs |-> NoKey]
    /\ attempt = [p \in Procs |-> 1]
    /\ report = [p \in Procs |-> EmptyReport]
    /\ batch = [p \in Procs |-> NoBatch]
    /\ passes = 0
    /\ seen = {}
    /\ needsAttention = FALSE
    /\ exit = "running"
    /\ faults = 0
    /\ drifted = FALSE

-----------------------------------------------------------------------------
(* The source tree, written by the capture or by a legacy proxy.           *)

\* A job is published.  A moving job changes later: a printproxy job gets a
\* new latest ledger record, a directory is published again; same job, another
\* manifest.  drifted remembers that the tree changed.
Publish(j) ==
    /\ source[j] < IF j \in Moving THEN MaxVersion ELSE 1
    /\ source' = [source EXCEPT ![j] = @ + 1]
    /\ drifted' = TRUE
    /\ UNCHANGED <<db, pending, pc, scan, importer, faults>>

Present == {j \in Jobs : source[j] > 0}

\* The tree in path order (there is one such listing).
Candidates ==
    {s \in [1..Cardinality(Present) -> Present] : \A i, k \in DOMAIN s : i < k => s[i] < s[k]}

\* The window of a discovery that lists the candidates s, and the cursor it
\* leaves.
Rotated(s, c) ==
    LET n == Len(s)
    IN  IF n <= Window THEN s ELSE [i \in 1..Window |-> s[(((c % n) + i - 1) % n) + 1]]

\* Mutation: the window does not rotate.
SeededNoRotation(c) == 0

NextCursor(c) ==
    LET n == Cardinality(Present) IN IF n <= Window THEN 0 ELSE ((c % n) + Window) % n

-----------------------------------------------------------------------------
(* A scan: begin_import_batch, discover, load.                             *)

Count(p, field) == [report EXCEPT ![p][field] = @ + 1]
Fault == /\ faults < MaxFaults
         /\ faults' = faults + 1

BeginBatch(p) ==
    /\ pc[p] = "begin"
    /\ report' = [report EXCEPT ![p] = EmptyReport]
    /\ \/ batch' = [batch EXCEPT ![p] = {}] /\ UNCHANGED faults
       \/ Fault /\ batch' = [batch EXCEPT ![p] = NoBatch]
    /\ pc' = [pc EXCEPT ![p] = "discover"]
    /\ UNCHANGED <<tree, db, pending, cursor, queue, key, attempt, importer, drifted>>

Discover(p) ==
    /\ pc[p] = "discover"
    /\ \E s \in Candidates : queue' = [queue EXCEPT ![p] = Rotated(s, cursor[p])]
    /\ cursor' = [cursor EXCEPT ![p] = NextCursor(cursor[p])]
    /\ pc' = [pc EXCEPT ![p] = "scan"]
    /\ UNCHANGED <<tree, db, pending, key, attempt, report, batch, importer, faults, drifted>>

\* The tree cannot be walked: the discovery itself is quarantined.
DiscoverFails(p) ==
    /\ pc[p] = "discover"
    /\ Fault
    /\ queue' = [queue EXCEPT ![p] = <<>>]
    /\ attempt' = [attempt EXCEPT ![p] = 1]
    /\ pc' = [pc EXCEPT ![p] = "quarantine"]
    /\ drifted' = (drifted \/ p = Importer)
    /\ UNCHANGED <<tree, db, pending, cursor, key, report, batch, importer>>

\* A file that discovery reads changed under it: the scan has no candidates.
DiscoverBusy(p) ==
    /\ pc[p] = "discover"
    /\ Fault
    /\ queue' = [queue EXCEPT ![p] = <<>>]
    /\ report' = [report EXCEPT ![p].busy = @ + 1, ![p].errors = TRUE]
    /\ pc' = [pc EXCEPT ![p] = "scan"]
    /\ drifted' = (drifted \/ p = Importer)
    /\ UNCHANGED <<tree, db, pending, cursor, key, attempt, batch, importer>>

Noted(p) == LET j == Head(queue[p])
            IN  [report EXCEPT ![p].discovered = @ + 1, ![p].keys = @ \cup {j}]

Load(p) ==
    /\ pc[p] = "scan" /\ queue[p] # <<>>
    /\ LET j == Head(queue[p])
       IN  /\ key' = [key EXCEPT ![p] = <<j, source[j]>>]
           /\ pc' = [pc EXCEPT ![p] = IF j \in Invalid THEN "quarantine" ELSE "lookup"]
    /\ queue' = [queue EXCEPT ![p] = Tail(@)]
    /\ report' = Noted(p)
    /\ attempt' = [attempt EXCEPT ![p] = 1]
    /\ UNCHANGED <<tree, db, pending, cursor, batch, importer, faults, drifted>>

\* The snapshot of the candidate changed under the reader, or a read failed.
LoadBusy(p) ==
    /\ pc[p] = "scan" /\ queue[p] # <<>>
    /\ Fault
    /\ queue' = [queue EXCEPT ![p] = Tail(@)]
    /\ report' = [Noted(p) EXCEPT ![p].busy = @ + 1, ![p].errors = TRUE]
    /\ UNCHANGED <<tree, db, pending, pc, cursor, key, attempt, batch, importer, drifted>>

\* After a failed call: another attempt at "back", or the candidate is given up.
RetryFrom(p, back) ==
    IF attempt[p] = RetryAttempts
    THEN /\ report' = [report EXCEPT ![p].exhausted = @ + 1, ![p].errors = TRUE]
         /\ pc' = [pc EXCEPT ![p] = "scan"]
         /\ UNCHANGED attempt
    ELSE /\ attempt' = [attempt EXCEPT ![p] = @ + 1]
         /\ pc' = [pc EXCEPT ![p] = back]
         /\ UNCHANGED report

Quarantine(p) ==
    /\ pc[p] = "quarantine"
    /\ \/ /\ report' = Count(p, "quarantined")
          /\ pc' = [pc EXCEPT ![p] = "scan"]
          /\ UNCHANGED <<attempt, faults>>
       \/ Fault /\ RetryFrom(p, "quarantine")
    /\ UNCHANGED <<tree, db, pending, cursor, queue, key, batch, importer, drifted>>

-----------------------------------------------------------------------------
(* store_import, statement by statement.                                   *)

Transaction == {"lookup", "device", "insert", "chunks", "parser_select", "parser_insert", "commit", "lookup2"}

\* What ends with the transaction of p.
Released(p) == [d \in Devices |-> IF holder[d] = p THEN Nobody ELSE holder[d]]
ParserRolledBack(p) == IF parser = p THEN "none" ELSE parser

\* Mutation: nothing but the looked-up key is unique.
SeededNoConstraint(k) == FALSE

\* The unique constraints of print_jobs: the job is there, under whatever key.
IdentityTaken(k) == \E s \in stored : s[1] = k[1]

\* Those of stream_chunks: sequences and offsets start again in each job of a
\* session.  Envelopes of parsed documents carry no chunks.
ChunksTaken(k) ==
    \E s \in stored : /\ SessionOf[s[1]] = SessionOf[k[1]]
                      /\ {s[1], k[1]} \cap WithDocuments = {}

Step(p, next) == pc' = [pc EXCEPT ![p] = next]

\* A known key is a duplicate and nothing but the batch's report is written.
Lookup(p) ==
    /\ pc[p] = "lookup"
    /\ IF key[p] \in stored
       THEN Step(p, "scan") /\ report' = Count(p, "duplicates")
       ELSE Step(p, "device") /\ UNCHANGED report
    /\ UNCHANGED <<tree, db, pending, cursor, queue, key, attempt, batch, importer, faults, drifted>>

\* The row is there: every process stores the configured devices before it
\* starts (_sync_devices), and adapters know no others.
LockDevice(p) ==
    /\ pc[p] = "device"
    /\ LET d == DeviceOf[key[p][1]]
       IN  holder[d] = Nobody /\ holder' = [holder EXCEPT ![d] = p]
    /\ Step(p, "insert")
    /\ UNCHANGED <<tree, stored, items, parser, pending, scan, importer, faults, drifted>>

\* The proxy session and the job; IntegrityError rolls back.
InsertJob(p) ==
    /\ pc[p] = "insert"
    /\ IF IdentityTaken(key[p])
       THEN Step(p, "lookup2") /\ holder' = Released(p)
       ELSE Step(p, "chunks") /\ UNCHANGED holder
    /\ UNCHANGED <<tree, stored, items, parser, pending, scan, importer, faults, drifted>>

\* Artifacts and chunks of the job.
InsertChunks(p) ==
    /\ pc[p] = "chunks"
    /\ IF ChunksTaken(key[p])
       THEN Step(p, "lookup2") /\ holder' = Released(p)
       ELSE /\ Step(p, IF key[p][1] \in WithDocuments THEN "parser_select" ELSE "commit")
            /\ UNCHANGED holder
    /\ UNCHANGED <<tree, stored, items, parser, pending, scan, importer, faults, drifted>>

SelectParser(p) ==
    /\ pc[p] = "parser_select"
    /\ Step(p, IF parser = "committed" THEN "commit" ELSE "parser_insert")
    /\ UNCHANGED <<tree, db, pending, scan, importer, faults, drifted>>

\* The unique index makes the insert wait for another transaction's row.
InsertParser(p) ==
    /\ pc[p] = "parser_insert"
    /\ parser \notin Procs
    /\ IF parser = "committed"
       THEN Step(p, "lookup2") /\ holder' = Released(p) /\ UNCHANGED parser
       ELSE Step(p, "commit") /\ parser' = p /\ UNCHANGED holder
    /\ UNCHANGED <<tree, stored, items, pending, scan, importer, faults, drifted>>

\* Job, items and device status become visible together.
Durable(p) ==
    /\ stored' = stored \cup {key[p]}
    /\ items' = [items EXCEPT ![key[p]] = @ + 1]
    /\ parser' = IF parser = p THEN "committed" ELSE parser
    /\ holder' = Released(p)
    /\ batch' = IF batch[p] = NoBatch THEN batch ELSE [batch EXCEPT ![p] = @ \cup {key[p]}]

Commit(p) ==
    /\ pc[p] = "commit"
    /\ Durable(p)
    /\ report' = Count(p, "imported")
    /\ Step(p, "scan")
    /\ UNCHANGED <<tree, pending, cursor, queue, key, attempt, importer, faults, drifted>>

\* The database commits but the answer is lost with the connection.
CommitUnanswered(p) ==
    /\ pc[p] = "commit"
    /\ Fault
    /\ Durable(p)
    /\ RetryFrom(p, "lookup")
    /\ UNCHANGED <<tree, pending, cursor, queue, key, importer, drifted>>

\* Any statement may fail: rollback, RepositoryUnavailable, retry.
StatementFails(p) ==
    /\ pc[p] \in Transaction
    /\ Fault
    /\ holder' = Released(p)
    /\ parser' = ParserRolledBack(p)
    /\ RetryFrom(p, "lookup")
    /\ UNCHANGED <<tree, stored, items, pending, cursor, queue, key, batch, importer, drifted>>

\* Mutation: every IntegrityError is a conflict.
SeededRaceIsConflict(p) ==
    /\ pc[p] = "lookup2"
    /\ Step(p, "down")
    /\ batch' = [batch EXCEPT ![p] = NoBatch]
    /\ exit' = IF p = Importer THEN "2" ELSE exit
    /\ UNCHANGED <<tree, db, pending, cursor, queue, key, attempt, report, passes, seen, needsAttention, faults, drifted>>

\* After an IntegrityError: the same key is a duplicate, all else a
\* ValueError that no caller catches.  The process ends with status 2.
LookupAgain(p) ==
    /\ pc[p] = "lookup2"
    /\ IF key[p] \in stored
       THEN /\ Step(p, "scan")
            /\ report' = Count(p, "duplicates")
            /\ UNCHANGED <<batch, exit>>
       ELSE /\ Step(p, "down")
            /\ batch' = [batch EXCEPT ![p] = NoBatch]
            /\ exit' = IF p = Importer THEN "2" ELSE exit
            /\ UNCHANGED report
    /\ UNCHANGED <<tree, db, pending, cursor, queue, key, attempt, passes, seen, needsAttention,
                   faults, drifted>>

-----------------------------------------------------------------------------
(* The end of a scan: complete_import_batch, refresh_device_statuses.      *)

OperationalNoise(r) ==
    /\ r.imported = 0 /\ r.quarantined + r.exhausted = 0 /\ ~r.errors
    /\ r.discovered = r.duplicates

\* A shell with items cannot be deleted (foreign key): it stays RUNNING.
CompleteBatch(p) ==
    /\ pc[p] = "scan" /\ queue[p] = <<>> /\ batch[p] # NoBatch
    /\ \/ /\ OperationalNoise(report[p])
          /\ report' = [report EXCEPT ![p].errors = (batch[p] # {})]
          /\ UNCHANGED faults
       \/ /\ ~OperationalNoise(report[p])
          /\ UNCHANGED <<report, faults>>
       \/ /\ Fault
          /\ report' = [report EXCEPT ![p].errors = TRUE]
    /\ batch' = [batch EXCEPT ![p] = NoBatch]
    /\ Step(p, "refresh")
    /\ UNCHANGED <<tree, db, pending, cursor, queue, key, attempt, importer, drifted>>

SkipBatch(p) ==
    /\ pc[p] = "scan" /\ queue[p] = <<>> /\ batch[p] = NoBatch
    /\ Step(p, "refresh")
    /\ UNCHANGED <<tree, db, pending, scan, importer, faults, drifted>>

\* Ready jobs of the spool without a print job.
Unimported(d) == {j \in Jobs : DeviceOf[j] = d /\ source[j] > 0 /\ ~\E s \in stored : s[1] = j}

\* refresh_device_statuses; a failure is left to the next scan.  The scan's
\* locals end with it.
RefreshStatuses(p) ==
    /\ pc[p] = "refresh"
    /\ \/ pending' = [d \in Devices |-> Cardinality(Unimported(d))] /\ UNCHANGED faults
       \/ Fault /\ UNCHANGED pending
    /\ report' = [report EXCEPT ![p] = IF p = Service THEN EmptyReport ELSE @]
    /\ key' = [key EXCEPT ![p] = NoKey]
    /\ attempt' = [attempt EXCEPT ![p] = 1]
    /\ Step(p, IF p = Service THEN "begin" ELSE "passed")
    /\ UNCHANGED <<tree, db, cursor, queue, batch, importer, drifted>>

-----------------------------------------------------------------------------
(* The processes.                                                          *)

\* Mutation: exhausted retries are not a reason to exit with 1.
SeededIgnoreExhausted(r) == r.quarantined + r.busy > 0

Degraded(r) == r.quarantined + r.exhausted + r.busy > 0

\* HistoricalImporter.run: another pass while a pass shows new candidates.
ImporterPass ==
    /\ pc[Importer] = "passed"
    /\ LET r == report[Importer]
       IN  IF r.keys \subseteq seen
           THEN /\ exit' = IF needsAttention THEN "1" ELSE "0"
                /\ Step(Importer, "down")
                /\ UNCHANGED <<seen, passes, needsAttention>>
           ELSE /\ seen' = seen \cup r.keys
                /\ passes' = passes + 1
                /\ needsAttention' = (needsAttention \/ Degraded(r) \/ passes + 1 = MaxPasses)
                /\ IF passes + 1 = MaxPasses
                   THEN exit' = "1" /\ Step(Importer, "down")
                   ELSE Step(Importer, "begin") /\ UNCHANGED exit
    /\ UNCHANGED <<tree, db, pending, scan, faults, drifted>>

Crash ==
    /\ pc[Service] # "down"
    /\ Fault
    /\ holder' = Released(Service)
    /\ parser' = ParserRolledBack(Service)
    /\ batch' = [batch EXCEPT ![Service] = NoBatch]
    /\ Step(Service, "down")
    /\ UNCHANGED <<tree, stored, items, pending, cursor, queue, key, attempt, report, importer, drifted>>

\* Restart=on-failure: a new worker with a new adapter.
Restart ==
    /\ pc[Service] = "down"
    /\ cursor' = [cursor EXCEPT ![Service] = 0]
    /\ queue' = [queue EXCEPT ![Service] = <<>>]
    /\ Step(Service, "begin")
    /\ UNCHANGED <<tree, db, pending, key, attempt, report, batch, importer, faults, drifted>>

Work(p) ==
    \/ BeginBatch(p) \/ Discover(p) \/ DiscoverFails(p) \/ DiscoverBusy(p)
    \/ Load(p) \/ LoadBusy(p) \/ Quarantine(p)
    \/ Lookup(p) \/ LockDevice(p) \/ InsertJob(p) \/ InsertChunks(p) \/ SelectParser(p) \/ InsertParser(p)
    \/ Commit(p) \/ CommitUnanswered(p) \/ StatementFails(p) \/ LookupAgain(p)
    \/ CompleteBatch(p) \/ SkipBatch(p) \/ RefreshStatuses(p)

Next ==
    \/ \E p \in Procs : Work(p)
    \/ ImporterPass \/ Crash \/ Restart
    \/ \E j \in Jobs : Publish(j)

Spec == Init /\ [][Next]_vars

\* Processes run, a dead service is restarted, waiting for a row lock ends.
FairSpec == Spec /\ WF_vars(Work(Service)) /\ WF_vars(Restart) /\ WF_vars(Work(Importer) \/ ImporterPass)

-----------------------------------------------------------------------------
Pcs == Transaction \cup {"begin", "discover", "scan", "quarantine", "refresh", "passed", "down"}

Counts == [discovered: 0..Window, imported: 0..Window, duplicates: 0..Window, quarantined: 0..Window,
           exhausted: 0..Window, busy: 0..Window, errors: BOOLEAN, keys: SUBSET Jobs]

\* Every variable keeps its type: in particular no scan reports more
\* candidates of any kind than its window holds.
TypeOK ==
    /\ source \in [Jobs -> 0..MaxVersion]
    /\ stored \subseteq Keys
    /\ items \in [Keys -> Nat]
    /\ parser \in {"none", "committed"} \cup Procs
    /\ holder \in [Devices -> Procs \cup {Nobody}]
    /\ pending \in [Devices -> Nat]
    /\ pc \in [Procs -> Pcs]
    /\ cursor \in [Procs -> Nat]
    /\ queue \in [Procs -> Seq(Jobs)]
    /\ key \in [Procs -> Keys \cup {NoKey}]
    /\ attempt \in [Procs -> 1..RetryAttempts]
    /\ report \in [Procs -> Counts]
    /\ \A p \in Procs : batch[p] # NoBatch => batch[p] \subseteq Keys
    /\ passes \in 0..MaxPasses
    /\ seen \subseteq Jobs
    /\ needsAttention \in BOOLEAN
    /\ exit \in {"running", "0", "1", "2"}
    /\ faults \in 0..MaxFaults
    /\ drifted \in BOOLEAN

\* Evidence is imported exactly once: two importers, retries after a commit
\* whose answer was lost and crashes leave one print job per source job, and
\* its items in exactly one import batch.
ImportedOnce ==
    /\ \A s, t \in stored : s[1] = t[1] => s = t
    /\ \A k \in Keys : items[k] = IF k \in stored THEN 1 ELSE 0

\* What makes it so: from the row lock of the device to the commit a process is
\* alone with the jobs of that device, so that what its INSERT found free stays
\* free; and a candidate at rest has one key for ever.
Holding == {"insert", "chunks", "parser_select", "parser_insert", "commit"}

ProcessInv(p) ==
    /\ \A i \in 1..Len(queue[p]) : source[queue[p][i]] > 0
    /\ pc[p] \in Transaction => key[p] \in Keys
    /\ pc[p] \in Holding => holder[DeviceOf[key[p][1]]] = p
    /\ pc[p] \in Holding \ {"insert"} => ~IdentityTaken(key[p])
    /\ pc[p] \in {"parser_select", "parser_insert"} => key[p][1] \in WithDocuments
    /\ pc[p] = "lookup2" =>
          IdentityTaken(key[p]) \/ ChunksTaken(key[p]) \/ key[p][1] \in WithDocuments

FirstVersion(k) == k \in Keys /\ k[1] \notin Moving => k[2] = 1

IngestionInv ==
    /\ source \in [Jobs -> 0..MaxVersion]
    /\ stored \subseteq Keys
    /\ items \in [Keys -> Nat]
    /\ holder \in [Devices -> Procs \cup {Nobody}]
    /\ pc \in [Procs -> Pcs]
    /\ cursor \in [Procs -> Nat]
    /\ queue \in [Procs -> Seq(Jobs)]
    /\ key \in [Procs -> Keys \cup {NoKey}]
    /\ \A p \in Procs : ProcessInv(p) /\ FirstVersion(key[p])
    /\ \A j \in Jobs \ Moving : source[j] <= 1
    /\ \A k \in stored : FirstVersion(k)
    /\ ImportedOnce

\* The importer that exits with 0 leaves no job behind: everything published
\* in a tree that it could read and that stood still is in the database.
ImporterDrainsQuietTree ==
    exit = "0" /\ ~drifted => \A j \in Jobs : source[j] > 0 => \E s \in stored : s[1] = j

\* What makes it so: as long as the importer has not seen the whole tree it has
\* seen the first part of it, as long as its cursor says, and everything it has
\* seen is stored or will make it exit with 1.
Imported(j) == \E s \in stored : s[1] = j
InHand == Transaction \cup {"quarantine"}
InPass == InHand \cup {"scan", "refresh", "passed"}

\* The candidates of the importer's pass, handled and not.
Offered == report[Importer].keys \cup {queue[Importer][i] : i \in 1..Len(queue[Importer])}

\* A candidate was handled, and if it is not stored the pass tells so.
Settled(j) ==
    \/ Imported(j) \/ Degraded(report[Importer])
    \/ pc[Importer] \in InHand /\ key[Importer][1] = j

Beginning(X, c) ==
    /\ X \subseteq Present /\ Cardinality(X) = c
    /\ \A i \in Present, j \in X : i < j => i \in X

Frontier(X, c) == X = Present \/ Beginning(X, c)

PassInv ==
    /\ Offered \subseteq Present /\ Frontier(seen \cup Offered, cursor[Importer])
    /\ Offered \subseteq seen => seen = Present
    /\ \A j \in report[Importer].keys : Settled(j)

QuietInv ==
    /\ seen \subseteq Present
    /\ needsAttention \/ \A j \in seen : Imported(j)
    /\ pc[Importer] \in {"begin", "discover"} => Frontier(seen, cursor[Importer])
    /\ pc[Importer] = "discover" => report[Importer] = EmptyReport
    /\ pc[Importer] \in InPass => PassInv
    /\ pc[Importer] \in {"refresh", "passed"} => queue[Importer] = <<>>
    /\ exit = "0" => \A j \in Present : Imported(j)

Reports == [discovered: Nat, imported: Nat, duplicates: Nat, quarantined: Nat,
            exhausted: Nat, busy: Nat, errors: BOOLEAN, keys: SUBSET Jobs]

DrainInv ==
    /\ report \in [Procs -> Reports]
    /\ ~drifted => QuietInv

\* Losing the uniqueness race for a capture job that stands still is reported
\* as a duplicate; it never ends the process.
RaceLoserIsDuplicate ==
    [][\A p \in Procs :
          LookupAgain(p) /\ pc'[p] = "down" => key[p][1] \in WithDocuments \cup Moving]_vars

\* Whatever fails on the way, a job the adapter accepts is imported at last.
EveryJobIsImported ==
    \A j \in Jobs \ Invalid : source[j] > 0 ~> \E s \in stored : s[1] = j

\* The importer's exit status 0 means that the scan is complete and nothing
\* needs attention: what was in the tree when it started is in the database.
ImporterDrains ==
    exit = "0" => \A j \in Published \ Invalid : \E s \in stored : s[1] = j

\* The backlog a device reports ends, and stays, at the jobs that can never be
\* imported: exhausted retries, crashes and the importer delay the others, but
\* a later scan offers them again.
BacklogDrains ==
    <>[](\A d \in Devices : pending[d] = Cardinality({j \in Invalid : DeviceOf[j] = d /\ source[j] > 0}))

=============================================================================
