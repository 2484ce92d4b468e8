------------------------------- MODULE Parsing -------------------------------
(***************************************************************************)
(* ParserWorker over SqlAlchemyParserRepository: the parser service, and   *)
(* the operator's one-shot runs of the same worker (--once beside the      *)
(* service, --once --reparse-all with the service stopped, which is what   *)
(* scripts/reprocess_captures.sh insists on).  A transaction reads, then   *)
(* writes; the unique keys of documents and document_versions refuse a     *)
(* version another process committed in between.                           *)
(*                                                                         *)
(* A job has one document; what a build of the parser makes of a RAW is a  *)
(* function of both.  The backoff is a job that is cooling until its delay *)
(* is over; the constant 8 of record_failure is MaxAttempts.  A parser     *)
(* fails with one of the exceptions that run_once catches; another one     *)
(* would end the process at the same job at every start, and is not an     *)
(* outcome here.                                                           *)
(***************************************************************************)
EXTENDS Beeper, FiniteSets

CONSTANTS
    Builds,      \* installed one after the other: 1..n
    Limit,       \* jobs of one run_once
    MaxAttempts, \* failures after which a job is not retried
    MaxTroubles, \* bound: database failures, stops and crashes
    MaxFailures  \* bound: failures of a job after which no run is started by hand

ASSUME ParsingAssumption ==
    /\ BeepJobs \subseteq Nat /\ IsFiniteSet(BeepJobs)
    /\ IsFiniteSet(Builds) /\ Builds = 1..Cardinality(Builds) /\ 1 \in Builds
    /\ Limit \in Nat \ {0} /\ MaxAttempts \in Nat \ {0}
    /\ MaxTroubles \in Nat /\ MaxFailures \in Nat

Procs == {"service", "operator"}
Statuses == {"absent", "IMPORTED", "PARSED", "PARSE_EMPTY", "PARSE_RETRY", "PARSE_FAILED"}

VARIABLES
    \* ---- the database
    status,    \* import_status
    versions,  \* document_versions of the job's document: builds, in chain order
    empties,   \* builds with a PARSER_NO_DOCUMENTS event
    failures,  \* PARSER_FAILED events per build
    \* ---- the world
    outcome,   \* what a build makes of a job
    build,     \* the installed build
    cooling,   \* jobs whose backoff is not over
    troubles,
    \* ---- the processes
    proc       \* [at, reparse, todo, seen, count]

db == <<status, versions, empties, failures>>
parsingVars == <<status, versions, empties, failures, outcome, build, cooling, troubles, proc>>
allVars == <<parsingVars, beeperVars>>

Down == [at |-> "down", reparse |-> FALSE, todo |-> <<>>, seen |-> <<>>, count |-> 0]
Up == [Down EXCEPT !.at = "idle"]

ParsingInit ==
    /\ BeeperInit
    /\ status = [j \in BeepJobs |-> "absent"]
    /\ versions = [j \in BeepJobs |-> <<>>]
    /\ empties = [j \in BeepJobs |-> {}]
    /\ failures = [j \in BeepJobs |-> [b \in Builds |-> 0]]
    /\ outcome \in [BeepJobs -> [Builds -> {"documents", "empty", "error"}]]
    /\ build = 1 /\ cooling = {} /\ troubles = 0
    /\ proc = [p \in Procs |-> IF p = "service" THEN Up ELSE Down]

Job(p) == Head(proc[p].todo)
Go(p, at) == proc' = [proc EXCEPT ![p].at = at]
\* The service polls again, a one-shot run is over.
Resting(p) == IF p = "service" THEN "idle" ELSE "end"
Trouble == troubles < MaxTroubles /\ troubles' = troubles + 1

-----------------------------------------------------------------------------
(* The world: ingestion, the clock, the operator.                          *)

Import(j) ==
    /\ spoolDir[j] = "published" /\ status[j] = "absent"
    /\ status' = [status EXCEPT ![j] = "IMPORTED"]
    /\ UNCHANGED <<versions, empties, failures, outcome, build, cooling, troubles, proc, beeperVars>>

Elapse(j) ==
    /\ j \in cooling
    /\ cooling' = cooling \ {j}
    /\ UNCHANGED <<db, outcome, build, troubles, proc, beeperVars>>

\* Stopping, upgrading and crashing the service all lose the dispatcher's memory.
StopService ==
    /\ proc["service"].at # "down"
    /\ Trouble
    /\ proc' = [proc EXCEPT !["service"] = Down]
    /\ BeeperStarts
    /\ UNCHANGED <<db, outcome, build, cooling, spoolDir>>

StartService ==
    /\ proc["service"].at = "down" /\ ~proc["operator"].reparse
    /\ proc' = [proc EXCEPT !["service"] = Up]
    /\ UNCHANGED <<db, outcome, build, cooling, troubles, beeperVars>>

Upgrade ==
    /\ \A p \in Procs : proc[p].at = "down"
    /\ build + 1 \in Builds
    /\ build' = build + 1
    /\ cooling' = {}
    /\ UNCHANGED <<db, outcome, troubles, proc, beeperVars>>

RunOnce(reparse) ==
    /\ proc["operator"].at = "down"
    /\ reparse => proc["service"].at = "down"
    /\ \A j \in BeepJobs : failures[j][build] < MaxFailures
    /\ proc' = [proc EXCEPT !["operator"] = [Up EXCEPT !.reparse = reparse]]
    /\ UNCHANGED <<db, outcome, build, cooling, troubles, beeperVars>>

-----------------------------------------------------------------------------
(* pending_jobs                                                            *)

Processed(j) == build \in empties[j] \/ \E i \in 1..Len(versions[j]) : versions[j][i] = build

\* Mutation: jobs that were tried before are left to the operator.
SeededOnlyImported(reparse) ==
    IF reparse THEN {j \in BeepJobs : status[j] # "absent" /\ ~Processed(j)}
    ELSE {j \in BeepJobs : status[j] = "IMPORTED" /\ versions[j] = <<>>}

\* The polling cycle takes jobs without documents, a reparse those the
\* installed build has not processed.
Candidates(reparse) ==
    IF reparse THEN {j \in BeepJobs : status[j] # "absent" /\ ~Processed(j)}
    ELSE {j \in BeepJobs : status[j] \in {"IMPORTED", "PARSE_RETRY"} /\ versions[j] = <<>>}

\* order_by captured_at, and the limit: the one listing of the oldest jobs
Oldest(S, n) ==
    LET rank(j) == Cardinality({k \in S : k <= j})
        size == IF Cardinality(S) < n THEN Cardinality(S) ELSE n
    IN  {s \in [1..size -> S] : \A i \in 1..size : rank(s[i]) = i}

\* the rows the polling cycle looks at before it skips the cooling ones
Range8(S) == {j \in S : Cardinality({k \in S : k < j}) < 8 * Limit}

PendingJobs(p) ==
    /\ proc[p].at = "idle"
    /\ LET reparse == proc[p].reparse
           window == Candidates(reparse)
           rows == IF reparse THEN window ELSE Range8(window) \ cooling
       IN  \E selected \in Oldest(rows, Limit) :
               proc' = [proc EXCEPT ![p].todo = selected,
                           ![p].at = IF selected # <<>> THEN "load" ELSE Resting(p)]
    /\ UNCHANGED <<db, outcome, build, cooling, troubles, beeperVars>>

-----------------------------------------------------------------------------
(* run_once, one job after the other                                       *)

\* load_job, and the early notification of a job that was never tried.
LoadJob(p) ==
    /\ proc[p].at = "load"
    /\ IF p = "service" /\ status[Job(p)] = "IMPORTED"
       THEN Enqueue(Job(p)) /\ UNCHANGED <<spoolDir, observed, notified>>
       ELSE UNCHANGED beeperVars
    /\ Go(p, IF outcome[Job(p)][build] = "error" THEN "failure" ELSE "store")
    /\ UNCHANGED <<db, outcome, build, cooling, troubles>>

BeginStore(p) ==
    /\ proc[p].at = "store"
    /\ proc' = [proc EXCEPT ![p].at = "commit", ![p].seen = versions[Job(p)]]
    /\ UNCHANGED <<db, outcome, build, cooling, troubles, beeperVars>>

\* The loop goes on with the next job.
Advance(p) ==
    LET rest == Tail(proc[p].todo)
    IN  proc' = [proc EXCEPT ![p].todo = rest, ![p].seen = <<>>, ![p].count = 0,
                    ![p].at = IF rest # <<>> THEN "load" ELSE Resting(p)]

Stored(p) == \E i \in 1..Len(proc[p].seen) : proc[p].seen[i] = build

\* Mutation: nothing keeps two processes from appending to one chain.
SeededNoUniqueKey(p) == FALSE

\* The unique keys of documents and document_versions.
Conflict(p) == ~Stored(p) /\ versions[Job(p)] # proc[p].seen

WriteDocuments(p) ==
    LET j == Job(p)
    IN  IF outcome[j][build] = "empty"
        THEN /\ empties' = [empties EXCEPT ![j] = @ \cup {build}]
             /\ status' = [status EXCEPT ![j] = "PARSE_EMPTY"]
             /\ UNCHANGED versions
        ELSE /\ versions' = IF Stored(p) THEN versions ELSE [versions EXCEPT ![j] = Append(@, build)]
             /\ status' = [status EXCEPT ![j] = "PARSED"]
             /\ UNCHANGED empties

Insertable(p) == outcome[Job(p)][build] = "documents" => ~Conflict(p)

CommitStore(p) ==
    /\ proc[p].at = "commit"
    /\ IF Insertable(p)
       THEN WriteDocuments(p) /\ Advance(p)
       ELSE UNCHANGED <<status, versions, empties>> /\ Go(p, "failure")
    /\ UNCHANGED <<failures, outcome, build, cooling, troubles, beeperVars>>

\* The transaction fails, or its acknowledgement is lost: a failure either way.
StoreFails(p) ==
    /\ proc[p].at \in {"load", "commit"}
    /\ Trouble
    /\ \/ UNCHANGED <<status, versions, empties>>
       \/ proc[p].at = "commit" /\ Insertable(p) /\ WriteDocuments(p)
    /\ Go(p, "failure")
    /\ UNCHANGED <<failures, outcome, build, cooling, beeperVars>>

\* record_failure counts the events of this build ...
CountFailures(p) ==
    /\ proc[p].at = "failure"
    /\ proc' = [proc EXCEPT ![p].at = "record", ![p].count = failures[Job(p)][build] + 1]
    /\ UNCHANGED <<db, outcome, build, cooling, troubles, beeperVars>>

\* Mutation: one attempt more.
SeededOffByOne(count) == IF count > MaxAttempts THEN "PARSE_FAILED" ELSE "PARSE_RETRY"

AfterFailure(count) == IF count >= MaxAttempts THEN "PARSE_FAILED" ELSE "PARSE_RETRY"

\* ... and adds one, with the status its number gives.
RecordFailure(p) ==
    /\ proc[p].at = "record"
    /\ status' = [status EXCEPT ![Job(p)] = AfterFailure(proc[p].count)]
    /\ failures' = [failures EXCEPT ![Job(p)][build] = @ + 1]
    /\ cooling' = cooling \cup {Job(p)}
    /\ Advance(p)
    /\ UNCHANGED <<versions, empties, outcome, build, troubles, beeperVars>>

\* The failure cannot be recorded either: suppressed, the job stays as it was.
RecordFails(p) ==
    /\ proc[p].at = "record"
    /\ Trouble
    /\ Advance(p)
    /\ UNCHANGED <<db, outcome, build, cooling, beeperVars>>

EndOnce ==
    /\ proc["operator"].at = "end"
    /\ proc' = [proc EXCEPT !["operator"] = Down]
    /\ UNCHANGED <<db, outcome, build, cooling, troubles, beeperVars>>

Worker(p) ==
    \/ PendingJobs(p) \/ LoadJob(p) \/ BeginStore(p) \/ CommitStore(p)
    \/ CountFailures(p) \/ RecordFailure(p)

Notify == proc["service"].at # "down" /\ (Watch \/ SendBeep) /\ UNCHANGED parsingVars

ParsingNext ==
    \/ \E j \in BeepJobs : Import(j) \/ Elapse(j) \/ (Receive(j) /\ UNCHANGED parsingVars)
    \/ \E reparse \in BOOLEAN : RunOnce(reparse)
    \/ StopService \/ StartService \/ Upgrade \/ EndOnce
    \/ \E p \in Procs : Worker(p) \/ StoreFails(p) \/ RecordFails(p)
    \/ Notify

ParsingSpec == ParsingInit /\ [][ParsingNext]_allVars

\* The service is restarted, a started run ends, delays elapse.
ParsingFairness ==
    /\ WF_allVars(StartService) /\ WF_allVars(EndOnce)
    /\ \A p \in Procs : WF_allVars(Worker(p))
    /\ \A j \in BeepJobs : WF_allVars(Elapse(j))

ParsingFairSpec == ParsingSpec /\ ParsingFairness

-----------------------------------------------------------------------------
Busy == {"load", "store", "commit", "failure", "record"}

ParsingTypeOK ==
    /\ status \in [BeepJobs -> Statuses]
    /\ versions \in [BeepJobs -> Seq(Builds)]
    /\ empties \in [BeepJobs -> SUBSET Builds]
    /\ failures \in [BeepJobs -> [Builds -> Nat]]
    /\ outcome \in [BeepJobs -> [Builds -> {"documents", "empty", "error"}]]
    /\ build \in Builds /\ cooling \subseteq BeepJobs /\ troubles \in 0..MaxTroubles
    /\ proc \in [Procs -> [at : Busy \cup {"down", "idle", "end"}, reparse : BOOLEAN,
                          todo : Seq(BeepJobs), seen : Seq(Builds), count : Nat]]

\* A build's output is stored at most once per job and never without a parse
\* of that job's RAW by that build, whatever two processes do at once and
\* whichever acknowledgement is lost.
EachBuildStoresOnce ==
    \A j \in BeepJobs :
        /\ \A i, k \in 1..Len(versions[j]) : versions[j][i] = versions[j][k] => i = k
        /\ \A i \in 1..Len(versions[j]) : outcome[j][versions[j][i]] = "documents"

\* A job is given up only after MaxAttempts recorded failures of one build,
\* and goes on being retried past them only by one: when the process that
\* records a failure counted before the other one recorded the last.
GivenUpAfterMaxAttempts ==
    \A j \in BeepJobs :
        /\ status[j] = "PARSE_FAILED" => \E b \in Builds : failures[j][b] >= MaxAttempts
        /\ status[j] = "PARSE_RETRY" => failures[j][build] <= MaxAttempts + 1

\* A job the service has loaded from the database was announced, unless the
\* queue was full when it was offered last.
OfferedIsAnnounced ==
    \A j \in BeepJobs :
        proc["service"].at \in {"store", "commit"} /\ Job("service") = j
            /\ status[j] = "IMPORTED" => queued[j] > 0 \/ j \in full

-----------------------------------------------------------------------------
(* What the three invariants rest on.                                      *)

Pending(p) == {proc[p].todo[i] : i \in 1..Len(proc[p].todo)}

\* A process works through distinct imported jobs, stores only what the
\* installed build could parse, and counted no failure that is not recorded
\* but the one it is about to record.
ProcInv(p) ==
    LET todo == proc[p].todo
    IN  /\ proc[p].at \in Busy => todo # <<>>
        /\ \A i, k \in 1..Len(todo) : todo[i] = todo[k] => i = k
        /\ \A i \in 1..Len(todo) : status[todo[i]] # "absent"
        /\ proc[p].at \in {"store", "commit"} => outcome[Job(p)][build] # "error"
        /\ proc[p].at = "record" => proc[p].count <= failures[Job(p)][build] + 1

\* While p holds a count that still allows a retry, the other process can take
\* the job to its last failure, but then it gives the job up and is through
\* with it; of two counts held at once the later one is exact.
RaceInv(p, q) ==
    LET failed == failures[Job(p)][build]
    IN  proc[p].at = "record" =>
            /\ proc[p].count < MaxAttempts =>
                   /\ failed <= MaxAttempts
                   /\ failed = MaxAttempts =>
                          status[Job(p)] = "PARSE_FAILED" /\ Job(p) \notin Pending(q)
            /\ proc[q].at = "record" /\ Job(q) = Job(p) =>
                   proc[p].count = failed + 1 \/ proc[q].count = failed + 1

\* A reparse runs alone, and no build failed before it was installed.
ReparseAlone ==
    /\ ~proc["service"].reparse
    /\ proc["operator"].reparse => proc["service"].at = "down"
FutureUntried == \A j \in BeepJobs : \A b \in Builds : b > build => failures[j][b] = 0

\* What the dispatcher remembers it has queued.
BeepInv ==
    /\ bell \in Seq(BeepJobs) /\ recent \in Seq(BeepJobs)
    /\ queued \in [BeepJobs -> Nat]
    /\ \A i \in 1..Len(recent) : queued[recent[i]] > 0

\* The inductive invariant of module ParsingProofs: the three invariants and
\* what keeps them.
ParsingInv ==
    /\ ParsingTypeOK
    /\ EachBuildStoresOnce /\ GivenUpAfterMaxAttempts /\ OfferedIsAnnounced
    /\ \A p \in Procs : ProcInv(p)
    /\ RaceInv("service", "operator") /\ RaceInv("operator", "service")
    /\ ReparseAlone /\ FutureUntried /\ BeepInv

-----------------------------------------------------------------------------
\* Every imported job is decided: it gets its documents, is found empty, or is
\* given up.
ImportedIsDecided ==
    \A j \in BeepJobs :
        status[j] = "IMPORTED"
            ~> status[j] \in {"PARSED", "PARSE_EMPTY", "PARSE_FAILED"} \/ versions[j] # <<>>

\* A job in PARSE_RETRY is tried again, with a growing delay (docs/OPERATIONS.md).
RetryIsRetried ==
    \A j \in BeepJobs : status[j] = "PARSE_RETRY" ~> status[j] # "PARSE_RETRY"

=============================================================================
