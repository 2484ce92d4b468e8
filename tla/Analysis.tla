------------------------------ MODULE Analysis ------------------------------
(***************************************************************************)
(* The correlation and the fraud worker next to the two operations that    *)
(* change what they may use: an administrator's review of an incomplete    *)
(* job (db/repository.py review_job) and the activation of a parser build  *)
(* (correlation/worker.py activate_parser_version).  All are transactions  *)
(* on one database, and both operations append to one audit chain.         *)
(*                                                                         *)
(* A transaction that locks rows keeps them until it ends: the step of     *)
(* another one that would change such a row is not enabled.  The database  *)
(* ends a cycle of waiting transactions by rolling one of them back.       *)
(***************************************************************************)
EXTENDS FraudWorker

VARIABLES
    audit,  \* the audit chain: what was done, in order
    req,    \* review_job in progress
    cli,    \* activate_parser_version in progress
    spent   \* how often the bounded steps have happened

vars == <<workerVars, fraudVars, audit, req, cli, spent>>

NoRequest == [on |-> FALSE, job |-> None, state |-> "PENDING", excluded |-> FALSE,
              saw |-> FALSE, rows |-> {}, alerts |-> {}, head |-> 0]
NoActivation == [on |-> FALSE, build |-> 0, rewind |-> FALSE, saw |-> FALSE, head |-> 0]

\* JobReviewRequest.action -> (review_state, analysis_excluded)
Decisions == {<<"VERIFIED_USABLE", FALSE>>, <<"EXCLUDED", TRUE>>, <<"PENDING", TRUE>>}

Builds == UNION {DOMAIN world.docs[i] : i \in Docs}
Can(what) == spent[what] < world.bounds[what]
Spend(what) == spent' = [spent EXCEPT ![what] = @ + 1]

\* The worker holds the row of the watermark.
MarkLocked == cw.on /\ cw.locked

\* Mutation: the head of the chain is read without FOR UPDATE.
SeededHeadUnlocked(n) == TRUE

\* A transaction may read the head of a chain of n entries; a head that does
\* not exist yet cannot be locked.
HeadReadable(n) == n = 0 \/ (~(req.on /\ req.head > 0) /\ ~(cli.on /\ cli.head > 0))

-----------------------------------------------------------------------------
(* review_job.                                                             *)

ReviewBegin(j, d) ==
    /\ ~req.on /\ Can("reviews") /\ Spend("reviews")
    /\ HeadReadable(Len(audit))
    /\ req' = [on |-> TRUE, job |-> j, state |-> d[1], excluded |-> d[2],
               saw |-> mark.on,
               rows |-> If(d[2], {c \in current : \E i \in Members(c) : Job(i) = j}),
               alerts |-> If(d[2], OperationalAlerts \cap About(j)),
               head |-> Len(audit)]
    /\ UNCHANGED <<workerVars, fraudVars, audit, cli>>

ReviewCommit ==
    /\ req.on /\ req.head = Len(audit)
    /\ req.saw => ~MarkLocked
    /\ review' = [review EXCEPT ![req.job] = [state |-> req.state, excluded |-> req.excluded]]
    /\ mark' = IF req.saw THEN NoMark ELSE mark
    /\ current' = current \ req.rows
    /\ alerts' = [k \in DOMAIN alerts |->
                    IF k \in req.alerts THEN [status |-> "JUSTIFIED", last |-> "ALERT_JOB_EXCLUDED"]
                    ELSE alerts[k]]
    /\ audit' = Append(audit, <<"JOB_REVIEW", req.job>>)
    /\ req' = NoRequest
    /\ UNCHANGED <<world, stored, stamp, active, orders, cw, rules, overdue, fw, cli, spent>>

\* The place in the chain is taken: the whole request is rolled back.
ReviewLost ==
    /\ req.on /\ req.head # Len(audit)
    /\ req' = NoRequest
    /\ UNCHANGED <<workerVars, fraudVars, audit, cli, spent>>

-----------------------------------------------------------------------------
(* activate_parser_version.                                                *)

ActivateBegin(b, rewind) ==
    /\ ~cli.on /\ Can("activations") /\ Spend("activations")
    /\ HeadReadable(Len(audit))
    /\ cli' = [on |-> TRUE, build |-> b, rewind |-> rewind, saw |-> mark.on,
               head |-> Len(audit)]
    /\ UNCHANGED <<workerVars, fraudVars, audit, req>>

\* The fingerprint kept without rewind is read before the new pointer is
\* flushed, so it is the one of the build that was active.
ActivateCommit ==
    /\ cli.on /\ cli.head = Len(audit)
    /\ cli.saw => ~MarkLocked /\ (cli.rewind \/ mark.on)
    /\ active' = cli.build
    /\ mark' = CASE ~cli.saw -> mark
                 [] cli.saw /\ cli.rewind -> NoMark
                 [] OTHER -> [mark EXCEPT !.key = active]
    /\ audit' = Append(audit, <<"PARSER_ACTIVATED", cli.build>>)
    /\ cli' = NoActivation
    /\ UNCHANGED <<world, stored, stamp, review, current, orders, cw, fraudVars, req, spent>>

\* The place in the chain is taken, or the watermark row to update is gone.
ActivateLost ==
    /\ cli.on
    /\ \/ cli.head # Len(audit)
       \/ cli.saw /\ ~cli.rewind /\ ~mark.on
    /\ cli' = NoActivation
    /\ UNCHANGED <<workerVars, fraudVars, audit, req, spent>>

-----------------------------------------------------------------------------
(* The workers, which wait for the rows a review has locked.               *)

others == <<audit, req, cli, spent>>

Blocked == (Retiring \ cw.groups) \cap req.rows # {}

Correlate1 ==
    /\ CorrBegin \/ (CorrCommit /\ ~Blocked)
    /\ UNCHANGED <<fraudVars, others>>

Evaluate1 ==
    /\ FraudBegin \/ (FraudCommit /\ \A k \in req.alerts : alerts'[k] = alerts[k])
    /\ UNCHANGED others

ParseSome(i, b) == Parse(i, b) /\ UNCHANGED <<fraudVars, others>>

Decide(k, status) ==
    /\ Can("updates") /\ Spend("updates")
    /\ k \notin req.alerts
    /\ UpdateAlert(k, status)
    /\ UNCHANGED <<audit, req, cli>>

Toggle(r) ==
    /\ Can("toggles") /\ Spend("toggles")
    /\ SetRuleEnabled(r)
    /\ UNCHANGED <<audit, req, cli>>

Wait == Can("waits") /\ Spend("waits") /\ CloseTimePasses /\ UNCHANGED <<audit, req, cli>>

Fault ==
    /\ Can("faults") /\ Spend("faults")
    /\ (CorrRollback /\ UNCHANGED fraudVars) \/ FraudRollback
    /\ UNCHANGED <<audit, req, cli>>

\* The review waits for the watermark and the worker for a correlation.
BreakDeadlock ==
    /\ req.on /\ req.saw /\ MarkLocked /\ Blocked
    /\ \/ req' = NoRequest /\ UNCHANGED cw
       \/ cw' = NoRun /\ UNCHANGED req
    /\ UNCHANGED <<world, stored, stamp, active, review, mark, current, orders,
                   fraudVars, audit, cli, spent>>

-----------------------------------------------------------------------------
Init ==
    /\ WorkerInit /\ FraudInit
    /\ audit = <<>> /\ req = NoRequest /\ cli = NoActivation
    /\ spent = [what \in DOMAIN world.bounds |-> 0]

Next ==
    \/ Correlate1 \/ Evaluate1
    \/ ReviewCommit \/ ReviewLost \/ ActivateCommit \/ ActivateLost
    \/ Wait \/ Fault \/ BreakDeadlock
    \/ \E i \in Docs : \E b \in DOMAIN world.docs[i] : ParseSome(i, b)
    \/ \E j \in world.incomplete, d \in Decisions : ReviewBegin(j, d)
    \/ \E b \in Builds, rewind \in BOOLEAN : ActivateBegin(b, rewind)
    \/ \E k \in DOMAIN alerts, status \in Operational \cup Decided : Decide(k, status)
    \/ \E r \in world.switched : Toggle(r)

Spec == Init /\ [][Next]_vars

\* The workers poll for ever: as long as one can begin or end a run it does
\* (the runs that fail are bounded).  A request ends, and the lock it waits for
\* is granted in the order of the queue.
CorrelateReady == IF cw.on THEN ~Blocked ELSE Seeds # {}
EvaluateReady == fw.on => req.alerts = {}

Fairness ==
    /\ <>[]CorrelateReady => []<><<TRUE>>_cw
    /\ <>[]EvaluateReady => []<><<TRUE>>_fw
    /\ WF_vars(BreakDeadlock)
    /\ SF_vars(ReviewCommit \/ ReviewLost) /\ SF_vars(ActivateCommit \/ ActivateLost)

FairSpec == Spec /\ Fairness

-----------------------------------------------------------------------------
(* Properties.                                                             *)

Consistent(c) == \A a, b \in Range(Episode(c)) : ~Conflict(a, b)

\* However the core documents are cut in two, a match crosses the cut.
Connected(D) ==
    LET core == {i \in DOMAIN D : ~IsAuxiliary(D[i])}
    IN  \A X \in (SUBSET core) \ {{}, core} :
           \E i \in X, j \in core \ X : ScoreCandidatePair(D[i], D[j]) >= MinimumScore

Unbridged(c) == Connected(Episode(c))

\* No episode holds two documents that contradict each other, however many
\* documents lie between them (_correlate_pairs).
EpisodesAreConsistent == \A c \in current : Consistent(c)

\* Copies, responses and refunds never join two sales: without them an
\* episode is still connected by its own matches (_correlate_pairs).
AuxiliaryNeverBridges == \A c \in current : Unbridged(c)

\* A loss is one incident of its correlation, even when the rule gets a new
\* version in between (_persist_finding).
LossHasOneAlert ==
    \A c \in {CorrelationOf(k) : k \in DOMAIN alerts} :
       Cardinality({k \in DOMAIN alerts : RuleOf(k) = Primary /\ CorrelationOf(k) = c}) <= 1

\* An alert a person has closed is changed by a person only: no evaluation,
\* review or supersession touches it (_persist_finding, review_job).  One a
\* person has confirmed is still open, and is closed with the others when its
\* correlation is superseded.
HumanClosureStands ==
    [][\A k \in DOMAIN alerts :
         alerts[k].status \in Decided /\ alerts[k].last = "ALERT_UPDATED"
            => alerts'[k].last = "ALERT_UPDATED"]_alerts

\* A transaction loses its place in the audit chain only if the chain was
\* empty when it read the head (_append_audit_session).
AuditRaceOnlyAtFirst ==
    \A t \in {req, cli} : t.on /\ t.head # Len(audit) => t.head = 0

AllDocs == UNION {DOMAIN s.docs : s \in Scenarios}
AllJobs == UNION {s.incomplete : s \in Scenarios}

Recent(i) == /\ i \in Docs
             /\ i \in Visible /\ Doc(i).type \notin NonSaleTypes
             /\ ~mark.on \/ ParsedAt(i) >= mark.at - Lookback

\* What is printed on a document is within the window of its capture.
ClockAgrees(i) == Abs(Doc(i).at - Doc(i).captured) <= TimeWindow

\* A document parsed late, displaced from its episode, re-included or replayed
\* gets its place while it is in the lookback, if its clock agrees with the
\* proxy's to the window (_candidate_batch).
RecentDocumentIsPlaced ==
    \A i \in AllDocs :
       Recent(i) /\ ClockAgrees(i) ~> (~Recent(i) \/ ~ClockAgrees(i) \/ Placed(i))

\* What _candidate_batch says of itself: every new or late document is a seed
\* that is returned, whatever its clock.
SeedIsReturned ==
    \A i \in AllDocs : Recent(i) ~> (~Recent(i) \/ Placed(i))


\* No alert stays operational for a correlation whose documents are in
\* another one now (_resolve_superseded_alerts).
StaleAlertIsClosed ==
    []<>(\A k \in OperationalAlerts :
           CorrelationOf(k) \in current
           \/ \A c \in current : Members(c) \cap Members(CorrelationOf(k)) = {})

Lost(c) ==
    LET D == Episode(c)
        bills == OfType(D, {"PRE_BILL"})
        taken == SumOf(D, ValidFiscals(D))
    IN  /\ Reproduced(c) /\ Cardinality(bills) = 1 /\ ValidFiscals(D) # {}
        /\ \A b \in bills : /\ \A f \in ValidFiscals(D) : D[b].at <= D[f].at
                            /\ D[b].total > taken
                            /\ 100 * (D[b].total - taken) >= MinimumPercent * D[b].total

\* A bill whose receipts fall short of it by the threshold or more gets an
\* alert, through failed runs, rule changes and replays (_persist_finding).
LossIsReported ==
    []<>(Primary \in rules.enabled =>
           \A c \in current : Lost(c) =>
              \E k \in DOMAIN alerts : RuleOf(k) = Primary /\ CorrelationOf(k) = c)

\* The same documents end in the same episodes: correlation comes to rest.
EpisodesSettle == <>[][UNCHANGED current]_vars

Excluded(j) == j \in world.incomplete /\ review[j].excluded
Watched(j) == About(j) \cap OperationalAlerts # {}

\* Once a job is excluded no alert derived from it stays operational.
ExclusionReachesAlerts ==
    \A j \in AllJobs : Excluded(j) ~> (~Excluded(j) \/ ~Watched(j))

-----------------------------------------------------------------------------
(* What makes the safety properties inductive: what a run has grouped and  *)
(* not yet stored is as good as what is stored, a review closes alerts     *)
(* that stay as it found them, and the chain is read by one transaction at *)
(* a time once it has an entry.                                            *)

AlertStates == [status : Operational \cup Decided,
                last : {"ALERT_OPENED", "ALERT_SUPPRESSED", "ALERT_UPDATED", "ALERT_JOB_EXCLUDED",
                        "ALERT_AUTO_SUPERSEDED", "ALERT_AUTO_REOPENED_AFTER_JOB_REVIEW"}]

OneLossEach(A) ==
    \A h, k \in DOMAIN A :
       RuleOf(h) = Primary /\ RuleOf(k) = Primary /\ CorrelationOf(h) = CorrelationOf(k) => h = k

VersionsInv ==
    /\ world \in Scenarios
    /\ DOMAIN stored = Docs
    /\ \A i \in Docs : stored[i] \in Seq(DOMAIN world.docs[i])

EpisodesInv ==
    /\ IsFiniteSet(current) /\ IsFiniteSet(cw.groups)
    /\ \A c \in current \cup cw.groups : Consistent(c) /\ Unbridged(c)

AlertsInv ==
    /\ alerts \in [DOMAIN alerts -> AlertStates]
    /\ OneLossEach(alerts)
    /\ IsFiniteSet(fw.found)
    /\ rules.enabled \subseteq Rules
    /\ req.alerts \subseteq OperationalAlerts

AuditInv ==
    /\ audit \in Seq(Range(audit))
    /\ \A t \in {req, cli} :
          /\ t.head \in 0..Len(audit)
          /\ t.on /\ t.head # Len(audit) => t.head = 0
    /\ ~(req.on /\ req.head > 0 /\ cli.on /\ cli.head > 0)

AnalysisInv == VersionsInv /\ EpisodesInv /\ AlertsInv /\ AuditInv
=============================================================================
