----------------------------- MODULE FraudWorker -----------------------------
(***************************************************************************)
(* The fraud worker (fraud/worker.py) and the operations of the API on     *)
(* alerts and rules (db/repository.py update_alert, set_rule_enabled).     *)
(*                                                                         *)
(* An alert is identified by <<rule, rule version, correlation, evidence>>,*)
(* which is what its finding_key digests.  A run is one transaction:       *)
(* FraudBegin evaluates, FraudCommit stores.  The alert states are those   *)
(* of AlertStatus; last is the newest event of the alert's history.        *)
(*                                                                         *)
(* Left out: _reclassify_known_false_positives, which changes only alerts  *)
(* of engine versions before the present one; the engine here opens none.  *)
(* A run takes every current correlation: the newest max_transactions      *)
(* (10000) of the code are all of them here, and what is said of losses    *)
(* holds up to that number.                                                *)
(***************************************************************************)
EXTENDS CorrelationWorker

VARIABLES
    alerts,  \* key -> [status, last]
    rules,   \* enabled rules and the version of each
    overdue, \* close_minutes have passed for every bill
    fw       \* the run in progress

fraudVars == <<alerts, rules, overdue, fw>>

Operational == {"OPEN", "UNDER_REVIEW", "CONFIRMED"}
Decided == {"FALSE_POSITIVE", "JUSTIFIED", "CLOSED"}
NoEvaluation == [on |-> FALSE, found |-> {}]

RuleOf(k) == k[1]
CorrelationOf(k) == k[3]
OperationalAlerts == {k \in DOMAIN alerts : alerts[k].status \in Operational}
About(j) == {k \in DOMAIN alerts : \E i \in Members(CorrelationOf(k)) : Job(i) = j}

-----------------------------------------------------------------------------
(* Evaluation of the current correlations.                                 *)

\* The documents are visible, are the versions that were correlated, and the
\* engine groups them again.
Reproduced(c) ==
    /\ Members(c) \subseteq Visible
    /\ c = {Version(i) : i \in Members(c)}
    /\ Members(c) \in Correlate(Episode(c))

StoredEvents(c) ==
    UNION {{[order |-> n, doc |-> e.doc, ver |-> e.ver, type |-> e.type, detail |-> e.detail] :
              e \in {f \in Range(orders[n].events) : f.doc \in Members(c)}} : n \in DOMAIN orders}

\* Members of current correlations, and documents with the same progressive.
ComparisonDocuments ==
    LET members == (UNION {Members(c) : c \in current}) \cap Visible
    IN  Loaded(members \cup {i \in Visible : \E j \in members :
                               /\ Doc(i).dev = Doc(j).dev /\ Same(Doc(i).code, Doc(j).code)
                               /\ Delta(Doc(i), Doc(j)) <= 86400})

OperatorStatistics(c) ==
    LET D == Episode(c)
        named == {i \in DOMAIN D : D[i].op # None}
        Works(d) == {i \in Members(d) \cap Visible : Doc(i).op = D[FirstOf(D, named)].op}
        worked == {d \in current : Works(d) # {}}
        anomalous == {d \in worked : \E k \in OperationalAlerts :
                        /\ RuleOf(k) # "UNUSUAL_OPERATOR_PATTERN"
                        /\ Members(CorrelationOf(k)) = Members(d)}
        voided == {i \in UNION {Works(d) : d \in worked} : Doc(i).type \in {"CANCELLATION", "REFUND"}}
    IN  IF named = {} THEN [transactions |-> 0, anomalous |-> 0, voids |-> 0]
        ELSE [transactions |-> Cardinality(worked), anomalous |-> Cardinality(anomalous),
              voids |-> Cardinality(voided)]

FindingsOf(c) ==
    Findings(Episode(c), StoredEvents(c), ComparisonDocuments, OperatorStatistics(c),
             rules.enabled, If(overdue, Docs))

Suppressed(c, rule) == \E entry \in world.whitelist : WhitelistMatches(entry, rule, Episode(c))

-----------------------------------------------------------------------------
(* What is stored.                                                         *)

\* Mutation: a rule version that changed makes a new incident of the loss.
SeededByKeyOnly(A, k) == {h \in DOMAIN A : h = k}

\* The alert a finding belongs to: of the primary rule, one per correlation.
Existing(A, k) ==
    IF k \in DOMAIN A THEN {k}
    ELSE {h \in DOMAIN A : /\ RuleOf(k) = Primary /\ RuleOf(h) = Primary
                           /\ CorrelationOf(h) = CorrelationOf(k)}

\* Mutation: every justified alert whose finding is still there is opened.
SeededReopenAnyJustified(alert) == alert.status = "JUSTIFIED"

Reopens1(alert) == alert.status = "JUSTIFIED" /\ alert.last = "ALERT_JOB_EXCLUDED"

PersistFinding(A, f) ==
    LET k == <<f[1], rules.ver[f[1]], f[3], f[2]>>
        reopened == {h \in Existing(A, k) : ~f[4] /\ Reopens1(A[h])}
        fresh == IF f[4] THEN [status |-> "JUSTIFIED", last |-> "ALERT_SUPPRESSED"]
                 ELSE [status |-> "OPEN", last |-> "ALERT_OPENED"]
    IN  IF Existing(A, k) = {}
        THEN [h \in DOMAIN A \cup {k} |-> IF h = k THEN fresh ELSE A[h]]
        ELSE [h \in DOMAIN A |->
                IF h \in reopened
                THEN [status |-> "OPEN", last |-> "ALERT_AUTO_REOPENED_AFTER_JOB_REVIEW"]
                ELSE A[h]]

RetiredAsNonSale(c) ==
    Members(c) \subseteq Visible /\ \A i \in Members(c) : Doc(i).type \in NonSaleTypes

\* Mutation: only a correlation that holds all the old documents replaces one.
SeededWholeReplacement(k) ==
    \E c \in current : Members(CorrelationOf(k)) \subseteq Members(c)

HasReplacement(k) ==
    \E c \in current : c # CorrelationOf(k) /\ Members(c) \cap Members(CorrelationOf(k)) # {}

\* The operational alerts of a superseded correlation that are closed.
Stale(A) ==
    {k \in DOMAIN A : /\ A[k].status \in Operational
                      /\ CorrelationOf(k) \notin current
                      /\ HasReplacement(k) \/ RetiredAsNonSale(CorrelationOf(k))}

ResolveSuperseded(A) ==
    [k \in DOMAIN A |-> IF k \in Stale(A)
                        THEN [status |-> "JUSTIFIED", last |-> "ALERT_AUTO_SUPERSEDED"]
                        ELSE A[k]]

-----------------------------------------------------------------------------
FraudInit ==
    /\ alerts = <<>>
    /\ rules = [enabled |-> Rules, ver |-> [r \in Rules |-> 1]]
    /\ overdue = FALSE
    /\ fw = NoEvaluation

FraudBegin ==
    /\ ~fw.on
    /\ fw' = [on |-> TRUE,
              found |-> UNION {{<<f[1], f[2], c, Suppressed(c, f[1])>> : f \in FindingsOf(c)} :
                                 c \in {d \in current : Reproduced(d)}}]
    /\ UNCHANGED <<workerVars, alerts, rules, overdue>>

FraudCommit ==
    /\ fw.on
    /\ alerts' = ResolveSuperseded(FoldSet(LAMBDA f, A : PersistFinding(A, f), alerts, fw.found))
    /\ fw' = NoEvaluation
    /\ UNCHANGED <<workerVars, rules, overdue>>

FraudRollback ==
    /\ fw.on
    /\ fw' = NoEvaluation
    /\ UNCHANGED <<workerVars, alerts, rules, overdue>>

\* update_alert: a person sets any state.
UpdateAlert(k, status) ==
    /\ alerts' = [alerts EXCEPT ![k] = [status |-> status, last |-> "ALERT_UPDATED"]]
    /\ UNCHANGED <<workerVars, rules, overdue, fw>>

\* set_rule_enabled waits for the rule versions a run has locked.
SetRuleEnabled(r) ==
    /\ ~fw.on
    /\ rules' = [enabled |-> IF r \in rules.enabled THEN rules.enabled \ {r}
                             ELSE rules.enabled \cup {r},
                 ver |-> [rules.ver EXCEPT ![r] = @ + 1]]
    /\ UNCHANGED <<workerVars, alerts, overdue, fw>>

CloseTimePasses ==
    /\ ~overdue
    /\ overdue' = TRUE
    /\ UNCHANGED <<workerVars, alerts, rules, fw>>
=============================================================================
