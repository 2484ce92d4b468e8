---------------------------- MODULE JobEvidence -----------------------------
(***************************************************************************)
(* What the capture promises about one job, without queues, threads, files *)
(* or crashes: reads are captured in order and never taken back, the job   *)
(* is published once, nothing about it changes afterwards, and it is       *)
(* published as COMPLETE only when every read is captured.                 *)
(***************************************************************************)
EXTENDS Naturals

CONSTANT Jobs

VARIABLES
    read,       \* number of reads (chunks and EOFs) of the job's session
    captured,   \* how many of them, from the first on, are evidence
    status      \* "none" until published

evidenceVars == <<read, captured, status>>

EvidenceInit ==
    /\ read = [j \in Jobs |-> 0]
    /\ captured = [j \in Jobs |-> 0]
    /\ status = [j \in Jobs |-> "none"]

Read(j) ==
    /\ status[j] = "none"
    /\ read' = [read EXCEPT ![j] = @ + 1]
    /\ UNCHANGED <<captured, status>>

Capture(j) ==
    /\ status[j] = "none"
    /\ captured[j] < read[j]
    /\ captured' = [captured EXCEPT ![j] = @ + 1]
    /\ UNCHANGED <<read, status>>

Publish(j, st) ==
    /\ status[j] = "none"
    /\ st = "COMPLETE" => captured[j] = read[j]
    /\ status' = [status EXCEPT ![j] = st]
    /\ UNCHANGED <<read, captured>>

EvidenceNext ==
    \E j \in Jobs :
        \/ Read(j)
        \/ Capture(j)
        \/ \E st \in {"COMPLETE", "PARTIAL"} : Publish(j, st)

EvidenceSpec == EvidenceInit /\ [][EvidenceNext]_evidenceVars
=============================================================================
