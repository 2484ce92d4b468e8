------------------------------ MODULE MCSources ------------------------------
(***************************************************************************)
(* The source adapters, one per behaviour: the ingestion process has one   *)
(* instance of each and they share nothing.  Canonical discovery sees      *)
(* three jobs of one device; the printproxy route has two jobs and three   *)
(* ledger records; the RCH job has every timeline of up to two records     *)
(* over RAW files of up to two and one bytes, and two publications.        *)
(***************************************************************************)
EXTENDS CanonicalDiscovery, PrintProxySource, RchSource

VARIABLE adapter

sourceVars == <<adapter, vars, ppVars, rchVars>>

MCRecords == {r \in [seq : {1, 2}, dir : {"request", "response"}, off : {0, 1}, sess : {0, 1}, len : {1, 2}] :
                 r.off + r.len <= 2}
MCShape(records, request, response, count, complete) ==
    [records |-> records, request |-> request, response |-> response,
     count |-> count, complete |-> complete]
MCTimelinesOf(n, counts) ==
    {MCShape(s, q, p, c, b) : s \in [1..n -> MCRecords], q \in 0..2, p \in 0..1, c \in counts, b \in BOOLEAN}
MCTimelines == MCTimelinesOf(0, {0, 1}) \cup MCTimelinesOf(1, {1, 2}) \cup MCTimelinesOf(2, {2})
MCShortTimelines == MCTimelinesOf(0, {0, 1}) \cup MCTimelinesOf(1, {1})
MCRacing == {MCShape(<<>>, 0, 0, 0, TRUE)}

RchUnused == MCShape(<<>>, 0, 0, 0, FALSE)

SourcesInit ==
    /\ adapter \in {"canonical", "printproxy", "rch"}
    /\ Init /\ PpInit /\ RchInit
    /\ adapter # "rch" => rchTimeline = RchUnused

Canonical(A) == adapter = "canonical" /\ A /\ UNCHANGED <<adapter, ppVars, rchVars>>
PrintProxy(A) == adapter = "printproxy" /\ A /\ UNCHANGED <<adapter, vars, rchVars>>
Rch(A) == adapter = "rch" /\ A /\ UNCHANGED <<adapter, vars, ppVars>>

SourcesNext == Canonical(Next) \/ PrintProxy(PpNext) \/ Rch(RchNext)

\* The poll loops run; the printproxy finishes a record it has begun.
SourcesSpec ==
    /\ SourcesInit /\ [][SourcesNext]_sourceVars
    /\ WF_sourceVars(Canonical(PollStep))
    /\ WF_sourceVars(PrintProxy(PpPoll))
    /\ WF_sourceVars(PrintProxy(AppendRecord \/ AdvanceHead))
=============================================================================
