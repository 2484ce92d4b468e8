--------------------------- MODULE CaptureImport ----------------------------
(***************************************************************************)
(* The other end of the spool: which of the directories the capture (or    *)
(* its recovery) publishes does CanonicalCaptureV1Adapter.load accept?     *)
(* The adapter only reads, so its verdict is a predicate on the files; the *)
(* states are those of CaptureSpool.                                       *)
(***************************************************************************)
EXTENDS CaptureSpool

(* _parse_timeline, record by record: contiguous numbering, every observed   *)
(* number once, per direction adjoining offsets within the RAW file.         *)
ValidRecord(s, i) ==
    LET t == timeline[s]
        e == t[i]
        before == {j \in 1 .. i - 1 : t[j].direction = e.direction}
    IN  /\ e.sequence = i - 1
        /\ \A j \in 1 .. i - 1 : t[j].observed # e.observed
        /\ e.dirseq = Cardinality(before)
        /\ e.offset = CoveredBytes(SubSeq(t, 1, i - 1), e.direction)
        /\ e.offset + e.length <= raw[s][e.direction]

(* Trailing RAW bytes without a record are let pass only for a recovered job *)
(* whose manifest says so.                                                   *)
SeededNeverTrailing(m) == FALSE
AllowTrailingRaw(m) == m.status = "PARTIAL" /\ ~m.storage /\ m.recovered

(* The observed numbers of a COMPLETE timeline are exactly 0 .. n-1, in any  *)
(* order: a chunk that is forwarded late is recorded late.                   *)
SeededObservedInOrder(t) == \A i \in DOMAIN t : t[i].observed = i - 1
ObservedIsExact(t) == {t[i].observed : i \in DOMAIN t} = 0 .. Len(t) - 1

ParsesTimeline(s) ==
    LET m == manifest[s]
        t == timeline[s]
        covered == [d \in Direction |-> CoveredBytes(t, d)]
    IN  /\ tail[s] = "clean"
        /\ \A i \in DOMAIN t : ValidRecord(s, i)
        /\ Len(t) = m.events
        /\ m.bytes = raw[s]
        /\ covered # m.bytes => AllowTrailingRaw(m)
        /\ \A d \in Direction : Cardinality(RecordsOf(t, d, "data")) = m.chunks[d]
        /\ m.status = "COMPLETE" => ObservedIsExact(t)

(* load: the marker authenticates the manifest, the files are the ones the   *)
(* manifest names, session.json is the manifest's session, the timeline      *)
(* parses.                                                                   *)
Loads(s) ==
    /\ Published(s)
    /\ ready[s] = manifest[s]
    /\ manifest[s].files = raw[s]
    /\ sfile[s] = "ok"
    /\ ParsesTimeline(s)

-----------------------------------------------------------------------------
(* A job published as COMPLETE is accepted by the adapter: reads completed   *)
(* out of order, a manifest kept by recovery after a crash, and everything   *)
(* else on the way do not make the reader disagree with the writer.          *)
CompleteIsImportable ==
    \A s \in Sessions : ready[s].status = "COMPLETE" => Loads(s)

(* A published job is refused for one of three reasons only: session.json    *)
(* was never written, the last record is cut, or a failed write or fsync     *)
(* left bytes in RAW, or a whole record in the timeline, that a normal close *)
(* does not count.  Dropped events, cancelled pumps, lost finalizers and     *)
(* crashes between writes stay importable.                                   *)
RefusedOnlyForFailedWrites ==
    \A s \in Sessions :
        Published(s) /\ ~Loads(s) =>
            \/ sfile[s] = "empty"
            \/ tail[s] # "clean"
            \/ /\ ~manifest[s].recovered
               /\ \/ manifest[s].bytes # raw[s]
                  \/ manifest[s].events # Len(timeline[s])

(* A recovered job whose session descriptor survived is imported as explicit *)
(* partial evidence (docs and tests say so of a RAW/timeline divergence).    *)
RecoveredIsImportable ==
    \A s \in Sessions :
        Published(s) /\ manifest[s].recovered /\ sfile[s] = "ok" => Loads(s)
=============================================================================
