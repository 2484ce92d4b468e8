------------------------------ MODULE RchSource ------------------------------
(***************************************************************************)
(* RCHCaptureV1Adapter and RCHParsedV1Adapter reading one job directory of *)
(* a running commercialRCHproxy.  The proxy is not part of the repository: *)
(* it publishes the capture (RAW and timeline, manifest, .ready, in that   *)
(* order) and its parser the result (outputs, parsed.json, .parsed), both  *)
(* possibly again while the directory is being read.                       *)
(*                                                                         *)
(* A part is represented by the publication it belongs to, so a SHA-256    *)
(* comparison is an equality of publications.  The rotation of the window  *)
(* is that of CanonicalDiscovery; the two RAW files are one part.          *)
(***************************************************************************)
EXTENDS Naturals, Sequences

CONSTANTS
    RchTimelines,    \* [records, request, response, count, complete]: what may be published
    RchRacing,       \* the ones published while the job may be published again
    RchPublications  \* bound: publications of the capture, and of the parser

RchRecords == [seq : Nat, dir : {"request", "response"}, off : Nat, sess : Nat, len : Nat \ {0}]

ASSUME RchAssumption ==
    /\ \A t \in RchTimelines :
          /\ t.request \in Nat /\ t.response \in Nat /\ t.count \in Nat /\ t.complete \in BOOLEAN
          /\ t.records \in Seq(RchRecords)
    /\ RchRacing \subseteq RchTimelines
    /\ RchPublications \in Nat \ {0}

CaptureParts == {"raw", "timeline", "manifest", "ready"}
ParserParts == {"output", "parsed", "marker"}
RchParts == CaptureParts \cup ParserParts

VARIABLES
    \* ---- the job directory
    rchDisk,     \* part -> the publication it belongs to, 0 if absent
    rchCaptures, \* publications of the capture: are its fields valid?
    rchParses,   \* publications of the parser: [of, sound]
    rchTimeline, \* the timeline the job's captures publish
    \* ---- the adapter
    rchKind, rchStep, \* what is being loaded, the next read
    rchGot,           \* the publications read so far
    rchLog            \* what the last load came to

rchWriter == <<rchDisk, rchCaptures, rchParses, rchTimeline>>
rchVars == <<rchDisk, rchCaptures, rchParses, rchTimeline, rchKind, rchStep, rchGot, rchLog>>

NothingRead == [p \in RchParts |-> 0]

RchInit ==
    /\ rchTimeline \in RchTimelines
    /\ rchDisk = [p \in RchParts |-> IF p \in CaptureParts THEN 1 ELSE 0]
    /\ rchCaptures = <<TRUE>> /\ rchParses = <<>>
    /\ rchKind = "none" /\ rchStep = 0 /\ rchGot = NothingRead /\ rchLog = {}

-----------------------------------------------------------------------------
(* The commercialRCHproxy and its parser.                                  *)

WrittenBefore(p) ==
    CASE p = "manifest" -> {"raw", "timeline"}
      [] p = "ready"    -> {"raw", "timeline", "manifest"}
      [] p = "parsed"   -> {"output"}
      [] p = "marker"   -> {"output", "parsed"}
      [] OTHER          -> {}

Newest(p) == IF p \in CaptureParts THEN Len(rchCaptures) ELSE Len(rchParses)

BeginCapture ==
    /\ rchTimeline \in RchRacing /\ Len(rchCaptures) < RchPublications
    /\ rchDisk["ready"] = Len(rchCaptures)
    /\ \E sound \in BOOLEAN : rchCaptures' = Append(rchCaptures, sound)
    /\ UNCHANGED <<rchDisk, rchParses, rchTimeline, rchKind, rchStep, rchGot, rchLog>>

BeginParse ==
    /\ rchTimeline \in RchRacing /\ Len(rchParses) < RchPublications
    /\ rchDisk["marker"] = Len(rchParses)
    /\ \E sound \in BOOLEAN : rchParses' = Append(rchParses, [of |-> rchDisk["ready"], sound |-> sound])
    /\ UNCHANGED <<rchDisk, rchCaptures, rchTimeline, rchKind, rchStep, rchGot, rchLog>>

WritePart(p) ==
    /\ rchDisk[p] < Newest(p)
    /\ \A q \in WrittenBefore(p) : rchDisk[q] = Newest(p)
    /\ rchDisk' = [rchDisk EXCEPT ![p] = Newest(p)]
    /\ UNCHANGED <<rchCaptures, rchParses, rchTimeline, rchKind, rchStep, rchGot, rchLog>>

-----------------------------------------------------------------------------
(* _parse_timeline                                                         *)

Begin == [ok |-> TRUE, seq |-> 0, off |-> [request |-> 0, response |-> 0],
          sess |-> [request |-> {}, response |-> {}]]

RawSize(t) == [request |-> t.request, response |-> t.response]

\* Mutation: the offset is checked against the end of the RAW only.
SeededContinues(t, a, r) ==
    /\ r.seq > a.seq
    /\ r.off + r.len <= RawSize(t)[r.dir]
    /\ t.complete => r.seq = a.seq + 1 /\ a.sess[r.dir] \subseteq {r.sess}

\* The checks of one record against what the records before it left.
Continues(t, a, r) ==
    /\ r.seq > a.seq
    /\ r.off + r.len <= RawSize(t)[r.dir]
    /\ t.complete => /\ r.seq = a.seq + 1
                     /\ r.off = a.off[r.dir]
                     /\ a.sess[r.dir] \subseteq {r.sess}

AfterRecord(a, r) ==
    [ok |-> TRUE, seq |-> r.seq,
     off |-> [a.off EXCEPT ![r.dir] = r.off + r.len],
     sess |-> [a.sess EXCEPT ![r.dir] = {r.sess + r.len}]]

\* What the records up to the n-th leave; after a bad one nothing is looked at.
Scan(t) ==
    LET scan[n \in 0..Len(t.records)] ==
          IF n = 0 THEN Begin
          ELSE IF scan[n - 1].ok /\ Continues(t, scan[n - 1], t.records[n])
               THEN AfterRecord(scan[n - 1], t.records[n])
               ELSE [scan[n - 1] EXCEPT !.ok = FALSE]
    IN  scan

TimelineAccepted(t) ==
    LET end == Scan(t)[Len(t.records)]
    IN  /\ end.ok
        /\ Len(t.records) = t.count
        /\ t.complete => end.off = RawSize(t)

-----------------------------------------------------------------------------
(* The adapters: discover finds the marker, load reads the parts in order. *)

CaptureReads == <<"ready", "manifest", "raw", "timeline", "ready">>
ParserReads == <<"marker", "parsed", "output", "marker">>
Reads == IF rchKind = "parsed" THEN CaptureReads \o ParserReads ELSE CaptureReads

RchDiscover(kind) ==
    /\ rchKind = "none"
    /\ rchDisk[IF kind = "parsed" THEN "marker" ELSE "ready"] > 0
    /\ rchKind' = kind /\ rchStep' = 1 /\ rchGot' = NothingRead /\ rchLog' = {}
    /\ UNCHANGED rchWriter

EndLoad(outcome) ==
    /\ rchLog' = {[kind |-> rchKind, outcome |-> outcome, got |-> rchGot']}
    /\ rchKind' = "none" /\ rchStep' = 0

\* Mutation: the files are taken as they are, without comparing their hashes.
SeededManifestOnly(p) ==
    CASE p = "manifest" -> rchGot["ready"]
      [] p = "parsed"   -> rchGot["marker"]
      [] OTHER          -> rchDisk[p]

\* The publication whose hash the part read next must have.
Authority(p) ==
    CASE p = "manifest"            -> rchGot["ready"]
      [] p \in {"raw", "timeline"} -> rchGot["manifest"]
      [] p = "parsed"              -> rchGot["marker"]
      [] p = "output"              -> rchGot["parsed"]

\* What load verifies in a part once its hash is right.
ContentsValid(p) ==
    CASE p = "manifest" -> rchCaptures[rchGot["ready"]]
      [] p = "timeline" -> rchKind = "capture" => TimelineAccepted(rchTimeline)
      [] p = "parsed"   -> /\ rchParses[rchGot["marker"]].sound
                           /\ rchParses[rchGot["marker"]].of = rchGot["manifest"]
      [] OTHER          -> TRUE

\* A marker is read twice: first to learn what to expect, last to see that it
\* has not changed meanwhile.
ReadMarker ==
    LET p == Reads[rchStep]
        again == rchStep \in {Len(CaptureReads), Len(CaptureReads) + Len(ParserReads)}
    IN  /\ rchKind # "none" /\ p \in {"ready", "marker"}
        /\ rchGot' = IF again THEN rchGot ELSE [rchGot EXCEPT ![p] = rchDisk[p]]
        /\ \/ /\ again /\ rchDisk[p] # rchGot[p]
              /\ EndLoad("busy")
           \/ /\ again => rchDisk[p] = rchGot[p]
              /\ IF rchStep = Len(Reads) THEN EndLoad("delivered")
                 ELSE rchStep' = rchStep + 1 /\ UNCHANGED <<rchKind, rchLog>>
        /\ UNCHANGED rchWriter

ReadPart ==
    LET p == Reads[rchStep]
    IN  /\ rchKind # "none" /\ p \notin {"ready", "marker"}
        /\ rchGot' = [rchGot EXCEPT ![p] = rchDisk[p]]
        /\ IF rchDisk[p] = Authority(p) /\ ContentsValid(p)
           THEN rchStep' = rchStep + 1 /\ UNCHANGED <<rchKind, rchLog>>
           ELSE EndLoad("refused")
        /\ UNCHANGED rchWriter

RchNext ==
    \/ BeginCapture \/ BeginParse
    \/ \E p \in RchParts : WritePart(p)
    \/ \E kind \in {"capture", "parsed"} : RchDiscover(kind)
    \/ ReadMarker \/ ReadPart

RchSpec == RchInit /\ [][RchNext]_rchVars

-----------------------------------------------------------------------------
\* An envelope is one publication: the RAW, the timeline and the manifest are
\* those of the marker, and parser results are results about that very
\* capture, however the reads fall between the proxy's and the parser's writes.
RchEnvelopeIsOnePublication ==
    \A d \in rchLog : d.outcome = "delivered" =>
        /\ \A p \in CaptureParts : d.got[p] = d.got["ready"]
        /\ d.kind = "parsed" =>
              /\ \A p \in ParserParts : d.got[p] = d.got["marker"]
              /\ rchParses[d.got["marker"]].of = d.got["ready"]

\* Records in the order of their sequence numbers, none outside the RAW and
\* as many as the manifest says; complete ones account for every byte of both
\* RAW files exactly once and in order, at one distance from the session offsets.
AccountsForRaw(t) ==
    LET Is == 1..Len(t.records)
        R(i) == t.records[i]
        Covers(i, dir, b) == R(i).dir = dir /\ b \in R(i).off..(R(i).off + R(i).len - 1)
    IN  /\ Len(t.records) = t.count
        /\ \A i, j \in Is : i < j => R(i).seq < R(j).seq
        /\ \A i \in Is : R(i).seq >= 1 /\ R(i).off + R(i).len <= RawSize(t)[R(i).dir]
        /\ t.complete =>
              /\ {R(i).seq : i \in Is} = Is
              /\ \A i, j \in Is : R(i).dir = R(j).dir => /\ R(i).sess + R(j).off = R(j).sess + R(i).off
                                                         /\ i < j => R(i).off < R(j).off
              /\ \A dir \in {"request", "response"} : \A b \in 0..(RawSize(t)[dir] - 1) :
                    \E i \in Is : Covers(i, dir, b) /\ \A j \in Is : Covers(j, dir, b) => j = i

\* A delivered capture has a timeline that accounts for its RAW files.
RchTimelineTilesRaw ==
    \A d \in rchLog : d.outcome = "delivered" /\ d.kind = "capture" => AccountsForRaw(rchTimeline)

\* What makes it so: each part that was read has the hash the part before it
\* names, the marker of a parser result was there when it was discovered, and
\* publications are only added.
ReadSoFar(kind, step, got) ==
    /\ step >= 3 => got["manifest"] = got["ready"]
    /\ step >= 4 => got["raw"] = got["ready"]
    /\ step >= 5 => got["timeline"] = got["ready"] /\ (kind = "capture" => TimelineAccepted(rchTimeline))
    /\ step >= 7 => got["marker"] \in 1..Len(rchParses)
    /\ step >= 8 => got["parsed"] = got["marker"] /\ rchParses[got["marker"]].of = got["ready"]
    /\ step >= 9 => got["output"] = got["marker"]

RchResults == [of : Nat, sound : BOOLEAN]
ReadToTheEnd(kind) == IF kind = "parsed" THEN 9 ELSE 5

RchInv ==
    /\ rchTimeline \in RchTimelines
    /\ rchDisk \in [RchParts -> Nat] /\ \A p \in RchParts : rchDisk[p] <= Newest(p)
    /\ rchCaptures \in Seq(BOOLEAN) /\ rchParses \in Seq(RchResults)
    /\ rchGot \in [RchParts -> Nat]
    /\ rchKind \in {"none", "capture", "parsed"}
    /\ rchKind # "none" => rchStep \in 1..ReadToTheEnd(rchKind) /\ ReadSoFar(rchKind, rchStep, rchGot)
    /\ rchKind = "parsed" => rchDisk["marker"] > 0
    /\ \A d \in rchLog : d.outcome = "delivered" =>
          d.kind \in {"capture", "parsed"} /\ ReadSoFar(d.kind, ReadToTheEnd(d.kind), d.got)

=============================================================================
