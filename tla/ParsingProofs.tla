---------------------------- MODULE ParsingProofs ----------------------------
(***************************************************************************)
(* The parser worker: ParsingInv is inductive, for every set of jobs and   *)
(* builds, every limit of a run and every number of attempts.  A step of   *)
(* one process is split into what it does to that process, to the database *)
(* and to what the other process holds.                                    *)
(***************************************************************************)
EXTENDS Parsing, FiniteSetTheorems, TLAPS

Process ==
    [at : Busy \cup {"down", "idle", "end"}, reparse : BOOLEAN,
     todo : Seq(BeepJobs), seen : Seq(Builds), count : Nat]

\* A process changes, the other one does not.
LEMMA Change ==
    ASSUME proc \in [Procs -> Process], NEW p \in Procs, NEW r \in Process,
           proc' = [proc EXCEPT ![p] = r]
    PROVE  /\ proc' \in [Procs -> Process]
           /\ proc'[p] = r
           /\ \A q \in Procs \ {p} : proc'[q] = proc[q]
OBVIOUS

LEMMA TypeProc == ParsingTypeOK => proc \in [Procs -> Process]
BY DEF ParsingTypeOK, Process

LEMMA BuildsAreNumbers == Builds \subseteq Nat /\ 1 \in Builds
<1>1. Cardinality(Builds) \in Nat
  BY ParsingAssumption, FS_CardinalityType
<1> QED  BY <1>1, ParsingAssumption

\* The job at hand, and what is left of the list behind it.
LEMMA HeadOfList ==
    ASSUME NEW s \in Seq(BeepJobs), s # <<>>
    PROVE  /\ Head(s) = s[1] /\ Head(s) \in BeepJobs /\ 1 \in 1..Len(s)
           /\ Tail(s) \in Seq(BeepJobs)
           /\ Len(Tail(s)) = Len(s) - 1
           /\ \A i \in 1..Len(Tail(s)) : Tail(s)[i] = s[i + 1] /\ i + 1 \in 1..Len(s)
OBVIOUS

LEMMA JobAtHand ==
    ASSUME ParsingTypeOK, NEW p \in Procs, ProcInv(p), proc[p].at \in Busy
    PROVE  /\ Job(p) \in BeepJobs /\ Job(p) \in Pending(p)
           /\ status[Job(p)] # "absent"
<1>1. proc[p].todo \in Seq(BeepJobs) /\ proc[p].todo # <<>>
  BY TypeProc DEF Process, ProcInv
<1>2. /\ Job(p) = proc[p].todo[1] /\ Job(p) \in BeepJobs
      /\ 1 \in 1..Len(proc[p].todo)
  BY <1>1, HeadOfList DEF Job
<1> QED  BY <1>2 DEF ProcInv, Pending

-----------------------------------------------------------------------------
(* What the other process holds.                                           *)

LEMMA OtherProcess ==
    ASSUME NEW q \in Procs, ParsingTypeOK, ProcInv(q), proc'[q] = proc[q],
           UNCHANGED <<outcome, build>>,
           \A j \in BeepJobs : status[j] # "absent" => status'[j] # "absent",
           \A j \in BeepJobs : /\ failures'[j][build] \in Nat
                               /\ failures'[j][build] >= failures[j][build]
    PROVE  ProcInv(q)'
<1>1. proc[q].todo \in Seq(BeepJobs) /\ proc[q].count \in Nat
  BY TypeProc DEF Process
<1>2. \A i \in 1..Len(proc[q].todo) : proc[q].todo[i] \in BeepJobs
  BY <1>1
<1>3. Job(q)' = Job(q)
  BY DEF Job
<1>4. proc[q].at = "record" => Job(q) \in BeepJobs
  BY JobAtHand DEF Busy
<1>5. build \in Builds /\ failures \in [BeepJobs -> [Builds -> Nat]]
  BY DEF ParsingTypeOK
<1>6. proc[q].at = "record" => proc[q].count <= failures'[Job(q)][build] + 1
  BY <1>1, <1>4, <1>5 DEF ProcInv
<1> QED  BY <1>2, <1>3, <1>6 DEF ProcInv

LEMMA OtherRace ==
    ASSUME NEW p \in Procs, NEW q \in Procs, ParsingTypeOK, ProcInv(q), RaceInv(q, p),
           proc'[q] = proc[q], build' = build,
           proc'[p].at # "record",
           \A j \in BeepJobs : /\ failures'[j] = failures[j]
                               /\ status'[j] = status[j] \/ j \in Pending(p)
                               /\ j \in Pending(p)' => j \in Pending(p) \/ status[j] # "PARSE_FAILED"
    PROVE  RaceInv(q, p)'
<1>1. Job(q)' = Job(q)
  BY DEF Job
<1>2. proc[q].at = "record" => Job(q) \in BeepJobs
  BY JobAtHand DEF Busy
<1> QED  BY <1>1, <1>2 DEF RaceInv

LEMMA NoRace ==
    ASSUME NEW p, NEW q, proc'[p].at # "record" PROVE RaceInv(p, q)'
BY DEF RaceInv

\* Which of the two is the other one does not matter.
LEMMA BothRaces ==
    ASSUME NEW p \in Procs, NEW q \in Procs, p # q, RaceInv(p, q)', RaceInv(q, p)'
    PROVE  RaceInv("service", "operator")' /\ RaceInv("operator", "service")'
BY DEF Procs

LEMMA Partner ==
    ASSUME NEW p \in Procs, RaceInv("service", "operator"), RaceInv("operator", "service")
    PROVE  \E q \in Procs : /\ q # p /\ Procs = {p, q}
                            /\ RaceInv(p, q) /\ RaceInv(q, p)
<1>1. CASE p = "service"
  BY <1>1 DEF Procs
<1>2. CASE p = "operator"
  BY <1>2 DEF Procs
<1> QED  BY <1>1, <1>2 DEF Procs

-----------------------------------------------------------------------------
(* A step of one process that leaves the database alone.                   *)

LEMMA NothingOffered ==
    ASSUME proc'["service"].at \notin {"store", "commit"} PROVE OfferedIsAnnounced'
BY DEF OfferedIsAnnounced

LEMMA StillAnnounced ==
    ASSUME OfferedIsAnnounced, ParsingTypeOK, \A p \in Procs : ProcInv(p), BeepInv, BeepInv',
           proc'["service"] = proc["service"]
               \/ /\ proc["service"].at = "store"
                  /\ proc'["service"].todo = proc["service"].todo,
           \A j \in BeepJobs : /\ status'[j] = "IMPORTED" => status[j] \in {"IMPORTED", "absent"}
                               /\ queued'[j] >= queued[j]
                               /\ j \in full => j \in full' \/ queued'[j] > 0
    PROVE  OfferedIsAnnounced'
<1> SUFFICES ASSUME NEW j \in BeepJobs, proc'["service"].at \in {"store", "commit"},
                    Job("service")' = j, status'[j] = "IMPORTED"
             PROVE  queued'[j] > 0 \/ j \in full'
  BY DEF OfferedIsAnnounced
<1>1. proc["service"].at \in {"store", "commit"} /\ Job("service") = j
  BY DEF Job
<1>2. status[j] = "IMPORTED"
  BY <1>1, JobAtHand DEF Busy, Procs
<1>3. queued[j] > 0 \/ j \in full
  BY <1>1, <1>2 DEF OfferedIsAnnounced
<1>4. queued[j] \in Nat /\ queued'[j] \in Nat
  BY DEF BeepInv
<1> QED  BY <1>3, <1>4

LEMMA Quiet ==
    ASSUME ParsingInv, NEW p \in Procs, NEW r \in Process,
           UNCHANGED <<db, outcome, build>>, cooling' \subseteq BeepJobs,
           troubles' \in 0..MaxTroubles,
           proc' = [proc EXCEPT ![p] = r],
           r.at # "record",
           ProcInv(p)',
           \A q \in Procs \ {p} : proc[q].at = "record" =>
               \A j \in Pending(p)' : j \in Pending(p) \/ status[j] # "PARSE_FAILED",
           ReparseAlone', OfferedIsAnnounced', BeepInv'
    PROVE  ParsingInv'
<1>1. ParsingTypeOK /\ proc \in [Procs -> Process]
  BY TypeProc DEF ParsingInv
<1>2. /\ proc' \in [Procs -> Process] /\ proc'[p] = r
      /\ \A q \in Procs \ {p} : proc'[q] = proc[q]
  BY <1>1, Change
<1>3. ParsingTypeOK'
  BY <1>1, <1>2 DEF ParsingTypeOK, Process, db
<1>4. PICK q \in Procs : q # p /\ Procs = {p, q} /\ RaceInv(p, q) /\ RaceInv(q, p)
  BY Partner DEF ParsingInv
<1>5. /\ UNCHANGED <<status, versions, empties, failures>>
      /\ build \in Builds /\ failures \in [BeepJobs -> [Builds -> Nat]]
  BY <1>1 DEF db, ParsingTypeOK
<1>6. ProcInv(q)'
  <2>1. \A j \in BeepJobs : failures[j][build] \in Nat
    BY <1>5
  <2>2. \A j \in BeepJobs : failures'[j][build] \in Nat /\ failures'[j][build] >= failures[j][build]
    BY <1>5, <2>1
  <2> QED  BY <1>1, <1>2, <1>4, <1>5, <2>2, OtherProcess DEF ParsingInv
<1>7. RaceInv(p, q)' /\ RaceInv(q, p)'
  <2>1. CASE proc[q].at = "record"
    BY <1>1, <1>2, <1>4, <1>5, <2>1, NoRace, OtherRace DEF ParsingInv
  <2>2. CASE proc[q].at # "record"
    BY <1>2, <1>4, <2>2, NoRace
  <2> QED  BY <2>1, <2>2
<1>8. RaceInv("service", "operator")' /\ RaceInv("operator", "service")'
  BY <1>4, <1>7, BothRaces
<1>9. EachBuildStoresOnce' /\ GivenUpAfterMaxAttempts' /\ FutureUntried'
  BY <1>5 DEF ParsingInv, EachBuildStoresOnce, GivenUpAfterMaxAttempts, FutureUntried
<1> QED  BY <1>3, <1>4, <1>6, <1>8, <1>9 DEF ParsingInv

\* The loop goes on with the next job.
LEMMA Advanced ==
    ASSUME ParsingTypeOK, NEW p \in Procs, ProcInv(p), proc[p].at \in Busy, Advance(p)
    PROVE  \E r \in Process :
               /\ proc' = [proc EXCEPT ![p] = r]
               /\ r.at \in {"load", "idle", "end"} /\ (r.at = "load" => r.todo # <<>>)
               /\ r.reparse = proc[p].reparse /\ r.todo = Tail(proc[p].todo)
               /\ \A i, k \in 1..Len(r.todo) : r.todo[i] = r.todo[k] => i = k
               /\ \A i \in 1..Len(r.todo) : r.todo[i] \in Pending(p) /\ r.todo[i] # Job(p)
<1> DEFINE rest == Tail(proc[p].todo)
           next == IF rest # <<>> THEN "load" ELSE Resting(p)
           r == [proc[p] EXCEPT !.todo = rest, !.seen = <<>>, !.count = 0, !.at = next]
<1>1. proc \in [Procs -> Process] /\ proc[p] \in Process
  BY TypeProc
<1>2. proc[p].todo \in Seq(BeepJobs) /\ proc[p].todo # <<>>
  BY <1>1 DEF ProcInv, Process
<1>3. next \in {"load", "idle", "end"} /\ (next = "load" => rest # <<>>)
  BY DEF Resting
<1>4. r \in Process
  <2>1. rest \in Seq(BeepJobs) /\ <<>> \in Seq(Builds)
    BY <1>2
  <2> QED  BY <1>1, <1>3, <2>1 DEF Process, Busy
<1>5. proc' = [proc EXCEPT ![p] = r]
  BY <1>1 DEF Advance, Process
<1>6. /\ r.at = next /\ r.todo = rest /\ r.reparse = proc[p].reparse
  BY <1>1 DEF Process
<1>7. \A i \in 1..Len(rest) : rest[i] = proc[p].todo[i + 1] /\ i + 1 \in 1..Len(proc[p].todo)
  BY <1>2, HeadOfList
<1>8. Job(p) = proc[p].todo[1] /\ 1 \in 1..Len(proc[p].todo)
  BY <1>2, HeadOfList DEF Job
<1>9. \A i \in 1..Len(rest) : rest[i] \in Pending(p) /\ rest[i] # Job(p)
  BY <1>7, <1>8 DEF ProcInv, Pending
<1>10. \A i, k \in 1..Len(rest) : rest[i] = rest[k] => i = k
  BY <1>7 DEF ProcInv
<1> HIDE DEF r, rest, next
<1> QED  BY <1>3, <1>4, <1>5, <1>6, <1>9, <1>10 DEF rest

-----------------------------------------------------------------------------
(* The operator's steps.                                                   *)

LEMMA UnchangedBeeper == ASSUME BeepInv, UNCHANGED beeperVars PROVE BeepInv'
BY DEF BeepInv, beeperVars

\* A process that is started or stopped has nothing in hand.
LEMMA Fresh ==
    ASSUME ParsingInv, NEW p \in Procs, NEW r,
           r \in {Down, Up} \/ \E reparse \in BOOLEAN : r = [Up EXCEPT !.reparse = reparse],
           UNCHANGED <<db, outcome, build, cooling>>, troubles' \in 0..MaxTroubles,
           proc' = [proc EXCEPT ![p] = r],
           ReparseAlone', OfferedIsAnnounced', BeepInv'
    PROVE  ParsingInv'
<1>1. /\ r \in Process /\ r.at \in {"down", "idle"} /\ r.todo = <<>>
  <2>1. <<>> \in Seq(BeepJobs) /\ <<>> \in Seq(Builds)
    OBVIOUS
  <2>2. PICK at \in {"down", "idle"}, reparse \in BOOLEAN :
            r = [at |-> at, reparse |-> reparse, todo |-> <<>>, seen |-> <<>>, count |-> 0]
    BY DEF Down, Up
  <2> QED  BY <2>1, <2>2 DEF Process
<1>2. /\ ParsingTypeOK /\ proc \in [Procs -> Process]
  BY TypeProc DEF ParsingInv
<1>3. proc'[p] = r
  BY <1>1, <1>2, Change
<1>4. ProcInv(p)' /\ Pending(p)' = {}
  BY <1>1, <1>3 DEF ProcInv, Pending, Busy
<1>5. cooling' \subseteq BeepJobs
  BY <1>2 DEF ParsingTypeOK
<1> QED  BY <1>1, <1>4, <1>5, Quiet

LEMMA StepStartStop ==
    ASSUME ParsingInv,
           \/ StopService \/ StartService \/ EndOnce
           \/ \E reparse \in BOOLEAN : RunOnce(reparse)
    PROVE  ParsingInv'
<1>1. /\ ParsingTypeOK /\ proc \in [Procs -> Process] /\ ReparseAlone /\ BeepInv /\ OfferedIsAnnounced
      /\ \A p \in Procs : ProcInv(p)
      /\ troubles \in 0..MaxTroubles /\ queued \in [BeepJobs -> Nat] /\ MaxTroubles \in Nat
  BY TypeProc, ParsingAssumption DEF ParsingInv, ParsingTypeOK, BeepInv
<1>2. "service" \in Procs /\ "operator" \in Procs
  BY DEF Procs
<1>3. /\ Down.at = "down" /\ Up.at = "idle" /\ ~Down.reparse /\ ~Up.reparse
      /\ \A b : [Up EXCEPT !.reparse = b].reparse = b /\ [Up EXCEPT !.reparse = b].at = "idle"
  BY DEF Down, Up
<1>4. CASE StopService
  <2>1. proc' = [proc EXCEPT !["service"] = Down]
    BY <1>4 DEF StopService
  <2>2. proc'["service"] = Down /\ proc'["operator"] = proc["operator"]
    BY <1>1, <1>2, <2>1
  <2>3. ReparseAlone' /\ OfferedIsAnnounced'
    BY <1>3, <2>2, NothingOffered DEF ReparseAlone
  <2>4. BeepInv'
    <3>1. bell' = <<>> /\ recent' = <<>> /\ queued' = [j \in BeepJobs |-> 0]
      BY <1>4 DEF StopService, BeeperStarts
    <3> QED  BY <3>1 DEF BeepInv
  <2>5. UNCHANGED <<db, outcome, build, cooling>> /\ troubles' \in 0..MaxTroubles
    BY <1>1, <1>4 DEF StopService, Trouble
  <2> QED  BY <1>2, <2>1, <2>3, <2>4, <2>5, Fresh
<1>5. CASE StartService
  <2>1. /\ proc' = [proc EXCEPT !["service"] = Up] /\ ~proc["operator"].reparse
        /\ UNCHANGED <<db, outcome, build, cooling, troubles, beeperVars>>
    BY <1>5 DEF StartService
  <2>2. proc'["service"] = Up /\ proc'["operator"] = proc["operator"]
    BY <1>1, <1>2, <2>1
  <2>3. ReparseAlone' /\ OfferedIsAnnounced'
    BY <1>3, <2>1, <2>2, NothingOffered DEF ReparseAlone
  <2> QED  BY <1>1, <1>2, <2>1, <2>3, Fresh, UnchangedBeeper
<1>6. ASSUME EndOnce \/ \E reparse \in BOOLEAN : RunOnce(reparse) PROVE ParsingInv'
  <2>1. PICK r : /\ \/ r = Down
                    \/ \E reparse \in BOOLEAN :
                           /\ r = [Up EXCEPT !.reparse = reparse]
                           /\ reparse => proc["service"].at = "down"
                 /\ proc' = [proc EXCEPT !["operator"] = r]
                 /\ UNCHANGED <<db, outcome, build, cooling, troubles, beeperVars>>
    BY <1>6 DEF EndOnce, RunOnce
  <2>2. proc'["operator"] = r /\ proc'["service"] = proc["service"]
    BY <1>1, <1>2, <2>1
  <2>3. ReparseAlone'
    BY <1>1, <1>3, <2>1, <2>2 DEF ReparseAlone
  <2>4. BeepInv'
    BY <1>1, <2>1, UnchangedBeeper
  <2>5. UNCHANGED <<status, queued, full>>
    BY <2>1 DEF db, beeperVars
  <2>6. OfferedIsAnnounced'
    BY <1>1, <2>2, <2>4, <2>5, StillAnnounced
  <2> QED  BY <1>1, <1>2, <2>1, <2>3, <2>4, <2>6, Fresh
<1> QED  BY <1>4, <1>5, <1>6

-----------------------------------------------------------------------------
(* The worker's steps that leave the database alone.                       *)

LEMMA Moves ==
    ASSUME ParsingInv, NEW p \in Procs, NEW r \in Process,
           proc' = [proc EXCEPT ![p] = r], proc[p].at # "down",
           r.reparse = proc[p].reparse,
           \A j \in BeepJobs : status'[j] = "IMPORTED" => status[j] \in {"IMPORTED", "absent"},
           UNCHANGED beeperVars,
           \/ r.at \notin {"store", "commit"}
           \/ proc[p].at = "store" /\ r.todo = proc[p].todo
    PROVE  ReparseAlone' /\ BeepInv' /\ OfferedIsAnnounced'
<1>1. /\ ParsingTypeOK /\ proc \in [Procs -> Process] /\ ReparseAlone /\ BeepInv /\ OfferedIsAnnounced
      /\ \A q \in Procs : ProcInv(q)
  BY TypeProc DEF ParsingInv
<1>2. proc'[p] = r /\ \A q \in Procs \ {p} : proc'[q] = proc[q]
  BY <1>1, Change
<1>3. BeepInv'
  BY <1>1, UnchangedBeeper
<1>4. ReparseAlone'
  BY <1>1, <1>2 DEF ReparseAlone, Procs
<1>5. /\ UNCHANGED <<queued, full>> /\ queued \in [BeepJobs -> Nat]
  BY <1>1 DEF beeperVars, BeepInv
<1>6. \A j \in BeepJobs : queued'[j] >= queued[j]
  BY <1>5
<1>7. OfferedIsAnnounced'
  <2>1. CASE p = "service" /\ r.at \notin {"store", "commit"}
    BY <1>2, <2>1, NothingOffered
  <2>2. CASE ~(p = "service" /\ r.at \notin {"store", "commit"})
    <3>1. \/ proc'["service"] = proc["service"]
          \/ proc["service"].at = "store" /\ proc'["service"].todo = proc["service"].todo
      BY <1>2, <2>2 DEF Procs
    <3> QED  BY <1>1, <1>3, <1>5, <1>6, <3>1, StillAnnounced
  <2> QED  BY <2>1, <2>2
<1> QED  BY <1>3, <1>4, <1>7

\* A run takes distinct jobs.
LEMMA Listing ==
    ASSUME NEW S \in SUBSET BeepJobs, NEW s \in Oldest(S, Limit)
    PROVE  /\ s \in Seq(BeepJobs)
           /\ \A i \in 1..Len(s) : s[i] \in S
           /\ \A i, k \in 1..Len(s) : s[i] = s[k] => i = k
<1> DEFINE rank(j) == Cardinality({k \in S : k <= j})
           size == IF Cardinality(S) < Limit THEN Cardinality(S) ELSE Limit
<1>1. IsFiniteSet(S)
  BY ParsingAssumption, FS_Subset
<1>2. size \in Nat
  BY <1>1, ParsingAssumption, FS_CardinalityType
<1>3. s \in [1..size -> S] /\ \A i \in 1..size : rank(s[i]) = i
  BY DEF Oldest
<1> HIDE DEF rank, size
<1>4. s \in Seq(S) /\ Len(s) = size
  BY <1>2, <1>3
<1>5. \A i, k \in 1..size : s[i] = s[k] => i = k
  BY <1>3
<1>6. s \in Seq(BeepJobs)
  BY <1>2, <1>3
<1> QED  BY <1>3, <1>4, <1>5, <1>6

LEMMA StepPending ==
    ASSUME ParsingInv, NEW p \in Procs, PendingJobs(p) PROVE ParsingInv'
<1> DEFINE reparse == proc[p].reparse
           rows == IF reparse THEN Candidates(reparse) ELSE Range8(Candidates(reparse)) \ cooling
<1>1. /\ ParsingTypeOK /\ proc \in [Procs -> Process] /\ ReparseAlone
      /\ proc[p] \in Process /\ proc[p].at = "idle"
      /\ UNCHANGED <<db, outcome, build, cooling, troubles, beeperVars>>
      /\ cooling \subseteq BeepJobs /\ troubles \in 0..MaxTroubles
  BY TypeProc DEF ParsingInv, PendingJobs, ParsingTypeOK
<1>2. /\ rows \subseteq BeepJobs
      /\ \A j \in rows : status[j] # "absent"
      /\ ~reparse => \A j \in rows : status[j] # "PARSE_FAILED"
  BY DEF Candidates, Range8
<1>3. PICK s \in Oldest(rows, Limit) :
          proc' = [proc EXCEPT ![p].todo = s, ![p].at = IF s # <<>> THEN "load" ELSE Resting(p)]
  BY DEF PendingJobs
<1> HIDE DEF rows
<1>4. /\ s \in Seq(BeepJobs)
      /\ \A i \in 1..Len(s) : s[i] \in rows
      /\ \A i, k \in 1..Len(s) : s[i] = s[k] => i = k
  BY <1>2, Listing
<1>5. PICK next \in {"load", "idle", "end"} :
          /\ next = "load" => s # <<>>
          /\ proc' = [proc EXCEPT ![p].todo = s, ![p].at = next]
  BY <1>3 DEF Resting
<1> DEFINE r == [proc[p] EXCEPT !.todo = s, !.at = next]
<1>6. /\ r \in Process /\ r.at = next /\ r.todo = s /\ r.reparse = reparse
      /\ proc' = [proc EXCEPT ![p] = r]
  BY <1>1, <1>4, <1>5 DEF Process, Busy
<1> HIDE DEF r
<1>7. proc'[p] = r
  BY <1>1, <1>6, Change
<1>8. UNCHANGED <<status, outcome, build>>
  BY <1>1 DEF db
<1>9. ProcInv(p)'
  BY <1>2, <1>4, <1>5, <1>6, <1>7, <1>8 DEF ProcInv, Busy
<1>10. \A q \in Procs \ {p} : proc[q].at = "record" => ~reparse
  BY <1>1 DEF ReparseAlone, Procs
<1>11. Pending(p)' \subseteq rows
  BY <1>4, <1>6, <1>7 DEF Pending
<1>12. ReparseAlone' /\ BeepInv' /\ OfferedIsAnnounced'
  BY <1>1, <1>6, <1>8, Moves
<1> QED  BY <1>1, <1>2, <1>5, <1>6, <1>9, <1>10, <1>11, <1>12, Quiet

\* The job at hand stays the same.
LEMMA SameJob ==
    ASSUME ParsingInv, NEW p \in Procs, NEW r \in Process, proc[p].at \in Busy,
           proc' = [proc EXCEPT ![p] = r],
           r.todo = proc[p].todo, r.at \in Busy \ {"record"}, r.reparse = proc[p].reparse,
           r.at \in {"store", "commit"} => outcome[Job(p)][build] # "error",
           UNCHANGED <<db, outcome, build, cooling>>, troubles' \in 0..MaxTroubles,
           OfferedIsAnnounced', BeepInv'
    PROVE  ParsingInv'
<1>1. /\ ParsingTypeOK /\ proc \in [Procs -> Process] /\ ProcInv(p) /\ ReparseAlone
      /\ cooling' \subseteq BeepJobs
  BY TypeProc DEF ParsingInv, ParsingTypeOK
<1>2. proc'[p] = r /\ \A q \in Procs \ {p} : proc'[q] = proc[q]
  BY <1>1, Change
<1>3. UNCHANGED <<status, failures>>
  BY DEF db
<1>4. Job(p)' = Job(p) /\ Pending(p)' = Pending(p)
  BY <1>2 DEF Job, Pending
<1>5. ProcInv(p)'
  BY <1>1, <1>2, <1>3, <1>4 DEF ProcInv
<1>6. ReparseAlone'
  BY <1>1, <1>2 DEF ReparseAlone, Procs, Busy
<1> QED  BY <1>1, <1>4, <1>5, <1>6, Quiet

LEMMA Gone ==
    ASSUME ParsingTypeOK, NEW p \in Procs, NEW next \in Busy, Go(p, next)
    PROVE  \E r \in Process : /\ proc' = [proc EXCEPT ![p] = r]
                              /\ r.at = next /\ r.todo = proc[p].todo
                              /\ r.reparse = proc[p].reparse
<1>1. proc \in [Procs -> Process] /\ proc[p] \in Process
  BY TypeProc
<1> DEFINE r == [proc[p] EXCEPT !.at = next]
<1>2. /\ r \in Process /\ r.at = next /\ r.todo = proc[p].todo /\ r.reparse = proc[p].reparse
  BY <1>1 DEF Process
<1>3. proc' = [proc EXCEPT ![p] = r]
  BY <1>1 DEF Go
<1> HIDE DEF r
<1> QED  BY <1>2, <1>3

\* What is offered to the dispatcher is queued, was queued, or met a full queue.
LEMMA Enqueued ==
    ASSUME BeepInv, NEW j \in BeepJobs, Enqueue(j)
    PROVE  /\ BeepInv'
           /\ queued'[j] > 0 \/ j \in full'
           /\ \A k \in BeepJobs : /\ queued'[k] >= queued[k]
                                  /\ k \in full => k \in full' \/ queued'[k] > 0
<1>1. /\ bell \in Seq(BeepJobs) /\ recent \in Seq(BeepJobs) /\ queued \in [BeepJobs -> Nat]
      /\ \A i \in 1..Len(recent) : queued[recent[i]] > 0 /\ recent[i] \in BeepJobs
  BY DEF BeepInv
<1>2. CASE Known(j)
  <2>1. queued[j] > 0
    BY <1>1, <1>2 DEF Known
  <2>2. full' = full \ {j} /\ UNCHANGED <<bell, recent, queued>>
    BY <1>2 DEF Enqueue
  <2> QED  BY <1>1, <2>1, <2>2 DEF BeepInv
<1>3. CASE ~Known(j) /\ Len(bell) = QueueSize
  <2>1. full' = full \cup {j} /\ UNCHANGED <<bell, recent, queued>>
    BY <1>3 DEF Enqueue
  <2> QED  BY <1>1, <2>1 DEF BeepInv
<1>4. CASE ~Known(j) /\ Len(bell) # QueueSize
  <2>1. /\ bell' = Append(bell, j) /\ recent' = Newest(Append(recent, j))
        /\ queued' = [queued EXCEPT ![j] = @ + 1] /\ full' = full \ {j}
    BY <1>4 DEF Enqueue
  <2>2. /\ bell' \in Seq(BeepJobs) /\ queued' \in [BeepJobs -> Nat]
        /\ queued'[j] > 0 /\ \A k \in BeepJobs : queued'[k] >= queued[k]
    BY <1>1, <2>1
  <2> DEFINE s == Append(recent, j)
  <2>3. s \in Seq(BeepJobs) /\ s # <<>> /\ \A i \in 1..Len(s) : queued'[s[i]] > 0
    <3>1. s \in Seq(BeepJobs) /\ Len(s) = Len(recent) + 1
      BY <1>1
    <3>2. /\ \A i \in 1..Len(recent) : s[i] = recent[i]
          /\ s[Len(recent) + 1] = j /\ Len(recent) \in Nat
      BY <1>1
    <3>3. s # <<>>
      BY <1>1, <3>1, SMTT(30)
    <3> HIDE DEF s
    <3>4. ASSUME NEW i \in 1..Len(s) PROVE queued'[s[i]] > 0
      <4>1. CASE i = Len(recent) + 1
        BY <2>2, <3>2, <4>1
      <4>2. CASE i # Len(recent) + 1
        <5>1. i \in 1..Len(recent)
          BY <3>1, <3>2, <4>2
        <5>2. queued[recent[i]] > 0 /\ recent[i] \in BeepJobs
          BY <1>1, <5>1
        <5>3. queued[recent[i]] \in Nat /\ queued'[recent[i]] \in Nat
          BY <1>1, <2>2, <5>2
        <5>4. queued'[recent[i]] >= queued[recent[i]]
          BY <2>2, <5>2
        <5> QED  BY <3>2, <5>1, <5>2, <5>3, <5>4
      <4> QED  BY <4>1, <4>2
    <3> QED  BY <1>1, <2>2, <3>1, <3>2, <3>3, <3>4
  <2> HIDE DEF s
  <2>4. /\ Tail(s) \in Seq(BeepJobs)
        /\ \A i \in 1..Len(Tail(s)) : queued'[Tail(s)[i]] > 0
    BY <2>3, HeadOfList
  <2>5. recent' \in Seq(BeepJobs) /\ \A i \in 1..Len(recent') : queued'[recent'[i]] > 0
    <3>1. recent' = s \/ recent' = Tail(s)
      BY <2>1 DEF Newest, s
    <3> QED  BY <2>3, <2>4, <3>1
  <2> QED  BY <2>1, <2>2, <2>5 DEF BeepInv
<1> QED  BY <1>2, <1>3, <1>4

LEMMA StepLoad ==
    ASSUME ParsingInv, NEW p \in Procs, LoadJob(p) PROVE ParsingInv'
<1>1. /\ ParsingTypeOK /\ proc \in [Procs -> Process] /\ BeepInv /\ OfferedIsAnnounced
      /\ \A q \in Procs : ProcInv(q)
      /\ proc[p].at = "load"
      /\ UNCHANGED <<db, outcome, build, cooling, troubles>> /\ troubles \in 0..MaxTroubles
  BY TypeProc DEF ParsingInv, LoadJob, ParsingTypeOK
<1>2. PICK next \in {"failure", "store"} :
          Go(p, next) /\ (next = "store" => outcome[Job(p)][build] # "error")
  BY DEF LoadJob
<1>3. PICK r \in Process : /\ proc' = [proc EXCEPT ![p] = r]
                           /\ r.at = next /\ r.todo = proc[p].todo
                           /\ r.reparse = proc[p].reparse
  BY <1>1, <1>2, Gone DEF Busy
<1>4. proc'[p] = r /\ \A q \in Procs \ {p} : proc'[q] = proc[q]
  BY <1>1, <1>3, Change
<1>5. Job(p) \in BeepJobs /\ Job(p)' = Job(p) /\ UNCHANGED status
  BY <1>1, <1>3, <1>4, JobAtHand DEF Job, Busy, db
<1>6. BeepInv' /\ OfferedIsAnnounced'
  <2>1. CASE p = "service" /\ status[Job(p)] = "IMPORTED"
    <3>1. Enqueue(Job(p))
      BY <2>1 DEF LoadJob
    <3>2. BeepInv' /\ (queued'[Job(p)] > 0 \/ Job(p) \in full')
      BY <1>1, <1>5, <3>1, Enqueued
    <3> QED  BY <1>5, <2>1, <3>2 DEF OfferedIsAnnounced
  <2>2. CASE p = "service" /\ status[Job(p)] # "IMPORTED"
    <3>1. UNCHANGED beeperVars
      BY <2>2 DEF LoadJob
    <3> QED  BY <1>1, <1>5, <2>2, <3>1, UnchangedBeeper DEF OfferedIsAnnounced
  <2>3. CASE p # "service"
    <3>1. UNCHANGED beeperVars /\ proc'["service"] = proc["service"]
      BY <1>4, <2>3 DEF LoadJob, Procs
    <3>2. UNCHANGED <<queued, full>> /\ \A j \in BeepJobs : queued[j] \in Nat
      BY <1>1, <3>1 DEF beeperVars, BeepInv
    <3>3. \A j \in BeepJobs : queued'[j] >= queued[j]
      BY <3>2
    <3> QED  BY <1>1, <1>5, <3>1, <3>2, <3>3, UnchangedBeeper, StillAnnounced
  <2> QED  BY <2>1, <2>2, <2>3
<1> QED  BY <1>1, <1>2, <1>3, <1>6, SameJob DEF Busy

LEMMA StepBeginStore ==
    ASSUME ParsingInv, NEW p \in Procs, BeginStore(p) PROVE ParsingInv'
<1>1. /\ ParsingTypeOK /\ proc[p] \in Process /\ ProcInv(p) /\ proc[p].at = "store"
      /\ proc \in [Procs -> Process]
      /\ UNCHANGED <<db, outcome, build, cooling, troubles, beeperVars>>
      /\ troubles \in 0..MaxTroubles /\ versions \in [BeepJobs -> Seq(Builds)]
  BY TypeProc DEF ParsingInv, BeginStore, ParsingTypeOK
<1>2. versions[Job(p)] \in Seq(Builds)
  BY <1>1, JobAtHand DEF Busy
<1> DEFINE r == [proc[p] EXCEPT !.at = "commit", !.seen = versions[Job(p)]]
<1>3. /\ r \in Process /\ r.at = "commit" /\ r.todo = proc[p].todo
      /\ r.reparse = proc[p].reparse
  BY <1>1, <1>2 DEF Process, Busy
<1>4. proc' = [proc EXCEPT ![p] = r]
  BY <1>1 DEF BeginStore
<1> HIDE DEF r
<1>5. UNCHANGED status
  BY <1>1 DEF db
<1>6. BeepInv' /\ OfferedIsAnnounced'
  BY <1>1, <1>3, <1>4, <1>5, Moves
<1>7. outcome[Job(p)][build] # "error"
  BY <1>1 DEF ProcInv
<1> QED  BY <1>1, <1>3, <1>4, <1>6, <1>7, SameJob DEF Busy

\* A store that fails before it has written anything, and a refused one.
LEMMA StepFails ==
    ASSUME ParsingInv, NEW p \in Procs, proc[p].at \in {"load", "commit"}, Go(p, "failure"),
           UNCHANGED <<db, outcome, build, cooling, beeperVars>>, troubles' \in 0..MaxTroubles
    PROVE  ParsingInv'
<1>1. ParsingTypeOK /\ UNCHANGED status
  BY DEF ParsingInv, db
<1>2. PICK r \in Process : /\ proc' = [proc EXCEPT ![p] = r]
                           /\ r.at = "failure" /\ r.todo = proc[p].todo
                           /\ r.reparse = proc[p].reparse
  BY <1>1, Gone DEF Busy
<1>3. BeepInv' /\ OfferedIsAnnounced'
  BY <1>1, <1>2, Moves
<1> QED  BY <1>2, <1>3, SameJob DEF Busy

-----------------------------------------------------------------------------
(* The end of an attempt: the job may have got a new status, no failure is *)
(* recorded.                                                               *)

LEMMA Settles ==
    ASSUME ParsingInv, NEW p \in Procs, NEW r \in Process, proc[p].at \in Busy,
           proc' = [proc EXCEPT ![p] = r],
           r.at \in {"load", "idle", "end", "failure"}, r.at \in Busy => r.todo # <<>>,
           r.reparse = proc[p].reparse,
           \A i, k \in 1..Len(r.todo) : r.todo[i] = r.todo[k] => i = k,
           \A i \in 1..Len(r.todo) : r.todo[i] \in Pending(p),
           UNCHANGED <<outcome, build, failures, beeperVars>>,
           \A j \in BeepJobs : \/ status'[j] = status[j]
                               \/ j = Job(p) /\ status'[j] \notin {"absent", "IMPORTED"},
           ParsingTypeOK', EachBuildStoresOnce', GivenUpAfterMaxAttempts'
    PROVE  ParsingInv'
<1>1. /\ ParsingTypeOK /\ proc \in [Procs -> Process] /\ FutureUntried
      /\ \A q \in Procs : ProcInv(q)
      /\ build \in Builds /\ failures \in [BeepJobs -> [Builds -> Nat]]
  BY TypeProc DEF ParsingInv, ParsingTypeOK
<1>2. proc'[p] = r /\ \A q \in Procs \ {p} : proc'[q] = proc[q]
  BY <1>1, Change
<1>3. PICK q \in Procs : q # p /\ Procs = {p, q} /\ RaceInv(p, q) /\ RaceInv(q, p)
  BY Partner DEF ParsingInv
<1>4. Job(p) \in Pending(p)
  BY <1>1, JobAtHand
<1>5. \A j \in Pending(p) : j \in BeepJobs /\ status[j] # "absent"
  <2>1. proc[p].todo \in Seq(BeepJobs)
    BY <1>1 DEF Process
  <2>2. \A i \in 1..Len(proc[p].todo) : proc[p].todo[i] \in BeepJobs
    BY <2>1
  <2> QED  BY <1>1, <2>2 DEF Pending, ProcInv
<1>6. ProcInv(p)'
  <2>1. \A i \in 1..Len(r.todo) : status'[r.todo[i]] # "absent"
    BY <1>5
  <2> QED  BY <1>2, <2>1 DEF ProcInv
<1>7. ProcInv(q)'
  <2>1. \A j \in BeepJobs : failures'[j][build] \in Nat /\ failures'[j][build] >= failures[j][build]
    BY <1>1
  <2>2. \A j \in BeepJobs : status[j] # "absent" => status'[j] # "absent"
    OBVIOUS
  <2> QED  BY <1>1, <1>2, <1>3, <2>1, <2>2, OtherProcess
<1>8. RaceInv(p, q)' /\ RaceInv(q, p)'
  <2>1. Pending(p)' \subseteq Pending(p)
    BY <1>2, SMTT(30) DEF Pending
  <2> QED  BY <1>1, <1>2, <1>3, <1>4, <2>1, NoRace, OtherRace
<1>9. RaceInv("service", "operator")' /\ RaceInv("operator", "service")'
  BY <1>3, <1>8, BothRaces
<1>10. ReparseAlone' /\ BeepInv' /\ OfferedIsAnnounced'
  BY <1>1, Moves DEF Busy
<1>11. FutureUntried'
  BY <1>1 DEF FutureUntried
<1> QED  BY <1>3, <1>6, <1>7, <1>9, <1>10, <1>11 DEF ParsingInv

\* What Advance and a change of at to "failure" have in common.
LEMMA LeavesJob ==
    ASSUME ParsingInv, NEW p \in Procs, proc[p].at \in Busy,
           Advance(p) \/ Go(p, "failure")
    PROVE  \E r \in Process :
               /\ proc' = [proc EXCEPT ![p] = r]
               /\ r.at \in {"load", "idle", "end", "failure"} /\ (r.at \in Busy => r.todo # <<>>)
               /\ r.reparse = proc[p].reparse
               /\ \A i, k \in 1..Len(r.todo) : r.todo[i] = r.todo[k] => i = k
               /\ \A i \in 1..Len(r.todo) : r.todo[i] \in Pending(p)
<1>1. ParsingTypeOK /\ ProcInv(p)
  BY DEF ParsingInv
<1>2. CASE Advance(p)
  <2>1. PICK r \in Process :
               /\ proc' = [proc EXCEPT ![p] = r]
               /\ r.at \in {"load", "idle", "end"} /\ (r.at = "load" => r.todo # <<>>)
               /\ r.reparse = proc[p].reparse /\ r.todo = Tail(proc[p].todo)
               /\ \A i, k \in 1..Len(r.todo) : r.todo[i] = r.todo[k] => i = k
               /\ \A i \in 1..Len(r.todo) : r.todo[i] \in Pending(p) /\ r.todo[i] # Job(p)
    BY <1>1, <1>2, Advanced
  <2>2. r.at \in Busy => r.todo # <<>>
    BY <2>1 DEF Busy
  <2> QED  BY <2>1, <2>2
<1>3. CASE Go(p, "failure")
  <2>1. PICK r \in Process : /\ proc' = [proc EXCEPT ![p] = r]
                             /\ r.at = "failure" /\ r.todo = proc[p].todo
                             /\ r.reparse = proc[p].reparse
    BY <1>1, <1>3, Gone DEF Busy
  <2> QED  BY <1>1, <2>1 DEF ProcInv, Pending
<1> QED  BY <1>2, <1>3

LEMMA ProcTypes ==
    ASSUME ParsingInv, NEW p \in Procs, NEW r \in Process, proc' = [proc EXCEPT ![p] = r]
    PROVE  proc' \in [Procs -> Process]
BY TypeProc, Change DEF ParsingInv

LEMMA StepRecordFails ==
    ASSUME ParsingInv, NEW p \in Procs, RecordFails(p) PROVE ParsingInv'
<1>1. /\ proc[p].at = "record" /\ Advance(p) /\ Trouble
      /\ UNCHANGED <<status, versions, empties, failures, outcome, build, cooling, beeperVars>>
  BY DEF RecordFails, db
<1>2. PICK r \in Process :
               /\ proc' = [proc EXCEPT ![p] = r]
               /\ r.at \in {"load", "idle", "end", "failure"} /\ (r.at \in Busy => r.todo # <<>>)
               /\ r.reparse = proc[p].reparse
               /\ \A i, k \in 1..Len(r.todo) : r.todo[i] = r.todo[k] => i = k
               /\ \A i \in 1..Len(r.todo) : r.todo[i] \in Pending(p)
  BY <1>1, LeavesJob DEF Busy
<1>3. proc' \in [Procs -> Process]
  BY <1>2, ProcTypes
<1>4. troubles' \in 0..MaxTroubles
  BY <1>1, ParsingAssumption DEF Trouble, ParsingInv, ParsingTypeOK
<1>5. ParsingTypeOK'
  BY <1>1, <1>3, <1>4 DEF ParsingInv, ParsingTypeOK, Process
<1>6. EachBuildStoresOnce' /\ GivenUpAfterMaxAttempts'
  BY <1>1 DEF ParsingInv, EachBuildStoresOnce, GivenUpAfterMaxAttempts
<1> QED  BY <1>1, <1>2, <1>5, <1>6, Settles DEF Busy

\* The version that is appended is not in the chain that was read, and the
\* chain that was read is the one in the database: the unique keys.
LEMMA Written ==
    ASSUME ParsingInv, NEW p \in Procs, proc[p].at = "commit", Insertable(p), WriteDocuments(p),
           UNCHANGED <<failures, outcome, build>>
    PROVE  /\ status' \in [BeepJobs -> Statuses] /\ versions' \in [BeepJobs -> Seq(Builds)]
           /\ empties' \in [BeepJobs -> SUBSET Builds]
           /\ EachBuildStoresOnce' /\ GivenUpAfterMaxAttempts'
           /\ \A j \in BeepJobs : \/ status'[j] = status[j]
                                  \/ j = Job(p) /\ status'[j] \notin {"absent", "IMPORTED"}
<1> DEFINE j == Job(p)
<1>1. /\ ParsingTypeOK /\ ProcInv(p)
      /\ status \in [BeepJobs -> Statuses] /\ versions \in [BeepJobs -> Seq(Builds)]
      /\ empties \in [BeepJobs -> SUBSET Builds] /\ build \in Builds
      /\ outcome \in [BeepJobs -> [Builds -> {"documents", "empty", "error"}]]
  BY DEF ParsingInv, ParsingTypeOK
<1>2. j \in BeepJobs /\ outcome[j][build] \in {"documents", "empty"}
  BY <1>1, JobAtHand DEF ProcInv, Busy
<1> HIDE DEF j
<1>3. PICK new \in {"PARSE_EMPTY", "PARSED"} : status' = [status EXCEPT ![j] = new]
  BY DEF WriteDocuments, j
<1>4. /\ status' \in [BeepJobs -> Statuses]
      /\ status'[j] = new /\ \A k \in BeepJobs \ {j} : status'[k] = status[k]
  BY <1>1, <1>2, <1>3 DEF Statuses
<1>5. empties' = empties \/ empties' = [empties EXCEPT ![j] = empties[j] \cup {build}]
  <2>1. CASE outcome[j][build] = "empty"
    BY <2>1 DEF WriteDocuments, j
  <2>2. CASE outcome[j][build] # "empty"
    BY <2>2 DEF WriteDocuments, j
  <2> QED  BY <2>1, <2>2
<1>6. empties' \in [BeepJobs -> SUBSET Builds]
  <2>1. empties[j] \cup {build} \in SUBSET Builds
    BY <1>1, <1>2
  <2> QED  BY <1>1, <1>2, <1>5, <2>1
<1>7. \/ versions' = versions
      \/ /\ versions' = [versions EXCEPT ![j] = Append(versions[j], build)]
         /\ outcome[j][build] = "documents"
         /\ \A i \in 1..Len(versions[j]) : versions[j][i] # build
  <2>1. CASE outcome[j][build] = "empty"
    BY <2>1 DEF WriteDocuments, j
  <2>2. CASE outcome[j][build] = "documents"
    <3>1. ~Conflict(p)
      BY <2>2 DEF Insertable, j
    <3>2. CASE Stored(p)
      BY <2>2, <3>2 DEF WriteDocuments, j
    <3>3. CASE ~Stored(p)
      <4>1. versions[j] = proc[p].seen
        BY <3>1, <3>3 DEF Conflict, j
      <4> QED  BY <2>2, <3>3, <4>1 DEF WriteDocuments, Stored, j
    <3> QED  BY <3>2, <3>3
  <2> QED  BY <1>2, <2>1, <2>2
<1>8. versions' \in [BeepJobs -> Seq(Builds)] /\ EachBuildStoresOnce'
  <2>1. CASE versions' = versions
    BY <1>1, <2>1 DEF EachBuildStoresOnce, ParsingInv
  <2>2. CASE versions' # versions
    <3>1. /\ versions[j] \in Seq(Builds)
          /\ \A i, k \in 1..Len(versions[j]) : versions[j][i] = versions[j][k] => i = k
          /\ \A i \in 1..Len(versions[j]) : outcome[j][versions[j][i]] = "documents"
      BY <1>1, <1>2 DEF EachBuildStoresOnce, ParsingInv
    <3> DEFINE old == versions[j]
               s == Append(old, build)
               n == Len(old)
    <3>2. /\ s \in Seq(Builds) /\ n \in Nat /\ Len(s) = n + 1 /\ s[n + 1] = build
          /\ \A i \in 1..n : s[i] = old[i]
      BY <1>1, <3>1
    <3>3. versions' = [versions EXCEPT ![j] = s]
      BY <1>7, <2>2
    <3>4. outcome[j][build] = "documents" /\ \A i \in 1..n : old[i] # build
      BY <1>7, <2>2
    <3> HIDE DEF s, n
    <3>5. \A i \in 1..Len(s) : i = n + 1 \/ i \in 1..n
      BY <3>2
    <3>6. \A i, k \in 1..Len(s) : s[i] = s[k] => i = k
      BY <3>1, <3>2, <3>4, <3>5, SMTT(30) DEF n
    <3>7. \A i \in 1..Len(s) : outcome[j][s[i]] = "documents"
      BY <3>1, <3>2, <3>4, <3>5, SMTT(30) DEF n
    <3>8. /\ versions' \in [BeepJobs -> Seq(Builds)] /\ versions'[j] = s
          /\ \A k \in BeepJobs \ {j} : versions'[k] = versions[k]
      BY <1>1, <1>2, <3>2, <3>3
    <3> HIDE DEF old
    <3> QED  BY <3>6, <3>7, <3>8 DEF EachBuildStoresOnce, ParsingInv
  <2> QED  BY <2>1, <2>2
<1>9. GivenUpAfterMaxAttempts'
  BY <1>4 DEF ParsingInv, GivenUpAfterMaxAttempts
<1> QED  BY <1>3, <1>4, <1>6, <1>8, <1>9 DEF j

LEMMA StepCommit ==
    ASSUME ParsingInv, NEW p \in Procs, CommitStore(p) \/ StoreFails(p) PROVE ParsingInv'
<1>1. /\ UNCHANGED <<failures, outcome, build, cooling, beeperVars>>
      /\ proc[p].at \in {"load", "commit"}
      /\ \/ /\ proc[p].at = "commit" /\ Insertable(p) /\ WriteDocuments(p)
            /\ Advance(p) \/ Go(p, "failure")
         \/ UNCHANGED <<status, versions, empties>> /\ Go(p, "failure")
  BY DEF CommitStore, StoreFails
<1>2. troubles' \in 0..MaxTroubles
  BY ParsingAssumption DEF CommitStore, StoreFails, Trouble, ParsingInv, ParsingTypeOK
<1>3. CASE UNCHANGED <<status, versions, empties>> /\ Go(p, "failure")
  BY <1>1, <1>2, <1>3, StepFails DEF db
<1>4. CASE /\ proc[p].at = "commit" /\ Insertable(p) /\ WriteDocuments(p)
           /\ Advance(p) \/ Go(p, "failure")
  <2>1. PICK r \in Process :
               /\ proc' = [proc EXCEPT ![p] = r]
               /\ r.at \in {"load", "idle", "end", "failure"} /\ (r.at \in Busy => r.todo # <<>>)
               /\ r.reparse = proc[p].reparse
               /\ \A i, k \in 1..Len(r.todo) : r.todo[i] = r.todo[k] => i = k
               /\ \A i \in 1..Len(r.todo) : r.todo[i] \in Pending(p)
    BY <1>4, LeavesJob DEF Busy
  <2>2. /\ status' \in [BeepJobs -> Statuses] /\ versions' \in [BeepJobs -> Seq(Builds)]
        /\ empties' \in [BeepJobs -> SUBSET Builds]
        /\ EachBuildStoresOnce' /\ GivenUpAfterMaxAttempts'
        /\ \A j \in BeepJobs : \/ status'[j] = status[j]
                               \/ j = Job(p) /\ status'[j] \notin {"absent", "IMPORTED"}
    BY <1>1, <1>4, Written
  <2>3. proc' \in [Procs -> Process]
    BY <2>1, ProcTypes
  <2>4. ParsingTypeOK'
    BY <1>1, <1>2, <2>2, <2>3 DEF ParsingInv, ParsingTypeOK, Process
  <2> QED  BY <1>1, <1>4, <2>1, <2>2, <2>4, Settles DEF Busy
<1> QED  BY <1>1, <1>3, <1>4

-----------------------------------------------------------------------------
(* record_failure: the race of two counts.                                 *)

LEMMA StepCount ==
    ASSUME ParsingInv, NEW p \in Procs, CountFailures(p) PROVE ParsingInv'
<1>1. /\ ParsingTypeOK /\ proc \in [Procs -> Process] /\ proc[p] \in Process
      /\ FutureUntried /\ \A q \in Procs : ProcInv(q)
      /\ build \in Builds /\ failures \in [BeepJobs -> [Builds -> Nat]]
      /\ proc[p].at = "failure"
      /\ UNCHANGED <<status, versions, empties, failures, outcome, build, cooling, troubles, beeperVars>>
  BY TypeProc DEF ParsingInv, ParsingTypeOK, CountFailures, db
<1> DEFINE f == failures[Job(p)][build]
           r == [proc[p] EXCEPT !.at = "record", !.count = f + 1]
<1>2. Job(p) \in BeepJobs /\ f \in Nat
  BY <1>1, JobAtHand DEF Busy
<1>3. /\ r \in Process /\ r.at = "record" /\ r.count = f + 1
      /\ r.todo = proc[p].todo /\ r.reparse = proc[p].reparse
      /\ proc' = [proc EXCEPT ![p] = r]
  <2>1. proc' = [proc EXCEPT ![p] = r]
    BY <1>1 DEF CountFailures
  <2> HIDE DEF f
  <2>2. r \in Process
    <3>1. "record" \in Busy \cup {"down", "idle", "end"} /\ f + 1 \in Nat
      BY <1>2 DEF Busy
    <3> QED  BY <1>1, <3>1 DEF Process
  <2>3. /\ r.at = "record" /\ r.count = f + 1
        /\ r.todo = proc[p].todo /\ r.reparse = proc[p].reparse
    BY <1>1 DEF Process
  <2> QED  BY <2>1, <2>2, <2>3
<1> HIDE DEF r
<1>4. /\ proc' \in [Procs -> Process] /\ proc'[p] = r
      /\ \A q \in Procs \ {p} : proc'[q] = proc[q]
  BY <1>1, <1>3, Change
<1>5. ParsingTypeOK'
  BY <1>1, <1>4 DEF ParsingTypeOK, Process
<1>6. PICK q \in Procs : q # p /\ Procs = {p, q} /\ RaceInv(p, q) /\ RaceInv(q, p)
  BY Partner DEF ParsingInv
<1>7. /\ Job(p)' = Job(p) /\ Job(q)' = Job(q)
      /\ Pending(p)' = Pending(p) /\ Pending(q)' = Pending(q)
  BY <1>3, <1>4, <1>6 DEF Job, Pending
<1>8. ProcInv(p)'
  BY <1>1, <1>2, <1>3, <1>4, <1>7 DEF ProcInv, Busy
<1>9. ProcInv(q)'
  <2>1. \A j \in BeepJobs : failures'[j][build] \in Nat /\ failures'[j][build] >= failures[j][build]
    BY <1>1
  <2> QED  BY <1>1, <1>4, <1>6, <2>1, OtherProcess
<1>10. RaceInv(p, q)'
  <2>1. /\ f + 1 < MaxAttempts => f <= MaxAttempts /\ f # MaxAttempts
    BY <1>2, ParsingAssumption
  <2>2. /\ proc'[p].count = f + 1 /\ failures'[Job(p)'][build'] = f
    BY <1>1, <1>3, <1>4, <1>7
  <2> HIDE DEF f
  <2> QED  BY <2>1, <2>2 DEF RaceInv
<1>11. RaceInv(q, p)'
  <2>1. proc'[q] = proc[q] /\ UNCHANGED <<failures, build, status>>
    BY <1>1, <1>4, <1>6
  <2>2. Job(q)' = Job(p)' => proc'[p].count = failures'[Job(q)'][build'] + 1
    BY <1>1, <1>3, <1>4, <1>7
  <2> QED  BY <1>6, <1>7, <2>1, <2>2 DEF RaceInv
<1>12. RaceInv("service", "operator")' /\ RaceInv("operator", "service")'
  BY <1>6, <1>10, <1>11, BothRaces
<1>13. ReparseAlone' /\ BeepInv' /\ OfferedIsAnnounced'
  BY <1>1, <1>3, Moves
<1>14. EachBuildStoresOnce' /\ GivenUpAfterMaxAttempts' /\ FutureUntried'
  BY <1>1 DEF ParsingInv, EachBuildStoresOnce, GivenUpAfterMaxAttempts, FutureUntried
<1> QED  BY <1>5, <1>6, <1>8, <1>9, <1>12, <1>13, <1>14 DEF ParsingInv

LEMMA StepRecord ==
    ASSUME ParsingInv, NEW p \in Procs, RecordFailure(p) PROVE ParsingInv'
<1> DEFINE j == Job(p)
           f == failures[j][build]
           c == proc[p].count
<1>1. /\ ParsingTypeOK /\ proc \in [Procs -> Process] /\ proc[p] \in Process
      /\ FutureUntried /\ GivenUpAfterMaxAttempts /\ EachBuildStoresOnce
      /\ \A q \in Procs : ProcInv(q)
      /\ build \in Builds /\ failures \in [BeepJobs -> [Builds -> Nat]]
      /\ status \in [BeepJobs -> Statuses] /\ cooling \subseteq BeepJobs
  BY TypeProc DEF ParsingInv, ParsingTypeOK
<1>2. /\ proc[p].at = "record" /\ Advance(p)
      /\ status' = [status EXCEPT ![j] = AfterFailure(c)]
      /\ failures' = [failures EXCEPT ![j][build] = @ + 1]
      /\ cooling' = cooling \cup {j}
      /\ UNCHANGED <<versions, empties, outcome, build, troubles, beeperVars>>
  BY DEF RecordFailure
<1>3. j \in BeepJobs /\ j \in Pending(p) /\ f \in Nat
  BY <1>1, <1>2, JobAtHand DEF Busy
<1>4. c \in Nat /\ c <= f + 1 /\ MaxAttempts \in Nat
  BY <1>1, <1>2, ParsingAssumption DEF Process, ProcInv
<1>5. /\ failures' \in [BeepJobs -> [Builds -> Nat]]
      /\ failures'[j][build] = f + 1
      /\ \A b \in Builds \ {build} : failures'[j][b] = failures[j][b]
      /\ \A k \in BeepJobs \ {j} : failures'[k] = failures[k]
  <2> DEFINE row == [failures[j] EXCEPT ![build] = f + 1]
  <2>1. failures' = [failures EXCEPT ![j] = row]
    BY <1>1, <1>2, <1>3
  <2>2. /\ row \in [Builds -> Nat] /\ row[build] = f + 1
        /\ \A b \in Builds \ {build} : row[b] = failures[j][b]
    BY <1>1, <1>3
  <2> HIDE DEF row, j, f
  <2> QED  BY <1>1, <1>3, <2>1, <2>2
<1> HIDE DEF j, f, c
<1>6. /\ AfterFailure(c) \in {"PARSE_FAILED", "PARSE_RETRY"}
      /\ AfterFailure(c) = "PARSE_FAILED" <=> c >= MaxAttempts
  BY DEF AfterFailure
<1>7. /\ status' \in [BeepJobs -> Statuses]
      /\ status'[j] = AfterFailure(c)
      /\ \A k \in BeepJobs \ {j} : status'[k] = status[k]
  BY <1>1, <1>2, <1>3, <1>6 DEF Statuses
<1>8. PICK r \in Process :
               /\ proc' = [proc EXCEPT ![p] = r]
               /\ r.at \in {"load", "idle", "end"} /\ (r.at = "load" => r.todo # <<>>)
               /\ r.reparse = proc[p].reparse /\ r.todo = Tail(proc[p].todo)
               /\ \A i, k \in 1..Len(r.todo) : r.todo[i] = r.todo[k] => i = k
               /\ \A i \in 1..Len(r.todo) : r.todo[i] \in Pending(p) /\ r.todo[i] # j
  BY <1>1, <1>2, Advanced DEF Busy, j
<1>9. /\ proc' \in [Procs -> Process] /\ proc'[p] = r
      /\ \A q \in Procs \ {p} : proc'[q] = proc[q]
  BY <1>1, <1>8, Change
<1>10. ParsingTypeOK'
  <2>1. cooling' \subseteq BeepJobs
    BY <1>1, <1>2, <1>3
  <2> QED  BY <1>1, <1>2, <1>5, <1>7, <1>9, <2>1 DEF ParsingTypeOK, Process
<1>11. PICK q \in Procs : q # p /\ Procs = {p, q} /\ RaceInv(p, q) /\ RaceInv(q, p)
  BY Partner DEF ParsingInv
<1>12. c < MaxAttempts => f <= MaxAttempts
  BY <1>2, <1>11 DEF RaceInv, j, f, c
<1>13. GivenUpAfterMaxAttempts'
  <2>1. /\ status'[j] = "PARSE_FAILED" => failures'[j][build] >= MaxAttempts
        /\ status'[j] = "PARSE_RETRY" => failures'[j][build] <= MaxAttempts + 1
    BY <1>3, <1>4, <1>5, <1>6, <1>7, <1>12
  <2> QED  BY <1>1, <1>2, <1>5, <1>7, <2>1 DEF GivenUpAfterMaxAttempts
<1>14. \A k \in BeepJobs : failures'[k][build] \in Nat /\ failures'[k][build] >= failures[k][build]
  <2>1. \A k \in BeepJobs : failures'[k][build] = failures[k][build] \/ (k = j /\ failures'[k][build] = f + 1)
    BY <1>5
  <2>2. \A k \in BeepJobs : failures[k][build] \in Nat
    BY <1>1
  <2> QED  BY <1>3, <2>1, <2>2 DEF f
<1>15. \A k \in BeepJobs : status[k] # "absent" => status'[k] # "absent"
  BY <1>6, <1>7
<1>16. ProcInv(q)'
  BY <1>1, <1>2, <1>9, <1>11, <1>14, <1>15, OtherProcess
<1>17. \A k \in Pending(p) : k \in BeepJobs /\ status[k] # "absent"
  <2>1. proc[p].todo \in Seq(BeepJobs)
    BY <1>1 DEF Process
  <2>2. \A i \in 1..Len(proc[p].todo) : proc[p].todo[i] \in BeepJobs
    BY <2>1
  <2> QED  BY <1>1, <2>2 DEF Pending, ProcInv
<1>18. ProcInv(p)'
  BY <1>8, <1>9, <1>15, <1>17 DEF ProcInv, Busy
<1>19. Pending(p)' \subseteq Pending(p) \ {j}
  <2>1. Pending(p)' = {r.todo[i] : i \in 1..Len(r.todo)}
    BY <1>9 DEF Pending
  <2> QED  BY <1>8, <2>1
<1>20. RaceInv(q, p)'
  <2> SUFFICES ASSUME proc[q].at = "record" PROVE RaceInv(q, p)'
    BY <1>9, <1>11 DEF RaceInv
  <2> DEFINE k == Job(q)
             d == proc[q].count
  <2>1. k \in BeepJobs /\ d \in Nat /\ Job(q)' = k /\ proc'[q] = proc[q]
    BY <1>1, <1>9, <1>11, JobAtHand DEF Busy, Process, Job
  <2>2. CASE k # j
    <3>1. failures'[k] = failures[k] /\ status'[k] = status[k]
      BY <1>5, <1>7, <2>1, <2>2
    <3> QED  BY <1>2, <1>8, <1>9, <1>11, <1>19, <2>1, <3>1 DEF RaceInv
  <2>3. CASE k = j
    <3>1. /\ d < MaxAttempts => f <= MaxAttempts /\ f # MaxAttempts
          /\ c = f + 1 \/ d = f + 1
      BY <1>2, <1>3, <1>11, <2>3 DEF RaceInv, f, c, j
    <3>2. d < MaxAttempts => f + 1 <= MaxAttempts /\ (f + 1 = MaxAttempts => status'[j] = "PARSE_FAILED")
      BY <1>3, <1>4, <1>6, <1>7, <2>1, <3>1
    <3>3. j \notin Pending(p)'
      BY <1>19
    <3> QED  BY <1>2, <1>5, <1>8, <1>9, <2>1, <2>3, <3>2, <3>3 DEF RaceInv
  <2> QED  BY <2>2, <2>3
<1>21. RaceInv(p, q)'
  BY <1>8, <1>9, NoRace
<1>22. RaceInv("service", "operator")' /\ RaceInv("operator", "service")'
  BY <1>11, <1>20, <1>21, BothRaces
<1>23. ReparseAlone' /\ BeepInv' /\ OfferedIsAnnounced'
  <2>1. \A k \in BeepJobs : status'[k] = "IMPORTED" => status[k] \in {"IMPORTED", "absent"}
    BY <1>6, <1>7
  <2>2. proc[p].at # "down" /\ r.at \notin {"store", "commit"}
    BY <1>2, <1>8
  <2> QED  BY <1>2, <1>8, <2>1, <2>2, Moves
<1>24. FutureUntried' /\ EachBuildStoresOnce'
  <2>1. build \in Nat /\ \A b \in Builds : b > build => b # build
    BY <1>1, BuildsAreNumbers
  <2> QED  BY <1>1, <1>2, <1>3, <1>5, <2>1, SMTT(30) DEF FutureUntried, EachBuildStoresOnce
<1> QED
  BY <1>10, <1>11, <1>13, <1>16, <1>18, <1>22, <1>23, <1>24 DEF ParsingInv

-----------------------------------------------------------------------------
(* The world: ingestion, the clock, an upgrade, the notifications.         *)

LEMMA StepWorld ==
    ASSUME ParsingInv, NEW j \in BeepJobs, Import(j) \/ Elapse(j) PROVE ParsingInv'
<1>1. /\ ParsingTypeOK /\ BeepInv /\ OfferedIsAnnounced /\ \A q \in Procs : ProcInv(q)
      /\ status \in [BeepJobs -> Statuses] /\ cooling \subseteq BeepJobs
      /\ build \in Builds /\ failures \in [BeepJobs -> [Builds -> Nat]]
  BY DEF ParsingInv, ParsingTypeOK
<1>2. /\ UNCHANGED <<versions, empties, failures, outcome, build, troubles, proc, beeperVars>>
      /\ cooling' \subseteq BeepJobs
      /\ \/ status' = status
         \/ status[j] = "absent" /\ status' = [status EXCEPT ![j] = "IMPORTED"]
  BY <1>1 DEF Import, Elapse, db
<1>3. /\ status' \in [BeepJobs -> Statuses]
      /\ \A k \in BeepJobs : status'[k] = status[k] \/ (status[k] = "absent" /\ status'[k] = "IMPORTED")
  <2>1. status \in [BeepJobs -> Statuses] /\ "IMPORTED" \in Statuses
    BY <1>1 DEF Statuses
  <2>2. CASE status' = status
    BY <2>1, <2>2
  <2>3. CASE status[j] = "absent" /\ status' = [status EXCEPT ![j] = "IMPORTED"]
    BY <2>1, <2>3
  <2> QED  BY <1>2, <2>2, <2>3
<1>4. ParsingTypeOK'
  BY <1>1, <1>2, <1>3 DEF ParsingTypeOK
<1>5. BeepInv'
  BY <1>1, <1>2, UnchangedBeeper
<1>6. OfferedIsAnnounced'
  <2>1. UNCHANGED <<queued, full>> /\ \A k \in BeepJobs : queued[k] \in Nat
    BY <1>1, <1>2 DEF beeperVars, BeepInv
  <2>2. \A k \in BeepJobs : queued'[k] >= queued[k]
    BY <2>1
  <2> QED  BY <1>1, <1>2, <1>3, <1>5, <2>1, <2>2, StillAnnounced
<1>7. \A q \in Procs : ProcInv(q)'
  <2>1. \A k \in BeepJobs : failures'[k][build] \in Nat /\ failures'[k][build] >= failures[k][build]
    BY <1>1, <1>2
  <2> QED  BY <1>1, <1>2, <1>3, <2>1, OtherProcess
<1>8. ASSUME NEW p \in Procs, NEW q \in Procs, RaceInv(p, q) PROVE RaceInv(p, q)'
  <2>1. Job(p)' = Job(p) /\ Job(q)' = Job(q) /\ Pending(q)' = Pending(q)
    BY <1>2 DEF Job, Pending
  <2>2. proc[p].at = "record" => Job(p) \in BeepJobs /\ status'[Job(p)] = status[Job(p)]
    BY <1>1, <1>3, JobAtHand DEF Busy
  <2> QED  BY <1>2, <1>8, <2>1, <2>2 DEF RaceInv
<1>9. RaceInv("service", "operator")' /\ RaceInv("operator", "service")'
  BY <1>8 DEF ParsingInv, Procs
<1>10. EachBuildStoresOnce' /\ GivenUpAfterMaxAttempts' /\ ReparseAlone' /\ FutureUntried'
  BY <1>2, <1>3
  DEF ParsingInv, EachBuildStoresOnce, GivenUpAfterMaxAttempts, ReparseAlone, FutureUntried
<1> QED  BY <1>4, <1>5, <1>6, <1>7, <1>9, <1>10 DEF ParsingInv

LEMMA StepUpgrade ==
    ASSUME ParsingInv, Upgrade PROVE ParsingInv'
<1>1. /\ \A p \in Procs : proc[p].at = "down"
      /\ build + 1 \in Builds /\ build' = build + 1 /\ cooling' = {}
      /\ UNCHANGED <<status, versions, empties, failures, outcome, troubles, proc, beeperVars>>
  BY DEF Upgrade, db
<1>2. build \in Nat /\ \A b \in Builds : b \in Nat
  BY BuildsAreNumbers DEF ParsingInv, ParsingTypeOK
<1>3. ParsingTypeOK'
  BY <1>1 DEF ParsingInv, ParsingTypeOK
<1>4. \A p \in Procs : ProcInv(p)'
  <2> SUFFICES ASSUME NEW p \in Procs PROVE ProcInv(p)'
    OBVIOUS
  <2>1. ProcInv(p) /\ proc[p].at = "down" /\ UNCHANGED <<proc, status>>
    BY <1>1 DEF ParsingInv
  <2> QED  BY <2>1 DEF ProcInv, Busy
<1>5. RaceInv("service", "operator")' /\ RaceInv("operator", "service")'
  BY <1>1, NoRace DEF Procs
<1>6. OfferedIsAnnounced'
  BY <1>1, NothingOffered DEF Procs
<1>7. FutureUntried'
  BY <1>1, <1>2 DEF ParsingInv, FutureUntried
<1>8. \A j \in BeepJobs : failures[j][build + 1] = 0
  BY <1>1, <1>2 DEF ParsingInv, FutureUntried
<1>9. GivenUpAfterMaxAttempts'
  BY <1>1, <1>8, ParsingAssumption DEF ParsingInv, GivenUpAfterMaxAttempts
<1>10. EachBuildStoresOnce' /\ ReparseAlone' /\ BeepInv'
  BY <1>1, UnchangedBeeper DEF ParsingInv, EachBuildStoresOnce, ReparseAlone
<1> QED  BY <1>3, <1>4, <1>5, <1>6, <1>7, <1>9, <1>10 DEF ParsingInv

\* The notifications change only what the dispatcher and the watcher hold.
LEMMA StepBeeper ==
    ASSUME ParsingInv, UNCHANGED parsingVars, BeepInv',
           \A j \in BeepJobs : /\ queued'[j] >= queued[j]
                               /\ j \in full => j \in full' \/ queued'[j] > 0
    PROVE  ParsingInv'
<1>1. UNCHANGED <<status, versions, empties, failures, outcome, build, cooling, troubles, proc>>
  BY DEF parsingVars
<1>2. OfferedIsAnnounced'
  BY <1>1, StillAnnounced DEF ParsingInv
<1>3. ParsingTypeOK'
  BY <1>1 DEF ParsingInv, ParsingTypeOK
<1>4. /\ \A p \in Procs : ProcInv(p)'
      /\ RaceInv("service", "operator")' /\ RaceInv("operator", "service")'
  BY <1>1 DEF ParsingInv, ProcInv, RaceInv, Job, Pending
<1>5. EachBuildStoresOnce' /\ GivenUpAfterMaxAttempts' /\ ReparseAlone' /\ FutureUntried'
  BY <1>1 DEF ParsingInv, EachBuildStoresOnce, GivenUpAfterMaxAttempts, ReparseAlone, FutureUntried
<1> QED  BY <1>2, <1>3, <1>4, <1>5 DEF ParsingInv

LEMMA StepNotify ==
    ASSUME ParsingInv, Notify \/ \E j \in BeepJobs : Receive(j) /\ UNCHANGED parsingVars
    PROVE  ParsingInv'
<1>1. /\ UNCHANGED parsingVars /\ BeepInv /\ queued \in [BeepJobs -> Nat]
      /\ bell \in Seq(BeepJobs)
  BY DEF Notify, ParsingInv, BeepInv
<1>2. CASE \E j \in BeepJobs : WatchJob(j) /\ Enqueue(j)
  BY <1>1, <1>2, Enqueued, StepBeeper
<1>3. CASE UNCHANGED <<recent, queued, full>> /\ bell' \in Seq(BeepJobs)
  <2>1. BeepInv' /\ \A j \in BeepJobs : queued'[j] >= queued[j]
    BY <1>1, <1>3 DEF BeepInv
  <2> QED  BY <1>1, <1>3, <2>1, StepBeeper
<1>4. CASE \E j \in BeepJobs : WatchJob(j)
  BY <1>1, <1>2, <1>3, <1>4 DEF WatchJob
<1>5. CASE ForgetGone \/ SendBeep \/ \E j \in BeepJobs : Receive(j)
  <2>1. /\ UNCHANGED <<recent, queued, full>>
        /\ bell' = bell \/ (bell # <<>> /\ bell' = Tail(bell))
    BY <1>5 DEF ForgetGone, SendBeep, Receive
  <2>2. bell # <<>> => Tail(bell) \in Seq(BeepJobs)
    BY <1>1, HeadOfList
  <2> QED  BY <1>1, <1>3, <2>1, <2>2
<1> QED  BY <1>4, <1>5 DEF Notify, Watch

-----------------------------------------------------------------------------
LEMMA InvInit == ParsingInit => ParsingInv
<1> SUFFICES ASSUME ParsingInit PROVE ParsingInv
  OBVIOUS
<1>1. /\ status = [j \in BeepJobs |-> "absent"] /\ versions = [j \in BeepJobs |-> <<>>]
      /\ empties = [j \in BeepJobs |-> {}] /\ failures = [j \in BeepJobs |-> [b \in Builds |-> 0]]
      /\ outcome \in [BeepJobs -> [Builds -> {"documents", "empty", "error"}]]
      /\ build = 1 /\ cooling = {} /\ troubles = 0
      /\ bell = <<>> /\ recent = <<>> /\ queued = [j \in BeepJobs |-> 0]
  BY DEF ParsingInit, BeeperInit
<1>2. /\ proc \in [Procs -> Process]
      /\ \A p \in Procs : /\ proc[p].at \in {"down", "idle"} /\ proc[p].todo = <<>>
                           /\ ~proc[p].reparse
  <2>1. <<>> \in Seq(BeepJobs) /\ <<>> \in Seq(Builds)
    OBVIOUS
  <2>2. /\ Up \in Process /\ Up.at = "idle" /\ Up.todo = <<>> /\ ~Up.reparse
        /\ Down \in Process /\ Down.at = "down" /\ Down.todo = <<>> /\ ~Down.reparse
    BY <2>1 DEF Up, Down, Process
  <2>3. proc = [p \in Procs |-> IF p = "service" THEN Up ELSE Down]
    BY DEF ParsingInit
  <2> HIDE DEF Up, Down
  <2> QED  BY <2>2, <2>3
<1>3. ParsingTypeOK
  BY <1>1, <1>2, BuildsAreNumbers, ParsingAssumption DEF ParsingTypeOK, Process, Statuses
<1>4. \A p \in Procs : ProcInv(p)
  BY <1>2 DEF ProcInv, Busy
<1>5. /\ RaceInv("service", "operator") /\ RaceInv("operator", "service")
      /\ ReparseAlone /\ OfferedIsAnnounced
  BY <1>2 DEF RaceInv, ReparseAlone, OfferedIsAnnounced, Procs
<1>6. EachBuildStoresOnce /\ GivenUpAfterMaxAttempts /\ FutureUntried /\ BeepInv
  BY <1>1 DEF EachBuildStoresOnce, GivenUpAfterMaxAttempts, FutureUntried, BeepInv
<1> QED  BY <1>3, <1>4, <1>5, <1>6 DEF ParsingInv

LEMMA InvNext == ParsingInv /\ [ParsingNext]_allVars => ParsingInv'
<1> SUFFICES ASSUME ParsingInv, [ParsingNext]_allVars PROVE ParsingInv'
  OBVIOUS
<1>1. CASE \E j \in BeepJobs : Import(j) \/ Elapse(j)
  BY <1>1, StepWorld
<1>2. CASE Notify \/ \E j \in BeepJobs : Receive(j) /\ UNCHANGED parsingVars
  BY <1>2, StepNotify
<1>3. CASE StopService \/ StartService \/ EndOnce \/ \E reparse \in BOOLEAN : RunOnce(reparse)
  BY <1>3, StepStartStop
<1>4. CASE Upgrade
  BY <1>4, StepUpgrade
<1>5. ASSUME NEW p \in Procs, Worker(p) \/ StoreFails(p) \/ RecordFails(p) PROVE ParsingInv'
  BY <1>5, StepPending, StepLoad, StepBeginStore, StepCommit, StepCount, StepRecord, StepRecordFails
  DEF Worker
<1>6. CASE UNCHANGED allVars
  <2>1. UNCHANGED parsingVars /\ UNCHANGED beeperVars
    BY <1>6 DEF allVars
  <2>2. UNCHANGED <<queued, full>> /\ BeepInv' /\ \A j \in BeepJobs : queued[j] \in Nat
    BY <2>1, UnchangedBeeper DEF beeperVars, ParsingInv, BeepInv
  <2>3. \A j \in BeepJobs : queued'[j] >= queued[j]
    BY <2>2
  <2> QED  BY <2>1, <2>2, <2>3, StepBeeper
<1> QED  BY <1>1, <1>2, <1>3, <1>4, <1>5, <1>6 DEF ParsingNext

(* The inductive invariant of the parser worker: whatever the service, a   *)
(* one-shot run and the spool watcher do at once, and wherever a commit    *)
(* fails, goes unacknowledged or the service is stopped.                   *)
THEOREM ParsingInvariant == ParsingSpec => []ParsingInv
BY InvInit, InvNext, PTL DEF ParsingSpec

(* store_documents: each build appends at most one version to a job's      *)
(* chain, and only of what it parsed, because the unique keys refuse a     *)
(* chain that is not the one the transaction read.                         *)
THEOREM StoresOnce == ParsingSpec => []EachBuildStoresOnce
<1>1. ParsingInv => EachBuildStoresOnce
  BY DEF ParsingInv
<1> QED  BY <1>1, ParsingInvariant, PTL

(* record_failure: PARSE_FAILED stands for MaxAttempts recorded failures,  *)
(* and the race of two counts costs one retry more, never two.             *)
THEOREM GivesUp == ParsingSpec => []GivenUpAfterMaxAttempts
<1>1. ParsingInv => GivenUpAfterMaxAttempts
  BY DEF ParsingInv
<1> QED  BY <1>1, ParsingInvariant, PTL

(* run_once offers a job to the dispatcher before it stores its documents. *)
THEOREM Announces == ParsingSpec => []OfferedIsAnnounced
<1>1. ParsingInv => OfferedIsAnnounced
  BY DEF ParsingInv
<1> QED  BY <1>1, ParsingInvariant, PTL

=============================================================================
