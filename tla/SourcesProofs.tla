---------------------------- MODULE SourcesProofs ----------------------------
(***************************************************************************)
(* The adapters of the legacy sources: the scan of a timeline, and the     *)
(* invariants of RchSource and PrintProxySource, for every set of jobs,    *)
(* timelines and publications.                                             *)
(***************************************************************************)
EXTENDS PrintProxySource, RchSource, FiniteSetTheorems, WellFoundedInduction, TLAPS

-----------------------------------------------------------------------------
(* Induction over the records of a timeline, by the least counterexample.  *)

(* A set of naturals that is not empty has a least element.                  *)
LEMMA LeastNumber ==
    ASSUME NEW T, T \subseteq Nat, T # {}
    PROVE  \E n \in T : \A m \in T : n <= m
<1>1. PICK n \in T : \A m \in T : ~(<<m, n>> \in OpToRel(<, Nat))
  BY WFMin, NatLessThanWellFounded
<1>2. \A m \in T : ~(m < n)
  BY <1>1 DEF OpToRel
<1> QED  BY <1>2

(* What holds of 0 and passes on up to N holds up to N.                      *)
LEMMA Upwards ==
    ASSUME NEW T, NEW N \in Nat, 0 \in T, \A n \in 0..(N - 1) : n \in T => n + 1 \in T
    PROVE  0..N \subseteq T
<1> SUFFICES ASSUME (0..N) \ T # {}  PROVE FALSE
  OBVIOUS
<1>0. (0..N) \ T \subseteq Nat
  OBVIOUS
<1>1. PICK n \in (0..N) \ T : \A m \in (0..N) \ T : n <= m
  BY <1>0, LeastNumber
<1>2. n # 0 /\ n - 1 \in 0..(N - 1) /\ n - 1 \in T
  BY <1>1
<1> QED  BY <1>2

-----------------------------------------------------------------------------
(* The scan of a timeline.                                                 *)

Directions == {"request", "response"}
ScanStates == [ok : BOOLEAN, seq : Nat, off : [Directions -> Nat], sess : [Directions -> SUBSET Nat]]

NextScan(t, a, r) ==
    IF a.ok /\ Continues(t, a, r) THEN AfterRecord(a, r) ELSE [a EXCEPT !.ok = FALSE]

ScanEquation(t, g, n) ==
    g = [k \in 0..n |-> IF k = 0 THEN Begin ELSE NextScan(t, g[k - 1], t.records[k])]

(* The recursive definition of Scan has a solution.                          *)
LEMMA ScanExists ==
    ASSUME NEW t, NEW N \in Nat
    PROVE  \E g : ScanEquation(t, g, N)
<1> DEFINE T == {n \in Nat : \E g : ScanEquation(t, g, n)}
<1>1. 0 \in T
  <2> DEFINE g == [k \in 0..0 |-> Begin]
  <2>1. ScanEquation(t, g, 0)
    BY DEF ScanEquation
  <2> QED  BY <2>1
<1>2. ASSUME NEW n \in 0..(N - 1), n \in T
      PROVE  n + 1 \in T
  <2>1. PICK g : ScanEquation(t, g, n)
    BY <1>2
  <2> DEFINE h == [k \in 0..(n + 1) |-> IF k = n + 1 THEN NextScan(t, g[n], t.records[n + 1]) ELSE g[k]]
  <2>2. \A k \in 0..n : g[k] = IF k = 0 THEN Begin ELSE NextScan(t, g[k - 1], t.records[k])
    BY <2>1 DEF ScanEquation
  <2>3. ASSUME NEW k \in 0..(n + 1)
        PROVE  h[k] = IF k = 0 THEN Begin ELSE NextScan(t, h[k - 1], t.records[k])
    BY <2>2
  <2>4. ScanEquation(t, h, n + 1)
    BY <2>3 DEF ScanEquation
  <2> QED  BY <2>4
<1>3. 0..N \subseteq T
  BY <1>1, <1>2, Upwards
<1> QED  BY <1>3

(* Scan takes the records one after the other.                               *)
LEMMA ScanSteps ==
    ASSUME NEW t, Len(t.records) \in Nat
    PROVE  ScanEquation(t, Scan(t), Len(t.records))
<1>1. \E g : ScanEquation(t, g, Len(t.records))
  BY ScanExists
<1>2. Scan(t) = CHOOSE g : ScanEquation(t, g, Len(t.records))
  BY DEF Scan, ScanEquation, NextScan
<1> QED  BY <1>1, <1>2

RecordAdded(a, r, c) ==
    /\ a.seq \in Nat /\ r.seq \in Nat /\ c.seq = r.seq
    /\ r.dir \in Directions /\ r.off \in Nat /\ r.len \in Nat /\ r.len > 0 /\ r.sess \in Nat
    /\ \A dir \in Directions : a.off[dir] \in Nat
    /\ c.off[r.dir] = r.off + r.len
    /\ c.sess[r.dir] = {r.sess + r.len}
    /\ \A dir \in Directions \ {r.dir} : c.off[dir] = a.off[dir] /\ c.sess[dir] = a.sess[dir]

(* The state after one more record.                                          *)
LEMMA AfterRecordFields ==
    ASSUME NEW a \in ScanStates, NEW r \in RchRecords, NEW c, c = AfterRecord(a, r)
    PROVE  c \in ScanStates /\ RecordAdded(a, r, c)
<1>1. /\ a.seq \in Nat /\ a.off \in [Directions -> Nat] /\ a.sess \in [Directions -> SUBSET Nat]
      /\ r.seq \in Nat /\ r.dir \in Directions /\ r.off \in Nat /\ r.len \in Nat /\ r.len > 0 /\ r.sess \in Nat
  BY DEF ScanStates, RchRecords, Directions
<1>2. r.off + r.len \in Nat /\ {r.sess + r.len} \in SUBSET Nat
  BY <1>1
<1>3. /\ [a.off EXCEPT ![r.dir] = r.off + r.len] \in [Directions -> Nat]
      /\ [a.sess EXCEPT ![r.dir] = {r.sess + r.len}] \in [Directions -> SUBSET Nat]
  BY <1>1, <1>2
<1>4. /\ c.ok = TRUE /\ c.seq = r.seq
      /\ c.off = [a.off EXCEPT ![r.dir] = r.off + r.len]
      /\ c.sess = [a.sess EXCEPT ![r.dir] = {r.sess + r.len}]
  BY DEF AfterRecord
<1>5. c \in ScanStates
  BY <1>1, <1>3 DEF AfterRecord, ScanStates
<1> QED  BY <1>1, <1>2, <1>4, <1>5 DEF RecordAdded

(* The states of the scan are typed.                                         *)
LEMMA ScanTypes ==
    ASSUME NEW t \in RchTimelines
    PROVE  /\ Len(t.records) \in Nat
           /\ \A i \in 1..Len(t.records) : t.records[i] \in RchRecords
           /\ RawSize(t) \in [Directions -> Nat]
           /\ \A n \in 0..Len(t.records) : Scan(t)[n] \in ScanStates
<1> DEFINE N == Len(t.records)
           T == {n \in Nat : Scan(t)[n] \in ScanStates}
<1>1. t.records \in Seq(RchRecords) /\ t.request \in Nat /\ t.response \in Nat
  BY RchAssumption
<1>2. N \in Nat /\ \A i \in 1..N : t.records[i] \in RchRecords
  BY <1>1
<1>3. RawSize(t) \in [Directions -> Nat]
  BY <1>1 DEF RawSize, Directions
<1>4. ScanEquation(t, Scan(t), N)
  BY <1>2, ScanSteps
<1>5. 0 \in T
  BY <1>2, <1>4 DEF ScanEquation, Begin, ScanStates, Directions
<1>6. ASSUME NEW n \in 0..(N - 1), n \in T
      PROVE  n + 1 \in T
  <2>1. Scan(t)[n + 1] = NextScan(t, Scan(t)[n], t.records[n + 1])
    BY <1>2, <1>4 DEF ScanEquation
  <2>2. Scan(t)[n] \in ScanStates /\ t.records[n + 1] \in RchRecords
    BY <1>2, <1>6
  <2>3. ASSUME NEW a \in ScanStates, NEW r \in RchRecords
        PROVE  AfterRecord(a, r) \in ScanStates /\ [a EXCEPT !.ok = FALSE] \in ScanStates
    BY AfterRecordFields DEF ScanStates
  <2> QED  BY <2>1, <2>2, <2>3 DEF NextScan
<1>7. 0..N \subseteq T
  BY <1>2, <1>5, <1>6, Upwards
<1> QED  BY <1>2, <1>3, <1>7

(* If the last state of the scan is good, every record continued the ones    *)
(* before it.                                                                *)
LEMMA ScanGood ==
    ASSUME NEW t \in RchTimelines, Scan(t)[Len(t.records)].ok
    PROVE  /\ Scan(t)[0] = Begin
           /\ \A n \in 1..Len(t.records) :
                 /\ Continues(t, Scan(t)[n - 1], t.records[n])
                 /\ Scan(t)[n] = AfterRecord(Scan(t)[n - 1], t.records[n])
<1> DEFINE N == Len(t.records)
           T == {k \in Nat : Scan(t)[N - k].ok}
<1>1. N \in Nat /\ \A n \in 0..N : Scan(t)[n] \in ScanStates
  BY ScanTypes
<1>2. ScanEquation(t, Scan(t), N)
  BY <1>1, ScanSteps
<1>3. Scan(t)[0] = Begin /\ \A n \in 1..N : Scan(t)[n] = NextScan(t, Scan(t)[n - 1], t.records[n])
  BY <1>1, <1>2, SMTT(30) DEF ScanEquation
<1>4. ASSUME NEW n \in 1..N, Scan(t)[n].ok
      PROVE  /\ Scan(t)[n - 1].ok
             /\ Continues(t, Scan(t)[n - 1], t.records[n])
             /\ Scan(t)[n] = AfterRecord(Scan(t)[n - 1], t.records[n])
  <2>1. Scan(t)[n - 1] \in ScanStates
    BY <1>1
  <2>2. ~[Scan(t)[n - 1] EXCEPT !.ok = FALSE].ok
    BY <2>1 DEF ScanStates
  <2> QED  BY <1>3, <1>4, <2>2 DEF NextScan
<1>5. 0 \in T
  BY <1>1
<1>6. ASSUME NEW k \in 0..(N - 1), k \in T
      PROVE  k + 1 \in T
  <2>1. N - k \in 1..N /\ N - k - 1 = N - (k + 1)
    BY <1>1
  <2> QED  BY <1>4, <1>6, <2>1
<1>7. 0..N \subseteq T
  BY <1>1, <1>5, <1>6, Upwards
<1>8. ASSUME NEW n \in 1..N
      PROVE  Scan(t)[n].ok
  <2>1. N - n \in 0..N /\ N - (N - n) = n
    BY <1>1
  <2> QED  BY <1>7, <2>1
<1> QED  BY <1>3, <1>4, <1>8

(* What the state after n records says about them.                           *)
Summarises(t, n) ==
    LET a == Scan(t)[n]
        R(i) == t.records[i]
    IN  /\ \A i \in 1..n : R(i).seq <= a.seq
        /\ t.complete =>
              /\ a.seq = n
              /\ \A i \in 1..n :
                    /\ R(i).off + R(i).len <= a.off[R(i).dir]
                    /\ \E x \in Nat : /\ a.sess[R(i).dir] = {x}
                                      /\ x + R(i).off = R(i).sess + a.off[R(i).dir]
              /\ \A dir \in Directions : \A b \in 0..(a.off[dir] - 1) :
                    \E i \in 1..n : R(i).dir = dir /\ R(i).off <= b /\ b < R(i).off + R(i).len

(* One more record.                                                          *)
LEMMA SummaryStep ==
    ASSUME NEW t, NEW n \in Nat, NEW a \in ScanStates, NEW c, NEW r \in RchRecords,
           a = Scan(t)[n], c = Scan(t)[n + 1], r = t.records[n + 1],
           \A i \in 1..n : t.records[i] \in RchRecords,
           Continues(t, a, r), c = AfterRecord(a, r), Summarises(t, n)
    PROVE  Summarises(t, n + 1)
<1>0. RecordAdded(a, r, c)
  BY AfterRecordFields, Zenon
<1>1. /\ a.seq \in Nat /\ r.seq \in Nat /\ c.seq = r.seq
      /\ r.dir \in Directions /\ r.off \in Nat /\ r.len \in Nat /\ r.len > 0 /\ r.sess \in Nat
      /\ \A dir \in Directions : a.off[dir] \in Nat
      /\ c.off[r.dir] = r.off + r.len
      /\ c.sess[r.dir] = {r.sess + r.len}
      /\ \A dir \in Directions \ {r.dir} : c.off[dir] = a.off[dir] /\ c.sess[dir] = a.sess[dir]
  BY <1>0, SMTT(30) DEF RecordAdded
<1>2. /\ a.seq < r.seq
      /\ t.complete => r.seq = a.seq + 1 /\ r.off = a.off[r.dir] /\ a.sess[r.dir] \subseteq {r.sess}
  BY <1>1, SMTT(30) DEF Continues
<1>3. ASSUME NEW i \in 1..(n + 1)
      PROVE  t.records[i].seq <= c.seq
  <2>1. i \in 1..n => t.records[i].seq <= a.seq /\ t.records[i].seq \in Nat
    BY DEF Summarises, RchRecords
  <2>2. i = n + 1 \/ i \in 1..n
    BY SMTT(30)
  <2> QED  BY <1>1, <1>2, <2>1, <2>2
<1>4. ASSUME t.complete  PROVE c.seq = n + 1
  BY <1>1, <1>2, <1>4, Zenon DEF Summarises
<1>5. ASSUME t.complete, NEW i \in 1..(n + 1)
      PROVE  /\ t.records[i].off + t.records[i].len <= c.off[t.records[i].dir]
             /\ \E x \in Nat : /\ c.sess[t.records[i].dir] = {x}
                               /\ x + t.records[i].off = t.records[i].sess + c.off[t.records[i].dir]
  <2>1. CASE i = n + 1
    <3>1. r.sess + r.len \in Nat /\ (r.sess + r.len) + r.off = r.sess + (r.off + r.len)
      BY <1>1
    <3>2. r.off + r.len <= r.off + r.len
      BY <1>1, SMTT(30)
    <3> QED  BY <1>1, <2>1, <3>1, <3>2
  <2>2. CASE i \in 1..n
    <3>0. PICK q : q = t.records[i]
      OBVIOUS
    <3>1. q.dir \in Directions /\ q.off \in Nat /\ q.len \in Nat /\ q.sess \in Nat
      BY <2>2, <3>0 DEF RchRecords, Directions
    <3>2. q.off + q.len <= a.off[q.dir]
      BY <1>5, <2>2, <3>0 DEF Summarises
    <3>3. PICK x \in Nat : a.sess[q.dir] = {x} /\ x + q.off = q.sess + a.off[q.dir]
      BY <1>5, <2>2, <3>0, SMTT(30) DEF Summarises
    <3>4. CASE q.dir # r.dir
      <4>1. c.off[q.dir] = a.off[q.dir] /\ c.sess[q.dir] = a.sess[q.dir]
        BY <1>1, <3>1, <3>4, SMTT(30)
      <4> QED  BY <3>0, <3>2, <3>3, <4>1
    <3>5. CASE q.dir = r.dir
      <4>1. a.off[q.dir] \in Nat /\ c.off[q.dir] = a.off[q.dir] + r.len
        BY <1>1, <1>2, <1>5, <3>5, SMTT(30)
      <4>2. r.sess = x
        BY <1>2, <1>5, <3>3, <3>5, SMTT(30)
      <4>5. c.sess[q.dir] = {x + r.len}
        BY <1>1, <3>5, <4>2, SMTT(30)
      <4>3. x + r.len \in Nat /\ (x + r.len) + q.off = q.sess + (a.off[q.dir] + r.len)
        BY <1>1, <3>1, <3>3, <4>1, SMTT(30)
      <4>4. q.off + q.len <= a.off[q.dir] + r.len
        BY <1>1, <3>1, <3>2, <4>1
      <4> QED  BY <3>0, <4>1, <4>3, <4>4, <4>5, SMTT(30)
    <3> QED  BY <3>4, <3>5
  <2> QED  BY <2>1, <2>2, SMTT(30)
<1>6. ASSUME t.complete, NEW dir \in Directions, NEW b \in 0..(c.off[dir] - 1)
      PROVE  \E i \in 1..(n + 1) : /\ t.records[i].dir = dir /\ t.records[i].off <= b
                                   /\ b < t.records[i].off + t.records[i].len
  <2>1. CASE b < a.off[dir]
    <3>1. b \in 0..(a.off[dir] - 1)
      BY <1>1, <2>1
    <3>2. \E i \in 1..n : /\ t.records[i].dir = dir /\ t.records[i].off <= b
                          /\ b < t.records[i].off + t.records[i].len
      BY <1>6, <3>1 DEF Summarises
    <3> QED  BY <3>2
  <2>2. CASE ~(b < a.off[dir])
    <3>1. dir = r.dir
      BY <1>1, <2>2, SMTT(30)
    <3>2. r.off <= b /\ b < r.off + r.len
      BY <1>1, <1>2, <1>6, <2>2, <3>1
    <3>3. n + 1 \in 1..(n + 1)
      OBVIOUS
    <3> QED  BY <3>1, <3>2, <3>3
  <2> QED  BY <2>1, <2>2
<1> QED  BY <1>3, <1>4, <1>5, <1>6, SMTT(30) DEF Summarises

(* Every state of an accepted scan summarises the records before it.         *)
LEMMA ScanSummarises ==
    ASSUME NEW t \in RchTimelines, Scan(t)[Len(t.records)].ok
    PROVE  \A n \in 0..Len(t.records) : Summarises(t, n)
<1> DEFINE N == Len(t.records)
           T == {n \in Nat : Summarises(t, n)}
<1>1. /\ N \in Nat /\ \A n \in 0..N : Scan(t)[n] \in ScanStates
      /\ \A i \in 1..N : t.records[i] \in RchRecords
  BY ScanTypes
<1>2. /\ Scan(t)[0] = Begin
      /\ \A n \in 1..N : /\ Continues(t, Scan(t)[n - 1], t.records[n])
                         /\ Scan(t)[n] = AfterRecord(Scan(t)[n - 1], t.records[n])
  BY ScanGood
<1>3. 0 \in T
  BY <1>2 DEF Summarises, Begin, Directions
<1>4. ASSUME NEW n \in 0..(N - 1), n \in T
      PROVE  n + 1 \in T
  <2>1. PICK a : a = Scan(t)[n]
    OBVIOUS
  <2>2. PICK c : c = Scan(t)[n + 1]
    OBVIOUS
  <2>3. PICK r : r = t.records[n + 1]
    OBVIOUS
  <2>4. a \in ScanStates /\ r \in RchRecords /\ Continues(t, a, r) /\ c = AfterRecord(a, r)
    BY <1>1, <1>2, <2>1, <2>2, <2>3
  <2>5. Summarises(t, n)
    BY <1>4
  <2>6. n \in Nat /\ n + 1 \in Nat /\ \A i \in 1..n : t.records[i] \in RchRecords
    BY <1>1
  <2>7. Summarises(t, n + 1)
    BY <2>1, <2>2, <2>3, <2>4, <2>5, <2>6, SummaryStep, Zenon
  <2> QED  BY <2>6, <2>7
<1>5. 0..N \subseteq T
  BY <1>1, <1>3, <1>4, Upwards
<1> QED  BY <1>5

(* An accepted timeline accounts for the RAW files (_parse_timeline).        *)
THEOREM AcceptedAccounts ==
    ASSUME NEW t \in RchTimelines, TimelineAccepted(t)
    PROVE  AccountsForRaw(t)
<1> DEFINE N == Len(t.records)
           Is == 1..N
           R(i) == t.records[i]
           S(n) == Scan(t)[n]
           Covers(i, dir, b) == R(i).dir = dir /\ b \in R(i).off..(R(i).off + R(i).len - 1)
<1>1. /\ S(N).ok /\ N = t.count
      /\ t.complete => S(N).off = RawSize(t)
  BY DEF TimelineAccepted
<1>2. /\ N \in Nat
      /\ \A i \in Is : R(i) \in RchRecords
      /\ RawSize(t) \in [Directions -> Nat]
      /\ \A n \in 0..N : S(n) \in ScanStates
  BY ScanTypes
<1>3. \A n \in 0..N : Summarises(t, n)
  BY <1>1, ScanSummarises
<1>4. \A i \in Is : Continues(t, S(i - 1), R(i))
  BY <1>1, ScanGood
<1>5. \A i \in Is : /\ R(i).seq \in Nat /\ R(i).dir \in Directions /\ R(i).off \in Nat
                    /\ R(i).len \in Nat /\ R(i).len > 0 /\ R(i).sess \in Nat
                    /\ S(i - 1).seq \in Nat
                    /\ S(i - 1).off[R(i).dir] \in Nat
  <2> SUFFICES ASSUME NEW i \in Is
               PROVE  /\ R(i).seq \in Nat /\ R(i).dir \in Directions /\ R(i).off \in Nat
                      /\ R(i).len \in Nat /\ R(i).len > 0 /\ R(i).sess \in Nat
                      /\ S(i - 1).seq \in Nat
                      /\ S(i - 1).off[R(i).dir] \in Nat
    OBVIOUS
  <2>1. R(i) \in RchRecords /\ S(i - 1) \in ScanStates
    BY <1>2
  <2>2. /\ R(i).seq \in Nat /\ R(i).dir \in Directions /\ R(i).off \in Nat
        /\ R(i).len \in Nat /\ R(i).len > 0 /\ R(i).sess \in Nat
    BY <2>1 DEF RchRecords, Directions
  <2>3. S(i - 1).seq \in Nat /\ S(i - 1).off \in [Directions -> Nat]
    BY <2>1 DEF ScanStates
  <2> QED  BY <2>2, <2>3
<1>6. \A i, j \in Is : i < j => R(i).seq < R(j).seq
  <2> SUFFICES ASSUME NEW i \in Is, NEW j \in Is, i < j
               PROVE  R(i).seq < R(j).seq
    OBVIOUS
  <2>1. R(i).seq <= S(j - 1).seq
    BY <1>2, <1>3 DEF Summarises
  <2>2. S(j - 1).seq < R(j).seq
    BY <1>4, <1>5 DEF Continues
  <2> QED  BY <1>5, <2>1, <2>2
<1>7. \A i \in Is : R(i).seq >= 1 /\ R(i).off + R(i).len <= RawSize(t)[R(i).dir]
  <2> SUFFICES ASSUME NEW i \in Is
               PROVE  R(i).seq >= 1 /\ R(i).off + R(i).len <= RawSize(t)[R(i).dir]
    OBVIOUS
  <2>1. R(i).seq > S(i - 1).seq /\ R(i).off + R(i).len <= RawSize(t)[R(i).dir]
    BY <1>4 DEF Continues
  <2> QED  BY <1>5, <2>1
<1>8. ASSUME t.complete  PROVE {R(i).seq : i \in Is} = Is
  <2>1. ASSUME NEW i \in Is  PROVE R(i).seq = i
    <3>1. R(i).seq = S(i - 1).seq + 1
      BY <1>4, <1>8 DEF Continues
    <3>0. i - 1 \in 0..N
      BY <1>2
    <3>2. S(i - 1).seq = i - 1
      BY <1>3, <1>8, <3>0 DEF Summarises
    <3> QED  BY <3>1, <3>2
  <2> QED  BY <2>1
<1>9. ASSUME t.complete, NEW i \in Is, NEW j \in Is, i < j, R(i).dir = R(j).dir
      PROVE  /\ R(i).off + R(i).len <= R(j).off
             /\ R(i).sess + R(j).off = R(j).sess + R(i).off
  <2>1. R(j).off = S(j - 1).off[R(j).dir] /\ S(j - 1).sess[R(j).dir] \subseteq {R(j).sess}
    BY <1>4, <1>9 DEF Continues
  <2>2. j - 1 \in 0..N /\ i \in 1..(j - 1)
    BY <1>2, <1>9
  <2>3. R(i).off + R(i).len <= S(j - 1).off[R(i).dir]
    BY <1>3, <1>9, <2>2 DEF Summarises
  <2>6. Summarises(t, j - 1)
    BY <1>3, <2>2
  <2>4. PICK x \in Nat : /\ S(j - 1).sess[R(i).dir] = {x}
                         /\ x + R(i).off = R(i).sess + S(j - 1).off[R(i).dir]
    BY <1>9, <2>2, <2>6, Zenon DEF Summarises
  <2>5. R(j).sess = x
    BY <1>9, <2>1, <2>4
  <2> QED  BY <1>9, <2>1, <2>3, <2>4, <2>5
<1>10. ASSUME t.complete, NEW i \in Is, NEW j \in Is, R(i).dir = R(j).dir
       PROVE  R(i).sess + R(j).off = R(j).sess + R(i).off /\ (i < j => R(i).off < R(j).off)
  <2>1. CASE i < j
    <3>1. R(i).off + R(i).len <= R(j).off /\ R(i).sess + R(j).off = R(j).sess + R(i).off
      BY <1>9, <1>10, <2>1
    <3>2. R(i).off \in Nat /\ R(i).len \in Nat /\ R(i).len > 0 /\ R(j).off \in Nat
      BY <1>5
    <3> QED  BY <3>1, <3>2
  <2>2. CASE j < i
    <3>1. R(j).sess + R(i).off = R(i).sess + R(j).off
      BY <1>9, <1>10, <2>2
    <3> QED  BY <1>5, <2>2, <3>1
  <2>3. CASE i = j
    BY <1>5, <2>3
  <2> QED  BY <2>1, <2>2, <2>3
<1>11. ASSUME t.complete, NEW dir \in Directions, NEW b \in 0..(RawSize(t)[dir] - 1)
       PROVE  \E i \in Is : Covers(i, dir, b) /\ \A j \in Is : Covers(j, dir, b) => j = i
  <2>1. S(N).off[dir] = RawSize(t)[dir] /\ N \in 0..N
    BY <1>1, <1>2, <1>11
  <2>2. PICK i \in Is : R(i).dir = dir /\ R(i).off <= b /\ b < R(i).off + R(i).len
    BY <1>3, <1>11, <2>1 DEF Summarises
  <2>3. Covers(i, dir, b)
    BY <1>5, <2>2
  <2>4. ASSUME NEW j \in Is, Covers(j, dir, b), j # i
        PROVE  FALSE
    <3>1. R(j).dir = dir /\ R(j).off <= b /\ b < R(j).off + R(j).len
      BY <1>5, <2>4, SMTT(30)
    <3>2. i < j \/ j < i
      BY <2>4
    <3>3. R(i).off + R(i).len <= R(j).off \/ R(j).off + R(j).len <= R(i).off
      BY <1>9, <1>11, <2>2, <3>1, <3>2
    <3>4. R(i).off \in Nat /\ R(i).len \in Nat /\ R(j).off \in Nat /\ R(j).len \in Nat /\ b \in Int
      BY <1>5
    <3>5. ASSUME NEW x \in Nat, NEW k \in Nat, NEW y \in Nat, NEW l \in Nat,
                 x <= b, b < x + k, y <= b, b < y + l, x + k <= y \/ y + l <= x
          PROVE  FALSE
      BY <3>4, <3>5
    <3> QED  BY <2>2, <3>1, <3>3, <3>4, <3>5, Zenon
  <2> QED  BY <2>3, <2>4
<1> HIDE DEF R
<1>12. t.complete => /\ {t.records[i].seq : i \in Is} = Is
                     /\ \A i, j \in Is : t.records[i].dir = t.records[j].dir =>
                           /\ t.records[i].sess + t.records[j].off = t.records[j].sess + t.records[i].off
                           /\ i < j => t.records[i].off < t.records[j].off
  BY <1>8, <1>10 DEF R
<1> QED  BY <1>1, <1>6, <1>7, <1>11, <1>12 DEF AccountsForRaw, R, Directions

-----------------------------------------------------------------------------
(* RCHCaptureV1Adapter, RCHParsedV1Adapter.                                *)

(* What the adapters read at which step.                                     *)
LEMMA ReadOrder ==
    ASSUME rchKind \in {"capture", "parsed"}, rchStep \in 1..ReadToTheEnd(rchKind)
    PROVE  /\ Len(CaptureReads) = 5 /\ Len(ParserReads) = 4
           /\ Len(Reads) = ReadToTheEnd(rchKind)
           /\ rchStep \in {1, 5} => Reads[rchStep] = "ready"
           /\ rchStep = 2 => Reads[rchStep] = "manifest"
           /\ rchStep = 3 => Reads[rchStep] = "raw"
           /\ rchStep = 4 => Reads[rchStep] = "timeline"
           /\ rchStep \in {6, 9} => Reads[rchStep] = "marker"
           /\ rchStep = 7 => Reads[rchStep] = "parsed"
           /\ rchStep = 8 => Reads[rchStep] = "output"
<1>1. CASE rchKind = "capture"
  BY <1>1 DEF Reads, CaptureReads, ParserReads, ReadToTheEnd
<1>2. CASE rchKind = "parsed"
  <2> DEFINE C == <<"ready", "manifest", "raw", "timeline", "ready">>
             P == <<"marker", "parsed", "output", "marker">>
  <2>1. Len(C) = 5 /\ Len(P) = 4 /\ C \in Seq(RchParts) /\ P \in Seq(RchParts)
    BY DEF RchParts, CaptureParts, ParserParts
  <2>2. /\ Len(C \o P) = 9
        /\ \A i \in 1..9 : (C \o P)[i] = IF i <= 5 THEN C[i] ELSE P[i - 5]
    BY <2>1
  <2>3. Reads = C \o P /\ rchStep \in 1..9
    BY <1>2 DEF Reads, CaptureReads, ParserReads, ReadToTheEnd
  <2>4. Reads[rchStep] = IF rchStep <= 5 THEN C[rchStep] ELSE P[rchStep - 5]
    BY <2>2, <2>3
  <2> HIDE DEF C, P
  <2>5. /\ Len(CaptureReads) = 5 /\ Len(ParserReads) = 4 /\ Len(Reads) = ReadToTheEnd(rchKind)
    BY <1>2, <2>1, <2>2, <2>3 DEF CaptureReads, ParserReads, ReadToTheEnd, C, P
  <2>6. /\ C[1] = "ready" /\ C[2] = "manifest" /\ C[3] = "raw" /\ C[4] = "timeline" /\ C[5] = "ready"
        /\ P[1] = "marker" /\ P[2] = "parsed" /\ P[3] = "output" /\ P[4] = "marker"
    BY DEF C, P
  <2> QED  BY <2>3, <2>4, <2>5, <2>6
<1> QED  BY <1>1, <1>2

(* A sequence that got at most one more element.                             *)
LEMMA Grown ==
    ASSUME NEW X, NEW s \in Seq(X), NEW u, u = s \/ \E x \in X : u = Append(s, x)
    PROVE  /\ u \in Seq(X)
           /\ Len(s) \in Nat /\ Len(u) \in Nat /\ Len(s) <= Len(u)
           /\ \A n \in 1..Len(s) : u[n] = s[n]
<1>1. CASE u = s
  BY <1>1
<1>2. CASE \E x \in X : u = Append(s, x)
  BY <1>2
<1> QED  BY <1>1, <1>2

(* A new publication leaves what was read of the others as it is.            *)
LEMMA ReadsStand ==
    ASSUME NEW kind, NEW step \in Nat, NEW got, ReadSoFar(kind, step, got),
           rchParses \in Seq(RchResults), rchTimeline' = rchTimeline,
           \/ rchParses' = rchParses
           \/ \E x \in RchResults : rchParses' = Append(rchParses, x)
    PROVE  ReadSoFar(kind, step, got)'
<1>1. Len(rchParses) \in Nat /\ Len(rchParses') \in Nat /\ Len(rchParses) <= Len(rchParses')
  BY Grown
<1>2. \A n \in 1..Len(rchParses) : rchParses'[n] = rchParses[n]
  BY Grown
<1>3. TimelineAccepted(rchTimeline') <=> TimelineAccepted(rchTimeline)
  OBVIOUS
<1>4. step >= 7 => /\ got["marker"] \in 1..Len(rchParses')
                   /\ rchParses'[got["marker"]] = rchParses[got["marker"]]
  BY <1>1, <1>2 DEF ReadSoFar
<1>5. step >= 8 => step >= 7
  OBVIOUS
<1> QED  BY <1>3, <1>4, <1>5 DEF ReadSoFar

(* The proxy and its parser publish.                                         *)
LEMMA RchWrites ==
    ASSUME RchInv, BeginCapture \/ BeginParse \/ \E p \in RchParts : WritePart(p)
    PROVE  RchInv'
<1> USE DEF RchInv
<1>0. UNCHANGED <<rchTimeline, rchKind, rchStep, rchGot, rchLog>>
  BY DEF BeginCapture, BeginParse, WritePart
<1>1. /\ rchParses \in Seq(RchResults) /\ rchCaptures \in Seq(BOOLEAN)
      /\ rchDisk \in [RchParts -> Nat] /\ "ready" \in RchParts /\ "marker" \in RchParts
  BY DEF RchParts, CaptureParts, ParserParts
<1>2. \/ rchParses' = rchParses
      \/ \E x \in RchResults : rchParses' = Append(rchParses, x)
  BY <1>1 DEF BeginCapture, BeginParse, WritePart, RchResults
<1>3. \/ rchCaptures' = rchCaptures
      \/ \E x \in BOOLEAN : rchCaptures' = Append(rchCaptures, x)
  BY DEF BeginCapture, BeginParse, WritePart
<1>4. /\ rchParses' \in Seq(RchResults) /\ rchCaptures' \in Seq(BOOLEAN)
      /\ Len(rchParses) <= Len(rchParses') /\ Len(rchCaptures) <= Len(rchCaptures')
      /\ Len(rchParses) \in Nat /\ Len(rchCaptures) \in Nat
      /\ Len(rchParses') \in Nat /\ Len(rchCaptures') \in Nat
  <2>1. /\ rchParses' \in Seq(RchResults) /\ Len(rchParses) <= Len(rchParses')
        /\ Len(rchParses) \in Nat /\ Len(rchParses') \in Nat
    BY <1>1, <1>2, Grown
  <2>2. /\ rchCaptures' \in Seq(BOOLEAN) /\ Len(rchCaptures) <= Len(rchCaptures')
        /\ Len(rchCaptures) \in Nat /\ Len(rchCaptures') \in Nat
    BY <1>1, <1>3, Grown
  <2> QED  BY <2>1, <2>2
<1>5. ASSUME NEW p \in RchParts
      PROVE  Newest(p) \in Nat /\ Newest(p)' \in Nat /\ Newest(p) <= Newest(p)'
  BY <1>4 DEF Newest
<1>6. \/ rchDisk' = rchDisk
      \/ \E p \in RchParts : rchDisk' = [rchDisk EXCEPT ![p] = Newest(p)] /\ rchDisk[p] < Newest(p)
  BY DEF BeginCapture, BeginParse, WritePart
<1>7. rchDisk' \in [RchParts -> Nat]
  BY <1>1, <1>5, <1>6
<1>8. ASSUME NEW p \in RchParts
      PROVE  rchDisk'[p] <= Newest(p)' /\ rchDisk[p] <= rchDisk'[p]
  <2>1. rchDisk'[p] = rchDisk[p] \/ (rchDisk'[p] = Newest(p) /\ rchDisk[p] < Newest(p))
    BY <1>1, <1>6
  <2>2. rchDisk[p] \in Nat /\ rchDisk[p] <= Newest(p)
    BY <1>1
  <2> QED  BY <1>5, <2>1, <2>2
<1>9. rchKind' = "parsed" => rchDisk'["marker"] > 0
  BY <1>0, <1>1, <1>7, <1>8
<1>10. ASSUME rchKind' # "none"
       PROVE  rchStep' \in 1..ReadToTheEnd(rchKind') /\ ReadSoFar(rchKind, rchStep, rchGot)'
  <2>1. rchStep \in Nat /\ ReadSoFar(rchKind, rchStep, rchGot)
    BY <1>0, <1>10 DEF ReadToTheEnd
  <2>2. ReadSoFar(rchKind, rchStep, rchGot)'
    BY <1>0, <1>1, <1>2, <2>1, ReadsStand
  <2> QED  BY <1>0, <1>10, <2>2
<1>11. ASSUME NEW d \in rchLog', d.outcome = "delivered"
       PROVE  d.kind \in {"capture", "parsed"} /\ ReadSoFar(d.kind, ReadToTheEnd(d.kind), d.got)'
  <2>1. d \in rchLog
    BY <1>0
  <2>2. d.kind \in {"capture", "parsed"} /\ ReadSoFar(d.kind, ReadToTheEnd(d.kind), d.got)
    BY <1>11, <2>1
  <2>3. ReadToTheEnd(d.kind) \in Nat
    BY DEF ReadToTheEnd
  <2>4. ReadSoFar(d.kind, ReadToTheEnd(d.kind), d.got)'
    BY <1>0, <1>1, <1>2, <2>2, <2>3, ReadsStand
  <2> QED  BY <2>2, <2>4
<1> QED  BY <1>0, <1>4, <1>7, <1>8, <1>9, <1>10, <1>11

(* discover: the marker of what is going to be loaded is there.              *)
LEMMA RchDiscovers ==
    ASSUME RchInv, NEW kind \in {"capture", "parsed"}, RchDiscover(kind)
    PROVE  RchInv'
<1>1. /\ UNCHANGED <<rchDisk, rchCaptures, rchParses, rchTimeline>>
      /\ rchKind' = kind /\ rchStep' = 1 /\ rchGot' = NothingRead /\ rchLog' = {}
      /\ kind = "parsed" => rchDisk["marker"] > 0
  BY DEF RchDiscover, rchWriter
<1>2. rchStep' \in 1..ReadToTheEnd(rchKind') /\ ReadSoFar(rchKind, rchStep, rchGot)'
  BY <1>1 DEF ReadToTheEnd, ReadSoFar
<1>3. rchGot' \in [RchParts -> Nat]
  BY <1>1 DEF NothingRead
<1>4. rchDisk' \in [RchParts -> Nat] /\ \A p \in RchParts : rchDisk'[p] <= Newest(p)'
  BY <1>1 DEF RchInv, Newest
<1> QED  BY <1>1, <1>2, <1>3, <1>4 DEF RchInv

(* A step of load that leaves the directory alone: it goes on with one more  *)
(* part, or ends.                                                            *)
LEMMA RchReads ==
    ASSUME RchInv, UNCHANGED rchWriter, rchKind \in {"capture", "parsed"},
           rchGot' \in [RchParts -> Nat],
           \/ /\ rchStep' \in 1..ReadToTheEnd(rchKind) /\ UNCHANGED <<rchKind, rchLog>>
              /\ ReadSoFar(rchKind, rchStep', rchGot')
           \/ EndLoad("refused") \/ EndLoad("busy")
           \/ EndLoad("delivered") /\ ReadSoFar(rchKind, ReadToTheEnd(rchKind), rchGot')
    PROVE  RchInv'
<1>1. UNCHANGED <<rchDisk, rchCaptures, rchParses, rchTimeline>>
  BY DEF rchWriter
<1>2. \A k, s, g : ReadSoFar(k, s, g)' <=> ReadSoFar(k, s, g)
  BY <1>1 DEF ReadSoFar
<1>3. /\ rchDisk' \in [RchParts -> Nat] /\ \A p \in RchParts : rchDisk'[p] <= Newest(p)'
      /\ rchTimeline' \in RchTimelines /\ rchCaptures' \in Seq(BOOLEAN) /\ rchParses' \in Seq(RchResults)
  BY <1>1 DEF RchInv, Newest
<1>4. CASE /\ rchStep' \in 1..ReadToTheEnd(rchKind) /\ UNCHANGED <<rchKind, rchLog>>
           /\ ReadSoFar(rchKind, rchStep', rchGot')
  <2>1. ReadSoFar(rchKind, rchStep, rchGot)'
    BY <1>1, <1>4 DEF ReadSoFar
  <2>2. \A d \in rchLog' : d.outcome = "delivered" =>
           d.kind \in {"capture", "parsed"} /\ ReadSoFar(d.kind, ReadToTheEnd(d.kind), d.got)'
    BY <1>2, <1>4 DEF RchInv
  <2> QED  BY <1>1, <1>3, <1>4, <2>1, <2>2 DEF RchInv
<1>5. ASSUME NEW outcome, EndLoad(outcome),
             outcome = "delivered" => ReadSoFar(rchKind, ReadToTheEnd(rchKind), rchGot')
      PROVE  RchInv'
  <2>1. rchKind' = "none" /\ rchLog' = {[kind |-> rchKind, outcome |-> outcome, got |-> rchGot']}
    BY <1>5 DEF EndLoad
  <2>2. ASSUME NEW d \in rchLog', d.outcome = "delivered"
        PROVE  d.kind \in {"capture", "parsed"} /\ ReadSoFar(d.kind, ReadToTheEnd(d.kind), d.got)'
    <3>1. d.kind = rchKind /\ d.got = rchGot' /\ outcome = "delivered"
      BY <2>1, <2>2
    <3>2. ReadSoFar(d.kind, ReadToTheEnd(d.kind), d.got)
      BY <1>5, <3>1
    <3> QED  BY <1>2, <3>1, <3>2
  <2> QED  BY <1>1, <1>3, <2>1, <2>2 DEF RchInv
<1> QED  BY <1>4, <1>5

(* load reads a marker: for the first time, or once more.                    *)
LEMMA RchReadsMarker ==
    ASSUME RchInv, ReadMarker
    PROVE  RchInv'
<1>1. /\ rchKind \in {"capture", "parsed"} /\ UNCHANGED rchWriter
      /\ rchStep \in 1..ReadToTheEnd(rchKind) /\ ReadSoFar(rchKind, rchStep, rchGot)
      /\ Reads[rchStep] \in {"ready", "marker"}
  BY DEF RchInv, ReadMarker
<1>2. /\ Len(CaptureReads) = 5 /\ Len(ParserReads) = 4 /\ Len(Reads) = ReadToTheEnd(rchKind)
      /\ rchStep \in {1, 5, 6, 9}
      /\ Reads[rchStep] = IF rchStep \in {1, 5} THEN "ready" ELSE "marker"
      /\ rchStep \in {6, 9} => rchKind = "parsed"
  <2>1. rchStep \in 1..9 /\ (rchStep > 5 => rchKind = "parsed")
    BY <1>1 DEF ReadToTheEnd
  <2>2. rchStep \in {1, 2, 3, 4, 5, 6, 7, 8, 9}
    BY <2>1
  <2> QED  BY <1>1, <2>1, <2>2, ReadOrder
<1>3. /\ rchDisk \in [RchParts -> Nat] /\ rchGot \in [RchParts -> Nat]
      /\ "ready" \in RchParts /\ "marker" \in RchParts
      /\ rchKind = "parsed" => rchDisk["marker"] \in 1..Len(rchParses)
  <2>1. "ready" \in RchParts /\ "marker" \in RchParts /\ "marker" \notin CaptureParts
    BY DEF RchParts, CaptureParts, ParserParts
  <2>2. rchDisk["marker"] \in Nat /\ rchDisk["marker"] <= Len(rchParses) /\ Len(rchParses) \in Nat
    BY <2>1 DEF RchInv, Newest
  <2> QED  BY <2>1, <2>2 DEF RchInv
<1>4. CASE rchStep = 1
  <2>1. /\ rchGot' = [rchGot EXCEPT !["ready"] = rchDisk["ready"]]
        /\ rchStep' = 2 /\ UNCHANGED <<rchKind, rchLog>>
    BY <1>1, <1>2, <1>4 DEF ReadMarker, ReadToTheEnd
  <2>2. rchGot' \in [RchParts -> Nat]
    BY <1>3, <2>1
  <2>3. ReadSoFar(rchKind, rchStep', rchGot') /\ rchStep' \in 1..ReadToTheEnd(rchKind)
    BY <2>1 DEF ReadSoFar, ReadToTheEnd
  <2> QED  BY <1>1, <2>1, <2>2, <2>3, RchReads
<1>5. CASE rchStep = 6
  <2>1. /\ rchGot' = [rchGot EXCEPT !["marker"] = rchDisk["marker"]]
        /\ rchStep' = 7 /\ UNCHANGED <<rchKind, rchLog>>
    BY <1>1, <1>2, <1>5 DEF ReadMarker, ReadToTheEnd
  <2>2. rchGot' \in [RchParts -> Nat]
    BY <1>3, <2>1
  <2>3. /\ rchGot'["marker"] \in 1..Len(rchParses)
        /\ rchGot'["manifest"] = rchGot["manifest"] /\ rchGot'["ready"] = rchGot["ready"]
        /\ rchGot'["raw"] = rchGot["raw"] /\ rchGot'["timeline"] = rchGot["timeline"]
    BY <1>2, <1>3, <1>5, <2>1 DEF RchParts, CaptureParts, ParserParts
  <2>4. ReadSoFar(rchKind, 7, rchGot')
    BY <1>1, <1>2, <1>5, <2>3 DEF ReadSoFar
  <2>5. rchStep' \in 1..ReadToTheEnd(rchKind)
    BY <1>2, <1>5, <2>1 DEF ReadToTheEnd
  <2> QED  BY <1>1, <2>1, <2>2, <2>4, <2>5, RchReads
<1>6. CASE rchStep \in {5, 9}
  <2>1. /\ rchGot' = rchGot
        /\ \/ EndLoad("busy")
           \/ rchStep = ReadToTheEnd(rchKind) /\ EndLoad("delivered")
           \/ /\ rchStep # ReadToTheEnd(rchKind)
              /\ rchStep' = rchStep + 1 /\ UNCHANGED <<rchKind, rchLog>>
    BY <1>1, <1>2, <1>6 DEF ReadMarker
  <2>2. CASE EndLoad("busy")
    BY <1>1, <1>3, <2>1, <2>2, RchReads
  <2>3. CASE rchStep = ReadToTheEnd(rchKind) /\ EndLoad("delivered")
    BY <1>1, <1>3, <2>1, <2>3, RchReads
  <2>4. CASE /\ rchStep # ReadToTheEnd(rchKind)
             /\ rchStep' = rchStep + 1 /\ UNCHANGED <<rchKind, rchLog>>
    <3>1. rchStep = 5 /\ rchStep' = 6 /\ rchKind = "parsed"
      BY <1>1, <1>2, <1>6, <2>4 DEF ReadToTheEnd
    <3>2. ReadSoFar(rchKind, 6, rchGot)
      BY <1>1, <3>1 DEF ReadSoFar
    <3>3. rchStep' \in 1..ReadToTheEnd(rchKind)
      BY <3>1 DEF ReadToTheEnd
    <3> QED  BY <1>1, <1>3, <2>1, <2>4, <3>1, <3>2, <3>3, RchReads
  <2> QED  BY <2>1, <2>2, <2>3, <2>4
<1> QED  BY <1>2, <1>4, <1>5, <1>6

(* load reads a part and compares its hash with the one it was promised.     *)
LEMMA RchReadsPart ==
    ASSUME RchInv, ReadPart
    PROVE  RchInv'
<1>1. /\ rchKind \in {"capture", "parsed"} /\ UNCHANGED rchWriter
      /\ rchStep \in 1..ReadToTheEnd(rchKind) /\ ReadSoFar(rchKind, rchStep, rchGot)
      /\ Reads[rchStep] \notin {"ready", "marker"}
      /\ rchGot' = [rchGot EXCEPT ![Reads[rchStep]] = rchDisk[Reads[rchStep]]]
  BY DEF RchInv, ReadPart
<1>2. \/ EndLoad("refused")
      \/ /\ rchDisk[Reads[rchStep]] = Authority(Reads[rchStep]) /\ ContentsValid(Reads[rchStep])
         /\ rchStep' = rchStep + 1 /\ UNCHANGED <<rchKind, rchLog>>
  BY DEF ReadPart
<1>3. rchStep \in 1..9 /\ (rchStep > 5 => rchKind = "parsed")
  BY <1>1 DEF ReadToTheEnd
<1>4. rchStep \in {1, 2, 3, 4, 5, 6, 7, 8, 9}
  BY <1>3
<1>5. \/ rchStep = 2 /\ Reads[rchStep] = "manifest"
      \/ rchStep = 3 /\ Reads[rchStep] = "raw"
      \/ rchStep = 4 /\ Reads[rchStep] = "timeline"
      \/ rchStep = 7 /\ Reads[rchStep] = "parsed" /\ rchKind = "parsed"
      \/ rchStep = 8 /\ Reads[rchStep] = "output" /\ rchKind = "parsed"
  BY <1>1, <1>3, <1>4, ReadOrder
<1>6. /\ rchDisk \in [RchParts -> Nat] /\ rchGot \in [RchParts -> Nat]
      /\ Reads[rchStep] \in RchParts
  BY <1>5 DEF RchInv, RchParts, CaptureParts, ParserParts
<1>7. rchGot' \in [RchParts -> Nat]
  BY <1>1, <1>6
<1>8. CASE EndLoad("refused")
  BY <1>1, <1>7, <1>8, RchReads
<1>9. CASE /\ rchDisk[Reads[rchStep]] = Authority(Reads[rchStep]) /\ ContentsValid(Reads[rchStep])
           /\ rchStep' = rchStep + 1 /\ UNCHANGED <<rchKind, rchLog>>
  <2>1. /\ rchGot'[Reads[rchStep]] = Authority(Reads[rchStep])
        /\ \A p \in RchParts \ {Reads[rchStep]} : rchGot'[p] = rchGot[p]
    BY <1>1, <1>6, <1>9
  <2>2. ReadSoFar(rchKind, rchStep + 1, rchGot')
    <3>1. CASE rchStep = 2 /\ Reads[rchStep] = "manifest"
      BY <2>1, <3>1 DEF ReadSoFar, Authority, RchParts, CaptureParts, ParserParts
    <3>2. CASE rchStep = 3 /\ Reads[rchStep] = "raw"
      BY <1>1, <2>1, <3>2 DEF ReadSoFar, Authority, RchParts, CaptureParts, ParserParts
    <3>3. CASE rchStep = 4 /\ Reads[rchStep] = "timeline"
      <4>1. rchKind = "capture" => TimelineAccepted(rchTimeline)
        BY <1>9, <3>3 DEF ContentsValid
      <4> QED
        BY <1>1, <2>1, <3>3, <4>1 DEF ReadSoFar, Authority, RchParts, CaptureParts, ParserParts
    <3>4. CASE rchStep = 7 /\ Reads[rchStep] = "parsed" /\ rchKind = "parsed"
      <4>1. rchParses[rchGot["marker"]].of = rchGot["manifest"]
        BY <1>9, <3>4 DEF ContentsValid
      <4> QED
        BY <1>1, <2>1, <3>4, <4>1 DEF ReadSoFar, Authority, RchParts, CaptureParts, ParserParts
    <3>5. CASE rchStep = 8 /\ Reads[rchStep] = "output" /\ rchKind = "parsed"
      BY <1>1, <2>1, <3>5 DEF ReadSoFar, Authority, RchParts, CaptureParts, ParserParts
    <3> QED  BY <1>5, <3>1, <3>2, <3>3, <3>4, <3>5
  <2>3. rchStep' \in 1..ReadToTheEnd(rchKind)
    BY <1>1, <1>5, <1>9 DEF ReadToTheEnd
  <2> QED  BY <1>1, <1>7, <1>9, <2>2, <2>3, RchReads
<1> QED  BY <1>2, <1>8, <1>9

(* RchInv, for every set of timelines and number of publications.            *)
THEOREM RchInvariant == RchSpec => []RchInv
<1>1. RchInit => RchInv
  <2> SUFFICES ASSUME RchInit PROVE RchInv
    OBVIOUS
  <2>1. /\ rchCaptures \in Seq(BOOLEAN) /\ rchParses \in Seq(RchResults)
        /\ Len(rchCaptures) = 1 /\ Len(rchParses) = 0
    BY DEF RchInit
  <2>2. rchDisk \in [RchParts -> Nat] /\ \A p \in RchParts : rchDisk[p] <= Newest(p)
    BY <2>1 DEF RchInit, Newest
  <2> QED  BY <2>1, <2>2 DEF RchInit, RchInv, NothingRead
<1>2. RchInv /\ [RchNext]_rchVars => RchInv'
  <2> SUFFICES ASSUME RchInv, [RchNext]_rchVars PROVE RchInv'
    OBVIOUS
  <2>1. CASE BeginCapture \/ BeginParse \/ \E p \in RchParts : WritePart(p)
    BY <2>1, RchWrites
  <2>2. CASE \E kind \in {"capture", "parsed"} : RchDiscover(kind)
    BY <2>2, RchDiscovers
  <2>3. CASE ReadMarker
    BY <2>3, RchReadsMarker
  <2>4. CASE ReadPart
    BY <2>4, RchReadsPart
  <2>5. CASE UNCHANGED rchVars
    BY <2>5 DEF rchVars, RchInv, Newest, ReadSoFar, ReadToTheEnd
  <2> QED  BY <2>1, <2>2, <2>3, <2>4, <2>5 DEF RchNext
<1> QED  BY <1>1, <1>2, PTL DEF RchSpec

(* An envelope of the RCH adapters is one publication, however their reads   *)
(* fall between the writes of the proxy and of its parser.                   *)
THEOREM RchOnePublication == RchSpec => []RchEnvelopeIsOnePublication
<1>1. RchInv => RchEnvelopeIsOnePublication
  BY DEF RchInv, RchEnvelopeIsOnePublication, ReadSoFar, ReadToTheEnd, CaptureParts, ParserParts
<1> QED  BY <1>1, RchInvariant, PTL

(* The timeline of a delivered capture accounts for its RAW files.           *)
THEOREM RchTimelineTiles == RchSpec => []RchTimelineTilesRaw
<1>1. RchInv => RchTimelineTilesRaw
  <2> SUFFICES ASSUME RchInv, NEW d \in rchLog, d.outcome = "delivered", d.kind = "capture"
               PROVE  AccountsForRaw(rchTimeline)
    BY DEF RchTimelineTilesRaw
  <2>1. rchTimeline \in RchTimelines /\ TimelineAccepted(rchTimeline)
    BY DEF RchInv, ReadSoFar, ReadToTheEnd
  <2> QED  BY <2>1, AcceptedAccounts
<1> QED  BY <1>1, RchInvariant, PTL

-----------------------------------------------------------------------------
(* PrintProxyV3Adapter.                                                    *)

(* A prefix of a ledger has the records of the ledger.                       *)
LEMMA PrefixOf ==
    ASSUME NEW s \in Seq(PpRecord), NEW n \in 0..Len(s)
    PROVE  /\ Len(SubSeq(s, 1, n)) = n
           /\ \A i \in 1..n : SubSeq(s, 1, n)[i] = s[i]
           /\ \A j : Positions(SubSeq(s, 1, n), j) = {i \in 1..n : s[i].job = j}
<1>1. Len(s) \in Nat /\ n \in Nat /\ n <= Len(s)
  OBVIOUS
<1>2. Len(SubSeq(s, 1, n)) = n /\ \A i \in 1..n : SubSeq(s, 1, n)[i] = s[i]
  BY <1>1
<1> QED  BY <1>2 DEF Positions

(* The last record of a job is one of its records, and none is later.        *)
LEMMA LastRecord ==
    ASSUME NEW s, Len(s) \in Nat, NEW j, Positions(s, j) # {}
    PROVE  Last(s, j) \in Positions(s, j) /\ \A k \in Positions(s, j) : k <= Last(s, j)
<1> DEFINE P == Positions(s, j)
           T == {Len(s) - i : i \in P}
<1>1. \A i \in P : i \in 1..Len(s)
  BY DEF Positions
<1>2. T \subseteq Nat /\ T # {}
  BY <1>1
<1>3. PICK n \in T : \A m \in T : n <= m
  BY <1>2, LeastNumber
<1>4. PICK i \in P : n = Len(s) - i
  BY <1>3
<1>5. ASSUME NEW k \in P  PROVE k <= i
  <2>1. n <= Len(s) - k
    BY <1>3
  <2>2. i \in Int /\ k \in Int
    BY <1>1
  <2> QED  BY <1>4, <2>1, <2>2
<1> QED  BY <1>4, <1>5 DEF Last

(* What came before a record is the same in a longer ledger.                 *)
LEMMA SameHistory ==
    ASSUME NEW s \in Seq(PpRecord), NEW u \in Seq(PpRecord), Begins(s, u),
           NEW j, NEW i \in 1..(Len(s) + 1)
    PROVE  EventBefore(s, j, i) = EventBefore(u, j, i)
<1>1. /\ Len(s) \in Nat /\ Len(u) \in Nat /\ Len(s) <= Len(u)
      /\ i - 1 \in 0..Len(s) /\ i - 1 \in 0..Len(u)
      /\ \A k \in 1..(i - 1) : s[k] = u[k]
  BY DEF Begins
<1> DEFINE p == SubSeq(s, 1, i - 1)
           q == SubSeq(u, 1, i - 1)
<1>2. /\ Len(p) = i - 1 /\ Positions(p, j) = {k \in 1..(i - 1) : s[k].job = j}
      /\ Len(q) = i - 1 /\ Positions(q, j) = {k \in 1..(i - 1) : u[k].job = j}
  BY <1>1, PrefixOf
<1>3. Positions(p, j) = Positions(q, j)
  BY <1>1, <1>2
<1>4. Last(p, j) = Last(q, j)
  BY <1>3 DEF Last
<1>5. CASE Positions(p, j) = {}
  BY <1>3, <1>5 DEF EventBefore
<1>6. CASE Positions(p, j) # {}
  <2>0. Len(p) \in Nat
    BY <1>1, <1>2
  <2>1. Last(p, j) \in Positions(p, j)
    BY <1>6, <2>0, LastRecord, Zenon
  <2>2. s[Last(p, j)] = u[Last(q, j)]
    BY <1>1, <1>2, <1>4, <2>1
  <2> QED  BY <1>3, <1>6, <2>2 DEF EventBefore
<1> QED  BY <1>5, <1>6

(* Every history in a lawful ledger is valid.                                *)
LEMMA ValidPrefix ==
    ASSUME NEW u \in Seq(PpRecord), Lawful(u), snapshot \in Seq(PpRecord), Begins(snapshot, u), NEW j
    PROVE  ValidHistory(j)
<1>1. /\ Len(snapshot) \in Nat /\ Len(u) \in Nat /\ Len(snapshot) <= Len(u)
      /\ \A i \in 1..Len(snapshot) : snapshot[i] = u[i]
  BY DEF Begins
<1>2. ASSUME NEW i \in Positions(snapshot, j)
      PROVE  EventBefore(snapshot, j, i) \in EventPredecessors[snapshot[i].event]
  <2>1. i \in 1..Len(snapshot) /\ i \in 1..Len(u) /\ i \in 1..(Len(snapshot) + 1) /\ u[i].job = j
    BY <1>1 DEF Positions
  <2>2. EventBefore(snapshot, j, i) = EventBefore(u, j, i)
    BY <2>1, SameHistory
  <2>3. EventBefore(u, u[i].job, i) \in EventPredecessors[u[i].event]
    BY <2>1 DEF Lawful
  <2> QED  BY <1>1, <2>1, <2>2, <2>3
<1> DEFINE A == {i \in Positions(snapshot, j) : snapshot[i].event = "ARCHIVED"}
<1>3. \A i, k \in A : i = k
  <2> SUFFICES ASSUME NEW i \in A, NEW k \in A PROVE i = k
    OBVIOUS
  <2>1. /\ i \in 1..Len(u) /\ k \in 1..Len(u) /\ u[i].job = j /\ u[k].job = j
        /\ u[i].event = "ARCHIVED" /\ u[k].event = "ARCHIVED"
    BY <1>1 DEF Positions
  <2> QED  BY <2>1 DEF Lawful
<1> HIDE DEF A
<1>4. Cardinality(A) <= 1
  <2>1. CASE A = {}
    BY <2>1, FS_EmptySet
  <2>2. CASE A # {}
    <3>1. PICK x \in A : TRUE
      BY <2>2
    <3>2. A = {x}
      BY <1>3, <3>1
    <3>3. Cardinality({x}) = 1
      BY FS_Singleton
    <3> QED  BY <3>2, <3>3
  <2> QED  BY <2>1, <2>2
<1> QED  BY <1>2, <1>4 DEF ValidHistory, A

(* The ledger as it will be continues the ledger.                            *)
LEMMA ComingContinues ==
    ASSUME ledger \in Seq(PpRecord), writing \in PpRecord \cup {NoWrite}
    PROVE  Coming \in Seq(PpRecord) /\ Begins(ledger, Coming)
<1>1. CASE writing # NoWrite /\ Len(ledger) = head
  <2>1. Coming = Append(ledger, writing) /\ writing \in PpRecord
    BY <1>1 DEF Coming
  <2> HIDE DEF PpRecord
  <2> QED  BY <2>1 DEF Begins
<1>2. CASE ~(writing # NoWrite /\ Len(ledger) = head)
  <2>1. Coming = ledger
    BY <1>2 DEF Coming
  <2> QED  BY <2>1 DEF Begins
<1> QED  BY <1>1, <1>2

(* A lawful ledger stays lawful when a job gets an event it may get.         *)
LEMMA LawfulAppend ==
    ASSUME NEW s \in Seq(PpRecord), Lawful(s), NEW j \in PpJobs, NEW e \in Events,
           EventBefore(s, j, Len(s) + 1) \in EventPredecessors[e],
           e = "ARCHIVED" => \A i \in Positions(s, j) : s[i].event # "ARCHIVED"
    PROVE  Lawful(Append(s, [job |-> j, event |-> e]))
<1> DEFINE r == [job |-> j, event |-> e]
           u == Append(s, r)
<1>1. r \in PpRecord
  BY DEF PpRecord
<1>2. /\ Len(s) \in Nat /\ u \in Seq(PpRecord) /\ Len(u) = Len(s) + 1
      /\ \A i \in 1..Len(s) : u[i] = s[i]
      /\ u[Len(s) + 1] = r
  BY <1>1
<1>3. Begins(s, u)
  BY <1>2 DEF Begins
<1>4. r.job = j /\ r.event = e
  OBVIOUS
<1> HIDE DEF r, u
<1>5. ASSUME NEW i \in 1..Len(u)
      PROVE  EventBefore(u, u[i].job, i) \in EventPredecessors[u[i].event]
  <2>1. i \in 1..(Len(s) + 1)
    BY <1>2
  <2>2. EventBefore(s, u[i].job, i) = EventBefore(u, u[i].job, i)
    BY <1>2, <1>3, <2>1, SameHistory
  <2>3. CASE i = Len(s) + 1
    BY <1>2, <1>4, <2>2, <2>3
  <2>4. CASE i # Len(s) + 1
    <3>1. i \in 1..Len(s)
      BY <1>2, <2>1, <2>4
    <3>2. EventBefore(s, s[i].job, i) \in EventPredecessors[s[i].event]
      BY <3>1 DEF Lawful
    <3> QED  BY <1>2, <2>2, <3>1, <3>2
  <2> QED  BY <2>3, <2>4
<1>6. ASSUME NEW i \in 1..Len(u), NEW k \in 1..Len(u), u[i].job = u[k].job,
             u[i].event = "ARCHIVED", u[k].event = "ARCHIVED"
      PROVE  i = k
  <2>1. i \in 1..Len(s) \/ i = Len(s) + 1
    BY <1>2
  <2>2. k \in 1..Len(s) \/ k = Len(s) + 1
    BY <1>2
  <2>3. \A n \in 1..Len(s) : s[n].job = j /\ e = "ARCHIVED" => s[n].event # "ARCHIVED"
    BY DEF Positions
  <2>4. CASE i \in 1..Len(s) /\ k \in 1..Len(s)
    BY <1>2, <1>6, <2>4 DEF Lawful
  <2>5. CASE i = Len(s) + 1 /\ k \in 1..Len(s)
    BY <1>2, <1>4, <1>6, <2>3, <2>5
  <2>6. CASE k = Len(s) + 1 /\ i \in 1..Len(s)
    BY <1>2, <1>4, <1>6, <2>3, <2>6
  <2> QED  BY <2>1, <2>2, <2>4, <2>5, <2>6
<1>7. Lawful(u)
  BY <1>5, <1>6 DEF Lawful
<1> QED  BY <1>7 DEF u, r

(* A job is a candidate by what its prefix of the ledger holds.              *)
LEMMA CandidateOf ==
    ASSUME NEW s \in Seq(PpRecord), NEW n \in 0..Len(s), NEW j
    PROVE  IsCandidate(SubSeq(s, 1, n), j)
             <=> /\ \E i \in 1..n : s[i].job = j /\ s[i].event = "ARCHIVED"
                 /\ \A i \in 1..n : s[i].job = j =>
                      s[i].event \notin {"RETENTION_DELETE_STARTED", "RETENTION_DELETED"}
<1>1. /\ \A i \in 1..n : SubSeq(s, 1, n)[i] = s[i]
      /\ Positions(SubSeq(s, 1, n), j) = {i \in 1..n : s[i].job = j}
  BY PrefixOf
<1> QED  BY <1>1 DEF IsCandidate, Retained

(* What was delivered stays committed while the ledger and its head grow.    *)
LEMMA CommittedStays ==
    ASSUME ledger \in Seq(PpRecord), ledger' \in Seq(PpRecord), Begins(ledger, ledger'),
           head \in Nat, head' \in Nat, head <= head', head <= Len(ledger), head' <= Len(ledger'),
           delivered' = delivered, PpEnvelopeIsCommitted
    PROVE  PpEnvelopeIsCommitted'
<1> SUFFICES ASSUME NEW d \in delivered
             PROVE  /\ d.latest \in Positions(SubSeq(ledger', 1, head'), d.job)
                    /\ d.status = EventStatus[ledger'[d.latest].event]
                    /\ IsCandidate(SubSeq(ledger', 1, d.latest), d.job)
  BY DEF PpEnvelopeIsCommitted
<1> DEFINE n == d.latest
<1>1. /\ d.latest \in Positions(SubSeq(ledger, 1, head), d.job)
      /\ d.status = EventStatus[ledger[d.latest].event]
      /\ IsCandidate(SubSeq(ledger, 1, d.latest), d.job)
  BY DEF PpEnvelopeIsCommitted
<1>2. /\ Len(ledger) \in Nat /\ Len(ledger') \in Nat /\ Len(ledger) <= Len(ledger')
      /\ \A i \in 1..Len(ledger) : ledger[i] = ledger'[i]
      /\ head \in 0..Len(ledger) /\ head' \in 0..Len(ledger')
  BY DEF Begins
<1>3. Positions(SubSeq(ledger, 1, head), d.job) = {i \in 1..head : ledger[i].job = d.job}
  BY <1>2, PrefixOf
<1>4. Positions(SubSeq(ledger', 1, head'), d.job) = {i \in 1..head' : ledger'[i].job = d.job}
  BY <1>2, PrefixOf
<1>5. n \in 1..head /\ ledger[n].job = d.job
  BY <1>1, <1>3
<1>6. /\ n \in 1..Len(ledger) /\ n \in 0..Len(ledger) /\ n \in 0..Len(ledger') /\ n \in 1..head'
      /\ \A i \in 1..n : ledger[i] = ledger'[i]
  BY <1>2, <1>5
<1>7. n \in Positions(SubSeq(ledger', 1, head'), d.job)
  BY <1>2, <1>4, <1>5, <1>6
<1>8. d.status = EventStatus[ledger'[n].event]
  BY <1>1, <1>2, <1>6
<1>9. IsCandidate(SubSeq(ledger', 1, n), d.job)
  <2>1. /\ \E i \in 1..n : ledger[i].job = d.job /\ ledger[i].event = "ARCHIVED"
        /\ \A i \in 1..n : ledger[i].job = d.job =>
             ledger[i].event \notin {"RETENTION_DELETE_STARTED", "RETENTION_DELETED"}
    BY <1>1, <1>6, CandidateOf, SMTT(30)
  <2>2. /\ \E i \in 1..n : ledger'[i].job = d.job /\ ledger'[i].event = "ARCHIVED"
        /\ \A i \in 1..n : ledger'[i].job = d.job =>
             ledger'[i].event \notin {"RETENTION_DELETE_STARTED", "RETENTION_DELETED"}
    BY <1>6, <2>1
  <2> QED  BY <1>6, <2>2, CandidateOf
<1> QED  BY <1>7, <1>8, <1>9

(* The printproxy writes the metadata of a job's next event.                 *)
LEMMA PpWritesMetadata ==
    ASSUME PpInv, NEW j \in PpJobs, NEW e \in Events, WriteMetadata(j, e)
    PROVE  PpInv'
<1> DEFINE r == [job |-> j, event |-> e]
           N == Len(ledger)
<1>1. /\ writing = NoWrite /\ writing' = r /\ ledger' = ledger /\ head' = head
      /\ EventBefore(ledger, j, N + 1) \in EventPredecessors[e]
      /\ e = "ARCHIVED" => \A i \in Positions(ledger, j) : ledger[i].event # "ARCHIVED"
      /\ rawFile' = IF e = "RETENTION_DELETED" THEN rawFile \ {j} ELSE rawFile \cup {j}
      /\ metaFile' = [metaFile EXCEPT ![j] = N + 1]
  BY DEF WriteMetadata
<1>2. /\ ledger \in Seq(PpRecord) /\ N \in Nat /\ N = head /\ head \in Nat
      /\ rawFile \subseteq PpJobs /\ metaFile \in [PpJobs -> Nat]
  BY <1>1 DEF PpInv, WriterInv
<1>3. r \in PpRecord /\ r # NoWrite /\ r.job = j /\ r.event = e
  BY NoWriteAssumption DEF PpRecord
<1>4. Coming = ledger /\ Coming' = Append(ledger, r)
  BY <1>1, <1>2, <1>3 DEF Coming
<1>5. Lawful(Coming')
  <2>1. Lawful(ledger)
    BY <1>4 DEF PpInv, WriterInv
  <2> QED  BY <1>1, <1>2, <1>4, <2>1, LawfulAppend
<1> HIDE DEF r
<1>6. /\ Len(Coming') = N + 1 /\ Coming'[N + 1] = r
      /\ \A i \in 1..N : Coming'[i] = ledger[i]
  BY <1>2, <1>3, <1>4
<1>7. \A k \in PpJobs :
        /\ \A i \in Positions(ledger, k) : i <= metaFile[k]
        /\ metaFile[k] <= N
        /\ k \notin rawFile /\ metaFile[k] \in Positions(ledger, k)
             => ledger[metaFile[k]].event = "RETENTION_DELETED"
  BY <1>4 DEF PpInv, WriterInv
<1>8. ASSUME NEW k \in PpJobs
      PROVE  /\ \A i \in Positions(Coming', k) : i <= metaFile'[k]
             /\ metaFile'[k] <= Len(Coming')
             /\ k \notin rawFile' /\ metaFile'[k] \in Positions(Coming', k)
                  => Coming'[metaFile'[k]].event = "RETENTION_DELETED"
  <2>1. CASE k = j
    <3>1. metaFile'[k] = N + 1
      BY <1>1, <1>2, <2>1
    <3>2. \A i \in Positions(Coming', k) : i <= N + 1
      BY <1>2, <1>6 DEF Positions
    <3>3. k \notin rawFile' => e = "RETENTION_DELETED"
      BY <1>1, <2>1
    <3> QED  BY <1>2, <1>3, <1>6, <3>1, <3>2, <3>3
  <2>2. CASE k # j
    <3>1. metaFile'[k] = metaFile[k] /\ (k \in rawFile' <=> k \in rawFile)
      BY <1>1, <1>2, <2>2
    <3>2. Positions(Coming', k) = Positions(ledger, k)
      BY <1>2, <1>3, <1>6, <2>2 DEF Positions
    <3>3. metaFile[k] \in Positions(ledger, k) => Coming'[metaFile[k]] = ledger[metaFile[k]]
      BY <1>6 DEF Positions
    <3>4. metaFile[k] \in Nat
      BY <1>2
    <3> QED  BY <1>2, <1>6, <1>7, <3>1, <3>2, <3>3, <3>4
  <2> QED  BY <2>1, <2>2
<1>9. WriterInv'
  <2>1. rawFile' \subseteq PpJobs /\ metaFile' \in [PpJobs -> Nat]
    BY <1>1, <1>2
  <2> QED  BY <1>1, <1>2, <1>3, <1>5, <1>8, <2>1 DEF WriterInv
<1>10. ReaderInv'
  BY <1>1 DEF PpInv, ReaderInv, WriteMetadata
<1>11. PpEnvelopeIsCommitted'
  BY <1>1 DEF PpInv, PpEnvelopeIsCommitted, WriteMetadata
<1>12. PpRefusalHasCause'
  <2> SUFFICES ASSUME NEW x \in refused PROVE metaFile'[x.job] > x.latest
    BY DEF PpRefusalHasCause, WriteMetadata
  <2>1. x.job \in PpJobs /\ x.latest \in Nat /\ metaFile[x.job] > x.latest
    BY DEF PpInv, ReaderInv, PpRefusalHasCause
  <2>2. metaFile[x.job] \in Nat /\ metaFile[x.job] <= N
    BY <1>2, <1>7, <2>1
  <2>3. metaFile'[x.job] = IF x.job = j THEN N + 1 ELSE metaFile[x.job]
    BY <1>1, <1>2, <2>1
  <2> QED  BY <1>2, <2>1, <2>2, <2>3
<1> QED  BY <1>9, <1>10, <1>11, <1>12 DEF PpInv

(* The printproxy appends the record and advances the head: the ledger as it *)
(* will be is the same.                                                      *)
LEMMA PpAppends ==
    ASSUME PpInv, AppendRecord \/ AdvanceHead
    PROVE  PpInv'
<1>1. /\ ledger \in Seq(PpRecord) /\ Len(ledger) \in Nat /\ head \in Nat
      /\ writing \in PpRecord /\ writing # NoWrite
      /\ head <= Len(ledger) /\ Len(ledger) <= head + 1
  BY DEF PpInv, WriterInv, AppendRecord, AdvanceHead
<1>2. /\ rawFile' = rawFile /\ metaFile' = metaFile /\ at' = at /\ snapshot' = snapshot
      /\ todo' = todo /\ loading' = loading /\ delivered' = delivered /\ refused' = refused
  BY DEF AppendRecord, AdvanceHead
<1>3. /\ Coming' = Coming
      /\ ledger' \in Seq(PpRecord) /\ writing' \in PpRecord \cup {NoWrite} /\ head' \in Nat
      /\ Begins(ledger, ledger')
      /\ head <= head' /\ head' <= Len(ledger') /\ Len(ledger') <= head' + 1
      /\ writing' = NoWrite => Len(ledger') = head'
  <2>1. CASE AppendRecord /\ ledger' = ledger
    BY <1>1, <2>1 DEF AppendRecord, Coming, Begins
  <2>2. CASE AppendRecord /\ ledger' = Append(ledger, writing)
    <3>1. writing' = writing /\ head' = head /\ Len(ledger) = head
      BY <2>2 DEF AppendRecord
    <3>2. /\ ledger' \in Seq(PpRecord) /\ Len(ledger') = head + 1
          /\ \A i \in 1..Len(ledger) : ledger[i] = ledger'[i]
      BY <1>1, <2>2, <3>1
    <3>3. Coming' = Coming
      BY <1>1, <2>2, <3>1, <3>2 DEF Coming
    <3> QED  BY <1>1, <3>1, <3>2, <3>3 DEF Begins
  <2>3. CASE AdvanceHead
    BY <1>1, <2>3 DEF AdvanceHead, Coming, Begins
  <2> QED  BY <2>1, <2>2, <2>3 DEF AppendRecord
<1>4. WriterInv'
  <2>1. Lawful(Coming) /\ rawFile \subseteq PpJobs /\ metaFile \in [PpJobs -> Nat]
    BY DEF PpInv, WriterInv
  <2>2. \A j \in PpJobs :
          /\ \A i \in Positions(Coming, j) : i <= metaFile[j]
          /\ metaFile[j] <= Len(Coming)
          /\ j \notin rawFile /\ metaFile[j] \in Positions(Coming, j)
               => Coming[metaFile[j]].event = "RETENTION_DELETED"
    BY DEF PpInv, WriterInv
  <2> QED  BY <1>2, <1>3, <2>1, <2>2 DEF WriterInv
<1>5. ReaderInv'
  <2>1. at \in {"head", "load"} => Begins(snapshot, ledger')
    <3> SUFFICES ASSUME at \in {"head", "load"} PROVE Begins(snapshot, ledger')
      OBVIOUS
    <3>1. Begins(snapshot, ledger) /\ Len(snapshot) \in Nat
      BY DEF PpInv, ReaderInv
    <3>2. Len(ledger') \in Nat
      BY <1>3
    <3> QED  BY <1>1, <1>3, <3>1, <3>2 DEF Begins
  <2>2. at = "load" => Len(snapshot) <= head'
    BY <1>1, <1>3 DEF PpInv, ReaderInv
  <2> QED  BY <1>2, <2>1, <2>2 DEF PpInv, ReaderInv
<1>6. PpEnvelopeIsCommitted'
  BY <1>1, <1>2, <1>3, CommittedStays DEF PpInv
<1>7. PpRefusalHasCause'
  BY <1>2 DEF PpInv, PpRefusalHasCause
<1> QED  BY <1>4, <1>5, <1>6, <1>7 DEF PpInv

(* The steps of the adapter leave the archive alone.                         *)
LEMMA ArchiveStays ==
    ASSUME WriterInv, UNCHANGED archive
    PROVE  WriterInv' /\ Coming' = Coming
<1>1. Coming' = Coming
  BY DEF archive, Coming
<1> QED  BY <1>1 DEF WriterInv, archive

(* The reads of the head and of the ledger.                                  *)
LEMMA PpReads ==
    ASSUME PpInv, ReadHead \/ ReadLedger \/ ReadHeadAgain \/ EndPoll
    PROVE  PpInv'
<1>1. UNCHANGED archive /\ delivered' = delivered /\ refused' = refused /\ loading' = loading
  BY DEF ReadHead, ReadLedger, ReadHeadAgain, EndPoll
<1>2. WriterInv'
  BY <1>1, ArchiveStays DEF PpInv
<1>3. PpEnvelopeIsCommitted' /\ PpRefusalHasCause'
  BY <1>1 DEF PpInv, PpEnvelopeIsCommitted, PpRefusalHasCause, archive
<1>4. ReaderInv'
  <2>1. CASE ReadHead
    BY <2>1 DEF ReadHead, PpInv, ReaderInv, archive
  <2>2. CASE ReadLedger
    <3>1. Begins(ledger, ledger) /\ ledger \in Seq(PpRecord)
      BY DEF PpInv, WriterInv, Begins
    <3> QED  BY <2>2, <3>1 DEF ReadLedger, PpInv, ReaderInv, archive
  <2>3. CASE EndPoll
    BY <2>3 DEF EndPoll, PpInv, ReaderInv, archive
  <2>4. CASE ReadHeadAgain
    <3>1. CASE SnapshotBusy(head)
      BY <2>4, <3>1 DEF ReadHeadAgain, PpInv, ReaderInv, archive
    <3>2. CASE ~SnapshotBusy(head)
      <4>1. /\ at = "head" /\ at' = "load" /\ snapshot' = snapshot /\ head' = head /\ ledger' = ledger
            /\ todo' = {j \in PpJobs : ~ValidHistory(j) \/ IsCandidate(snapshot, j)}
        BY <2>4, <3>2 DEF ReadHeadAgain, archive
      <4>2. /\ snapshot \in Seq(PpRecord) /\ Begins(snapshot, ledger) /\ loading = {}
            /\ Len(snapshot) = head /\ head \in Nat
        BY <3>2, <4>1 DEF PpInv, WriterInv, ReaderInv, SnapshotBusy
      <4>3. /\ Lawful(Coming) /\ ledger \in Seq(PpRecord) /\ writing \in PpRecord \cup {NoWrite}
        BY DEF PpInv, WriterInv
      <4>4. Coming \in Seq(PpRecord) /\ Begins(ledger, Coming)
        BY <4>3, ComingContinues
      <4>5. Begins(snapshot, Coming)
        <5>1. Len(snapshot) \in Nat /\ Len(ledger) \in Nat /\ Len(Coming) \in Nat
          BY <4>2, <4>3, <4>4
        <5> QED  BY <4>2, <4>4, <5>1 DEF Begins
      <4>6. \A j : ValidHistory(j)
        BY <4>2, <4>3, <4>4, <4>5, ValidPrefix
      <4>7. \A j \in todo' \cup loading' : j \in PpJobs /\ IsCandidate(snapshot, j)
        BY <1>1, <4>1, <4>2, <4>6
      <4>8. Len(snapshot') <= head'
        BY <4>1, <4>2
      <4> QED  BY <1>1, <4>1, <4>2, <4>7, <4>8 DEF PpInv, ReaderInv
    <3> QED  BY <3>1, <3>2
  <2> QED  BY <2>1, <2>2, <2>3, <2>4
<1> QED  BY <1>2, <1>3, <1>4 DEF PpInv

(* What a poll that loads knows of a candidate.                              *)
LEMMA CandidateKnown ==
    ASSUME PpInv, at = "load", NEW j \in todo \cup loading, NEW last, last = Last(snapshot, j)
    PROVE  /\ j \in PpJobs /\ snapshot \in Seq(PpRecord) /\ ledger \in Seq(PpRecord)
           /\ last \in Nat /\ last \in 1..Len(snapshot) /\ last \in 1..head /\ last \in 1..Len(ledger)
           /\ snapshot[last] = ledger[last] /\ ledger[last].job = j
           /\ ledger[last].event \in Events \ {"RETENTION_DELETE_STARTED", "RETENTION_DELETED"}
           /\ IsCandidate(SubSeq(ledger, 1, last), j)
           /\ ValidHistory(j)
           /\ last <= metaFile[j]
           /\ j \notin rawFile => last # metaFile[j]
<1>1. /\ j \in PpJobs /\ snapshot \in Seq(PpRecord) /\ ledger \in Seq(PpRecord)
      /\ Begins(snapshot, ledger) /\ IsCandidate(snapshot, j) /\ Len(snapshot) <= head
      /\ head \in Nat /\ head <= Len(ledger) /\ Lawful(Coming)
      /\ writing \in PpRecord \cup {NoWrite}
  BY DEF PpInv, WriterInv, ReaderInv
<1>2. Coming \in Seq(PpRecord) /\ Begins(ledger, Coming)
  BY <1>1, ComingContinues
<1>3. /\ Len(snapshot) \in Nat /\ Len(ledger) \in Nat /\ Len(Coming) \in Nat
      /\ Len(snapshot) <= Len(ledger) /\ Len(ledger) <= Len(Coming)
      /\ \A i \in 1..Len(snapshot) : snapshot[i] = ledger[i] /\ snapshot[i] = Coming[i]
  BY <1>1, <1>2 DEF Begins
<1>4. PICK a \in Positions(snapshot, j) : snapshot[a].event = "ARCHIVED"
  BY <1>1 DEF IsCandidate
<1>5. \A i \in Positions(snapshot, j) :
         snapshot[i].event \notin {"RETENTION_DELETE_STARTED", "RETENTION_DELETED"}
  BY <1>1 DEF IsCandidate, Retained
<1>6. last \in Positions(snapshot, j) /\ \A k \in Positions(snapshot, j) : k <= last
  BY <1>3, <1>4, LastRecord
<1>7. /\ last \in 1..Len(snapshot) /\ snapshot[last].job = j
      /\ a \in 1..Len(snapshot) /\ snapshot[a].job = j /\ a <= last
  BY <1>4, <1>6 DEF Positions
<1>8. /\ last \in Nat /\ last \in 1..head /\ last \in 1..Len(ledger) /\ last \in 0..Len(ledger)
      /\ snapshot[last] = ledger[last] /\ ledger[last].job = j /\ a \in 1..last
  BY <1>1, <1>3, <1>7
<1>9. ledger[last].event \in Events \ {"RETENTION_DELETE_STARTED", "RETENTION_DELETED"}
  <2>1. ledger[last] \in PpRecord
    BY <1>1, <1>8
  <2>2. ledger[last].event \in Events
    BY <2>1 DEF PpRecord
  <2> QED  BY <1>5, <1>6, <1>8, <2>2
<1>10. IsCandidate(SubSeq(ledger, 1, last), j)
  <2>1. ledger[a].job = j /\ ledger[a].event = "ARCHIVED"
    BY <1>3, <1>4, <1>7
  <2>2. \A i \in 1..last : ledger[i].job = j =>
           ledger[i].event \notin {"RETENTION_DELETE_STARTED", "RETENTION_DELETED"}
    <3> SUFFICES ASSUME NEW i \in 1..last, ledger[i].job = j
                 PROVE  ledger[i].event \notin {"RETENTION_DELETE_STARTED", "RETENTION_DELETED"}
      OBVIOUS
    <3>1. i \in 1..Len(snapshot)
      BY <1>3, <1>7
    <3>2. snapshot[i] = ledger[i]
      BY <1>3, <3>1
    <3> QED  BY <1>5, <3>1, <3>2 DEF Positions
  <2> QED  BY <1>1, <1>8, <2>1, <2>2, CandidateOf
<1>11. ValidHistory(j)
  <2>1. Begins(snapshot, Coming)
    BY <1>3 DEF Begins
  <2> QED  BY <1>1, <1>2, <2>1, ValidPrefix
<1>12. last \in Positions(Coming, j) /\ Coming[last] = ledger[last]
  BY <1>3, <1>7, <1>8 DEF Positions
<1>13. last <= metaFile[j]
  BY <1>1, <1>12 DEF PpInv, WriterInv
<1>14. j \notin rawFile => last # metaFile[j]
  <2>1. j \notin rawFile /\ metaFile[j] \in Positions(Coming, j)
          => Coming[metaFile[j]].event = "RETENTION_DELETED"
    BY <1>1 DEF PpInv, WriterInv
  <2> QED  BY <1>9, <1>12, <2>1
<1> QED  BY <1>1, <1>7, <1>8, <1>9, <1>10, <1>11, <1>13, <1>14

(* A refusal of a candidate whose metadata is ahead of the snapshot.         *)
LEMMA PpRefuses ==
    ASSUME PpInv, NEW j \in PpJobs, Last(snapshot, j) \in Nat, metaFile[j] > Last(snapshot, j),
           Refuse(j), UNCHANGED archive
    PROVE  refused' \subseteq [job : PpJobs, latest : Nat] /\ PpRefusalHasCause'
<1> DEFINE r == [job |-> j, latest |-> Last(snapshot, j)]
<1>1. refused' = refused \cup {r} /\ metaFile' = metaFile
  BY DEF Refuse, archive
<1>2. r \in [job : PpJobs, latest : Nat] /\ metaFile[r.job] > r.latest
  OBVIOUS
<1> QED  BY <1>1, <1>2 DEF PpInv, ReaderInv, PpRefusalHasCause

LEMMA PpLoadsRaw ==
    ASSUME PpInv, NEW j \in PpJobs, LoadRaw(j)
    PROVE  PpInv'
<1> DEFINE last == Last(snapshot, j)
<1>1. /\ at = "load" /\ at' = at /\ loading = {} /\ j \in todo /\ todo' = todo \ {j}
      /\ UNCHANGED archive /\ snapshot' = snapshot /\ delivered' = delivered
  BY DEF LoadRaw
<1>2. WriterInv' /\ PpEnvelopeIsCommitted'
  BY <1>1, ArchiveStays DEF PpInv, PpEnvelopeIsCommitted, archive
<1>3. /\ last \in Nat /\ ValidHistory(j) /\ last <= metaFile[j]
      /\ j \notin rawFile => last # metaFile[j]
  BY <1>1, CandidateKnown
<1>4. metaFile[j] \in Nat
  BY DEF PpInv, WriterInv
<1>5. refused' \subseteq [job : PpJobs, latest : Nat] /\ PpRefusalHasCause'
  <2>1. CASE j \in rawFile
    BY <1>1, <1>3, <2>1 DEF LoadRaw, PpInv, ReaderInv, PpRefusalHasCause, archive
  <2>2. CASE j \notin rawFile
    <3>1. Refuse(j)
      BY <2>2 DEF LoadRaw
    <3>2. metaFile[j] > last
      BY <1>3, <1>4, <2>2
    <3> QED  BY <1>1, <1>3, <3>1, <3>2, PpRefuses
  <2> QED  BY <2>1, <2>2
<1>6. todo' \cup loading' \subseteq todo \cup loading
  BY <1>1 DEF LoadRaw
<1>7. ReaderInv'
  BY <1>1, <1>5, <1>6 DEF PpInv, ReaderInv, archive
<1> QED  BY <1>2, <1>5, <1>7 DEF PpInv

(* Every state before the deletion is one the adapter supports.              *)
LEMMA SafeUntilDeleted ==
    ASSUME NEW e \in Events \ {"RETENTION_DELETE_STARTED", "RETENTION_DELETED"}
    PROVE  EventStatus[e] \in SafeState
BY DEF Events, EventStatus, SafeState

LEMMA PpLoadsMetadata ==
    ASSUME PpInv, NEW j \in PpJobs, LoadMetadata(j)
    PROVE  PpInv'
<1>0. PICK last : last = Last(snapshot, j)
  OBVIOUS
<1>1. /\ at = "load" /\ at' = at /\ j \in loading /\ loading' = {} /\ todo' = todo
      /\ UNCHANGED archive /\ snapshot' = snapshot
  BY DEF LoadMetadata
<1>2. WriterInv'
  BY <1>1, ArchiveStays DEF PpInv
<1>3. /\ last \in Nat /\ last \in 1..head /\ last \in 1..Len(ledger)
      /\ snapshot[last] = ledger[last] /\ ledger[last].job = j
      /\ ledger[last].event \in Events \ {"RETENTION_DELETE_STARTED", "RETENTION_DELETED"}
      /\ IsCandidate(SubSeq(ledger, 1, last), j)
      /\ last <= metaFile[j]
  BY <1>0, <1>1, CandidateKnown
<1>4. PICK status : status = EventStatus[snapshot[last].event]
  OBVIOUS
<1>5. status \in SafeState /\ status \in {EventStatus[e] : e \in Events}
  BY <1>3, <1>4, SafeUntilDeleted
<1>6. metaFile[j] \in Nat
  BY DEF PpInv, WriterInv
<1> DEFINE d == [job |-> j, latest |-> last, status |-> status,
                 complete |-> status \notin {"PARTIAL", "DUPLEX_ABORTED"}]
<1>7. \/ delivered' = delivered \cup {d} /\ refused' = refused
      \/ ~MetadataBound(j) /\ Refuse(j) /\ delivered' = delivered
  BY <1>0, <1>4, <1>5 DEF LoadMetadata
<1>8. refused' \subseteq [job : PpJobs, latest : Nat] /\ PpRefusalHasCause'
  <2>1. CASE refused' = refused
    BY <1>1, <2>1 DEF PpInv, ReaderInv, PpRefusalHasCause, archive
  <2>2. CASE ~MetadataBound(j) /\ Refuse(j)
    <3>1. metaFile[j] > Last(snapshot, j)
      BY <1>0, <1>3, <1>6, <2>2 DEF MetadataBound
    <3> QED  BY <1>0, <1>1, <1>3, <2>2, <3>1, PpRefuses
  <2> QED  BY <1>7, <2>1, <2>2
<1>9. /\ d.job = j /\ d.latest = last /\ d.status = status
      /\ d \in [job : PpJobs, latest : Nat, status : {EventStatus[e] : e \in Events}, complete : BOOLEAN]
  BY <1>3, <1>5
<1> HIDE DEF d
<1>10. PpEnvelopeIsCommitted'
  <2>1. ASSUME NEW x \in delivered'
        PROVE  /\ x.latest \in Positions(SubSeq(ledger, 1, head), x.job)
               /\ x.status = EventStatus[ledger[x.latest].event]
               /\ IsCandidate(SubSeq(ledger, 1, x.latest), x.job)
    <3>1. CASE x \in delivered
      <4>1. PpEnvelopeIsCommitted
        BY DEF PpInv
      <4> QED  BY <3>1, <4>1, Zenon DEF PpEnvelopeIsCommitted
    <3>2. CASE x = d
      <4>1. ledger \in Seq(PpRecord) /\ head \in 0..Len(ledger)
        BY DEF PpInv, WriterInv
      <4>2. Positions(SubSeq(ledger, 1, head), j) = {i \in 1..head : ledger[i].job = j}
        BY <4>1, PrefixOf
      <4>3. last \in Positions(SubSeq(ledger, 1, head), j)
        BY <1>3, <4>2
      <4> QED  BY <1>3, <1>4, <1>9, <3>2, <4>3
    <3> QED  BY <1>7, <3>1, <3>2
  <2> QED  BY <1>1, <2>1 DEF PpEnvelopeIsCommitted, archive
<1>11. delivered' \subseteq [job : PpJobs, latest : Nat, status : {EventStatus[e] : e \in Events}, complete : BOOLEAN]
  BY <1>7, <1>9 DEF PpInv, ReaderInv
<1>12. ReaderInv'
  BY <1>1, <1>8, <1>11 DEF PpInv, ReaderInv, archive
<1> QED  BY <1>2, <1>8, <1>10, <1>12 DEF PpInv

(* The inductive invariant of PrintProxyV3Adapter next to the printproxy.    *)
THEOREM PpInvariant == PpSpec => []PpInv
<1>1. PpInit => PpInv
  <2> SUFFICES ASSUME PpInit PROVE PpInv
    OBVIOUS
  <2>1. /\ ledger = <<>> /\ Coming = <<>> /\ Len(ledger) = 0 /\ ledger \in Seq(PpRecord)
        /\ writing = NoWrite /\ head = 0 /\ rawFile = {} /\ metaFile = [j \in PpJobs |-> 0]
    BY DEF PpInit, Coming
  <2>2. Lawful(Coming) /\ \A j : Positions(Coming, j) = {}
    BY <2>1 DEF Lawful, Positions
  <2>3. WriterInv
    BY <2>1, <2>2 DEF WriterInv
  <2> QED  BY <2>3 DEF PpInit, PpInv, ReaderInv, PpEnvelopeIsCommitted, PpRefusalHasCause
<1>2. PpInv /\ [PpNext]_ppVars => PpInv'
  <2> SUFFICES ASSUME PpInv, [PpNext]_ppVars PROVE PpInv'
    OBVIOUS
  <2>1. CASE \E j \in PpJobs, e \in Events : WriteMetadata(j, e)
    BY <2>1, PpWritesMetadata
  <2>2. CASE AppendRecord \/ AdvanceHead
    BY <2>2, PpAppends
  <2>3. CASE ReadHead \/ ReadLedger \/ ReadHeadAgain \/ EndPoll
    BY <2>3, PpReads
  <2>4. CASE \E j \in PpJobs : LoadRaw(j)
    BY <2>4, PpLoadsRaw
  <2>5. CASE \E j \in PpJobs : LoadMetadata(j)
    BY <2>5, PpLoadsMetadata
  <2>6. CASE UNCHANGED ppVars
    <3>1. WriterInv'
      BY <2>6, ArchiveStays DEF ppVars, archive, PpInv
    <3> QED  BY <2>6, <3>1 DEF ppVars, PpInv, ReaderInv, PpEnvelopeIsCommitted, PpRefusalHasCause
  <2> QED  BY <2>1, <2>2, <2>3, <2>4, <2>5, <2>6 DEF PpNext, PpPoll
<1> QED  BY <1>1, <1>2, PTL DEF PpSpec

(* An envelope shows one committed state of its job, however the reads of    *)
(* head, ledger, RAW and metadata fall between the printproxy's writes.      *)
THEOREM PpCommitted == PpSpec => []PpEnvelopeIsCommitted
<1>1. PpInv => PpEnvelopeIsCommitted
  BY DEF PpInv
<1> QED  BY <1>1, PpInvariant, PTL

(* A job is refused only if the printproxy moved it on after the ledger was  *)
(* read: none is quarantined for a state the adapter could have delivered.   *)
THEOREM PpRefusalCause == PpSpec => []PpRefusalHasCause
<1>1. PpInv => PpRefusalHasCause
  BY DEF PpInv
<1> QED  BY <1>1, PpInvariant, PTL

=============================================================================
