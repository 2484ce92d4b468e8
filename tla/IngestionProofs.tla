--------------------------- MODULE IngestionProofs ---------------------------
(***************************************************************************)
(* Evidence is imported exactly once, for any jobs, devices, sessions,     *)
(* window, number of retries and of faults, and whatever the tree does     *)
(* while the service and the importer run side by side.                    *)
(***************************************************************************)
EXTENDS Ingestion, FiniteSetTheorems, TLAPS

Types ==
    /\ source \in [Jobs -> 0..MaxVersion]
    /\ stored \subseteq Keys
    /\ items \in [Keys -> Nat]
    /\ holder \in [Devices -> Procs \cup {Nobody}]
    /\ pc \in [Procs -> Pcs]
    /\ cursor \in [Procs -> Nat]
    /\ queue \in [Procs -> Seq(Jobs)]
    /\ key \in [Procs -> Keys \cup {NoKey}]

LEMMA InvTypes == IngestionInv => Types
BY DEF IngestionInv, Types

LEMMA KeyParts ==
    ASSUME NEW k \in Keys
    PROVE  /\ k[1] \in Jobs /\ DeviceOf[k[1]] \in Devices
           /\ k[2] \in Versions
           /\ k = <<k[1], k[2]>>
BY DEF Keys, Devices

LEMMA Nothing == Nobody \notin Procs /\ "none" \notin Procs /\ "committed" \notin Procs
BY ProcsAssumption DEF Nobody, Procs

(* What a step of another process, or of the tree, may do: jobs are added    *)
(* but never changed back, locks of q stay with q, and what is committed is  *)
(* committed under the lock.                                                 *)
LEMMA OtherProcess ==
    ASSUME IngestionInv, NEW p \in Procs, NEW q \in Procs, q # p,
           pc'[q] = pc[q], key'[q] = key[q], queue'[q] = queue[q],
           \A j \in Jobs : source[j] > 0 => source'[j] > 0,
           stored' = stored \/ (pc[p] = "commit" /\ stored' = stored \cup {key[p]}),
           \A d \in Devices : holder[d] = q => holder'[d] = q
    PROVE  ProcessInv(q)'
<1>1. Types /\ ProcessInv(p) /\ ProcessInv(q)
  BY InvTypes DEF IngestionInv
<1>2. \A i \in 1..Len(queue'[q]) : source'[queue'[q][i]] > 0
  <2> SUFFICES ASSUME NEW i \in 1..Len(queue[q]) PROVE source'[queue[q][i]] > 0
    OBVIOUS
  <2>1. queue[q][i] \in Jobs /\ source[queue[q][i]] > 0
    BY <1>1 DEF Types, ProcessInv
  <2> QED  BY <2>1
<1>3. pc'[q] \in Transaction => key'[q] \in Keys
  BY <1>1 DEF ProcessInv
<1>4. ASSUME pc[q] \in Holding
      PROVE  holder'[DeviceOf[key[q][1]]] = q
  <2>1. key[q] \in Keys
    BY <1>1, <1>4 DEF ProcessInv, Holding, Transaction
  <2> QED  BY <1>1, <1>4, <2>1, KeyParts DEF ProcessInv
<1>5. ASSUME pc[q] \in Holding \ {"insert"}
      PROVE  ~IdentityTaken(key[q])'
  <2>1. ~IdentityTaken(key[q])
    BY <1>1, <1>5 DEF ProcessInv
  <2>2. CASE pc[p] = "commit" /\ stored' = stored \cup {key[p]}
    <3>1. /\ holder[DeviceOf[key[p][1]]] = p
          /\ holder[DeviceOf[key[q][1]]] = q
      BY <1>1, <1>5, <2>2 DEF ProcessInv, Holding
    <3>2. key[p][1] # key[q][1]
      BY <3>1
    <3> QED  BY <2>1, <2>2, <3>2 DEF IdentityTaken
  <2> QED  BY <2>1, <2>2 DEF IdentityTaken
<1>6. stored \subseteq stored'
  OBVIOUS
<1>7. /\ IdentityTaken(key[q]) => IdentityTaken(key[q])'
      /\ ChunksTaken(key[q]) => ChunksTaken(key[q])'
  BY <1>6 DEF IdentityTaken, ChunksTaken
<1> QED
  BY <1>1, <1>2, <1>3, <1>4, <1>5, <1>7 DEF ProcessInv, IdentityTaken, ChunksTaken

(* A step that commits nothing keeps the invariant if the process that takes *)
(* it keeps its part.                                                        *)
LEMMA NothingStored ==
    ASSUME IngestionInv, NEW p \in Procs, Types', ProcessInv(p)', FirstVersion(key'[p]),
           UNCHANGED <<source, stored, items>>,
           \A q \in Procs \ {p} : /\ pc'[q] = pc[q] /\ key'[q] = key[q] /\ queue'[q] = queue[q]
                                  /\ \A d \in Devices : holder[d] = q => holder'[d] = q
    PROVE  IngestionInv'
<1>1. \A q \in Procs : ProcessInv(q)'
  BY OtherProcess
<1>2. \A q \in Procs : FirstVersion(key'[q])
  BY DEF IngestionInv
<1>3. ImportedOnce'
  BY DEF IngestionInv, ImportedOnce
<1>4. /\ \A j \in Jobs \ Moving : source'[j] <= 1
      /\ \A k \in stored' : FirstVersion(k)
  BY DEF IngestionInv
<1> QED
  BY <1>1, <1>2, <1>3, <1>4 DEF IngestionInv, Types, FirstVersion

LEMMA InvInit == Init => IngestionInv
<1> SUFFICES ASSUME Init PROVE IngestionInv
  OBVIOUS
<1>1. Types
  BY BoundsAssumption, SourceAssumption
  DEF Init, Types, Keys, Versions, NoKey, Nobody, Pcs
<1>2. \A p \in Procs : ProcessInv(p)
  BY DEF Init, ProcessInv, Transaction, Holding
<1>3. NoKey \notin Keys
  BY BoundsAssumption DEF NoKey, Keys, Versions
<1>4. \A p \in Procs : FirstVersion(key[p])
  BY <1>3 DEF Init, FirstVersion
<1>5. \A j \in Jobs \ Moving : source[j] <= 1
  BY DEF Init
<1>6. stored = {} /\ ImportedOnce
  BY DEF Init, ImportedOnce
<1> QED  BY <1>1, <1>2, <1>4, <1>5, <1>6 DEF IngestionInv, Types

-----------------------------------------------------------------------------
(* Steps outside the transactions.                                         *)

LEMMA Outside ==
    ASSUME IngestionInv, NEW p \in Procs, NEW next \in Pcs \ Transaction,
           UNCHANGED <<source, stored, items, holder>>,
           cursor' \in [Procs -> Nat],
           pc' = [pc EXCEPT ![p] = next],
           key' = key \/ key' = [key EXCEPT ![p] = NoKey],
           \/ queue' = queue
           \/ queue' = [queue EXCEPT ![p] = <<>>]
           \/ queue[p] # <<>> /\ queue' = [queue EXCEPT ![p] = Tail(queue[p])]
    PROVE  IngestionInv'
<1>1. Types /\ ProcessInv(p)
  BY InvTypes DEF IngestionInv
<1>2. queue' \in [Procs -> Seq(Jobs)]
  <2>1. queue \in [Procs -> Seq(Jobs)] /\ queue[p] \in Seq(Jobs)
    BY <1>1 DEF Types
  <2>2. <<>> \in Seq(Jobs) /\ (queue[p] # <<>> => Tail(queue[p]) \in Seq(Jobs))
    BY <2>1
  <2> QED  BY <2>1, <2>2
<1>3. Types'
  BY <1>1, <1>2 DEF Types
<1>4. \A i \in 1..Len(queue'[p]) : source'[queue'[p][i]] > 0
  <2>1. queue[p] \in Seq(Jobs)
    BY <1>1 DEF Types
  <2>2. CASE queue[p] # <<>> /\ queue' = [queue EXCEPT ![p] = Tail(queue[p])]
    <3>1. /\ queue'[p] = Tail(queue[p])
          /\ \A i \in 1..Len(queue[p]) : source[queue[p][i]] > 0
      BY <1>1, <2>2 DEF Types, ProcessInv
    <3>2. /\ Len(Tail(queue[p])) = Len(queue[p]) - 1
          /\ \A i \in 1..Len(queue[p]) - 1 : Tail(queue[p])[i] = queue[p][i + 1]
      BY <2>1, <2>2
    <3> QED  BY <2>1, <3>1, <3>2
  <2> QED  BY <1>1, <2>2 DEF Types, ProcessInv
<1>5. pc'[p] = next /\ next \notin Transaction
  BY <1>1 DEF Types
<1>6. ProcessInv(p)'
  BY <1>4, <1>5 DEF ProcessInv, Holding, Transaction
<1>7. FirstVersion(key'[p])
  <2>1. NoKey \notin Keys
    BY BoundsAssumption DEF NoKey, Keys, Versions
  <2> QED  BY <1>1, <2>1 DEF Types, FirstVersion, IngestionInv
<1>8. \A q \in Procs \ {p} : /\ pc'[q] = pc[q] /\ key'[q] = key[q] /\ queue'[q] = queue[q]
                             /\ \A d \in Devices : holder[d] = q => holder'[d] = q
  BY <1>1 DEF Types
<1> QED  BY <1>3, <1>6, <1>7, <1>8, NothingStored

LEMMA StepOutside ==
    ASSUME IngestionInv, NEW p \in Procs,
           \/ BeginBatch(p) \/ DiscoverFails(p) \/ DiscoverBusy(p) \/ LoadBusy(p) \/ Quarantine(p)
           \/ CompleteBatch(p) \/ SkipBatch(p) \/ RefreshStatuses(p)
    PROVE  IngestionInv'
<1>1. Types
  BY InvTypes
<1>2. CASE BeginBatch(p)
  BY <1>1, <1>2, Outside DEF BeginBatch, Types, tree, db, scan, Pcs, Transaction
<1>3. CASE DiscoverFails(p)
  BY <1>1, <1>3, Outside DEF DiscoverFails, Types, tree, db, scan, Pcs, Transaction
<1>9. CASE DiscoverBusy(p)
  BY <1>1, <1>9, Outside DEF DiscoverBusy, Types, tree, db, Pcs, Transaction
<1>4. CASE LoadBusy(p)
  <2>1. pc' = [pc EXCEPT ![p] = "scan"]
    BY <1>1, <1>4 DEF LoadBusy, Types
  <2> QED  BY <1>1, <1>4, <2>1, Outside DEF LoadBusy, Types, tree, db, scan, Pcs, Transaction
<1>5. CASE Quarantine(p)
  <2>1. pc' = [pc EXCEPT ![p] = "scan"] \/ pc' = [pc EXCEPT ![p] = "quarantine"]
    BY <1>5 DEF Quarantine, RetryFrom
  <2>2. UNCHANGED <<source, stored, items, holder, cursor, queue, key>>
    BY <1>5 DEF Quarantine, tree, db
  <2> QED  BY <1>1, <2>1, <2>2, Outside DEF Types, Pcs, Transaction
<1>6. CASE CompleteBatch(p)
  BY <1>1, <1>6, Outside DEF CompleteBatch, Step, Types, tree, db, scan, Pcs, Transaction
<1>7. CASE SkipBatch(p)
  BY <1>1, <1>7, Outside DEF SkipBatch, Step, Types, tree, db, scan, Pcs, Transaction
<1>8. CASE RefreshStatuses(p)
  <2>1. (IF p = Service THEN "begin" ELSE "passed") \in Pcs \ Transaction
    BY DEF Pcs, Transaction
  <2> QED  BY <1>1, <1>8, <2>1, Outside DEF RefreshStatuses, Step, Types, tree, db
<1> QED  BY <1>2, <1>3, <1>4, <1>5, <1>6, <1>7, <1>8, <1>9

(* A discovery offers jobs that are in the tree.                             *)
LEMMA StepDiscover ==
    ASSUME IngestionInv, NEW p \in Procs, Discover(p)
    PROVE  IngestionInv'
<1>1. Types /\ ProcessInv(p)
  BY InvTypes DEF IngestionInv
<1> DEFINE n == Cardinality(Present)
<1>2. Present \subseteq Jobs /\ n \in Nat
  BY SourceAssumption, FS_Subset, FS_CardinalityType DEF Present
<1>3. PICK s \in [1..n -> Present] : queue' = [queue EXCEPT ![p] = Rotated(s, cursor[p])]
  BY DEF Discover, Candidates
<1>4. s \in Seq(Present) /\ Len(s) = n
  BY <1>2
<1>5. Window \in Nat \ {0} /\ cursor[p] \in Nat
  BY <1>1, BoundsAssumption DEF Types
<1>6. Rotated(s, cursor[p]) \in Seq(Present)
  <2>1. CASE n > Window
    <3>1. \A m \in Nat : m % n \in 0..n - 1
      BY <1>2, <1>5, <2>1
    <3>2. \A i \in 1..Window : (((cursor[p] % n) + i - 1) % n) + 1 \in 1..n
      <4> HIDE DEF n
      <4> TAKE i \in 1..Window
      <4>1. cursor[p] % n \in 0..n - 1
        BY <1>5, <3>1
      <4>2. (cursor[p] % n) + i - 1 \in Nat
        BY <1>2, <1>5, <2>1, <4>1
      <4>3. ((cursor[p] % n) + i - 1) % n \in 0..n - 1
        BY <3>1, <4>2
      <4> QED  BY <1>2, <2>1, <4>3
    <3>3. [i \in 1..Window |-> s[(((cursor[p] % n) + i - 1) % n) + 1]] \in [1..Window -> Present]
      BY <3>2
    <3> QED  BY <1>2, <1>4, <1>5, <2>1, <3>3 DEF Rotated
  <2> QED  BY <1>2, <1>4, <1>5, <2>1 DEF Rotated
<1>7. NextCursor(cursor[p]) \in Nat
  <2>1. CASE n > Window
    <3>1. \A m \in Nat : m % n \in Nat
      BY <1>2, <1>5, <2>1
    <3>2. NextCursor(cursor[p]) = ((cursor[p] % n) + Window) % n
      BY <1>2, <1>5, <2>1 DEF NextCursor
    <3> HIDE DEF n
    <3>3. cursor[p] % n \in Nat
      BY <1>5, <3>1
    <3>4. (cursor[p] % n) + Window \in Nat
      BY <1>5, <3>3
    <3> QED  BY <3>1, <3>2, <3>4
  <2> QED  BY <1>2, <1>5, <2>1 DEF NextCursor
<1> HIDE DEF n
<1>8. /\ queue'[p] \in Seq(Present)
      /\ queue' \in [Procs -> Seq(Jobs)]
      /\ cursor' \in [Procs -> Nat]
  <2>1. Rotated(s, cursor[p]) \in Seq(Jobs)
    BY <1>2, <1>6
  <2> QED  BY <1>1, <1>3, <1>6, <1>7, <2>1 DEF Types, Discover
<1>9. Types'
  BY <1>1, <1>8 DEF Types, Discover, tree, db, Pcs
<1>10. ProcessInv(p)'
  <2>1. pc'[p] = "scan" /\ source' = source
    BY <1>1 DEF Discover, Types, tree
  <2>2. \A i \in 1..Len(queue'[p]) : source[queue'[p][i]] > 0
    BY <1>8 DEF Present
  <2> QED  BY <2>1, <2>2 DEF ProcessInv, Transaction, Holding
<1>11. \A q \in Procs \ {p} : /\ pc'[q] = pc[q] /\ key'[q] = key[q] /\ queue'[q] = queue[q]
                              /\ \A d \in Devices : holder[d] = q => holder'[d] = q
  BY <1>1, <1>3 DEF Types, Discover, db
<1> QED  BY <1>9, <1>10, <1>11, NothingStored DEF Discover, tree, db, IngestionInv

LEMMA StepLoad ==
    ASSUME IngestionInv, NEW p \in Procs, Load(p)
    PROVE  IngestionInv'
<1>1. Types /\ ProcessInv(p)
  BY InvTypes DEF IngestionInv
<1> DEFINE j == Head(queue[p])
           k == <<j, source[j]>>
<1>2. j \in Jobs /\ source[j] > 0 /\ source[j] \in 0..MaxVersion
  <2>1. queue[p] \in Seq(Jobs) /\ queue[p] # <<>>
    BY <1>1 DEF Types, Load
  <2>2. j = queue[p][1] /\ 1 \in 1..Len(queue[p])
    BY <2>1
  <2> QED  BY <1>1, <2>1, <2>2 DEF Types, ProcessInv
<1>3. k \in Keys
  BY <1>2, BoundsAssumption DEF Keys, Versions
<1>4. FirstVersion(k)
  BY <1>2 DEF FirstVersion, IngestionInv
<1>5. key' = [key EXCEPT ![p] = k]
  BY DEF Load
<1>6. pc' = [pc EXCEPT ![p] = IF j \in Invalid THEN "quarantine" ELSE "lookup"]
  BY DEF Load
<1> HIDE DEF k, j
<1>7. /\ queue' \in [Procs -> Seq(Jobs)]
      /\ \A i \in 1..Len(queue'[p]) : source[queue'[p][i]] > 0
  <2>1. queue[p] \in Seq(Jobs) /\ queue[p] # <<>> /\ queue' = [queue EXCEPT ![p] = Tail(queue[p])]
    BY <1>1 DEF Types, Load
  <2>2. Tail(queue[p]) \in Seq(Jobs)
    BY <2>1
  <2>3. queue'[p] = Tail(queue[p]) /\ queue' \in [Procs -> Seq(Jobs)]
    BY <1>1, <2>1, <2>2 DEF Types
  <2>4. /\ Len(Tail(queue[p])) = Len(queue[p]) - 1
        /\ \A i \in 1..Len(queue[p]) - 1 : Tail(queue[p])[i] = queue[p][i + 1]
    BY <2>1
  <2>5. \A i \in 1..Len(queue[p]) : source[queue[p][i]] > 0
    BY <1>1 DEF ProcessInv
  <2> QED  BY <2>1, <2>3, <2>4, <2>5
<1>8. pc' \in [Procs -> Pcs] /\ pc'[p] \in {"quarantine", "lookup"}
  BY <1>1, <1>6 DEF Types, Pcs, Transaction
<1>9. Types'
  BY <1>1, <1>3, <1>5, <1>7, <1>8, ZenonT(60) DEF Types, Load, tree, db
<1>10. key'[p] = k /\ source' = source
  BY <1>1, <1>5 DEF Types, Load, tree
<1>11. ProcessInv(p)'
  BY <1>3, <1>7, <1>8, <1>10 DEF ProcessInv, Holding
<1>12. \A q \in Procs \ {p} : /\ pc'[q] = pc[q] /\ key'[q] = key[q] /\ queue'[q] = queue[q]
                              /\ \A d \in Devices : holder[d] = q => holder'[d] = q
  BY <1>1, <1>5, <1>6 DEF Types, Load, db
<1> QED  BY <1>4, <1>9, <1>10, <1>11, <1>12, NothingStored DEF Load, tree, db

-----------------------------------------------------------------------------
(* Steps of a transaction before its commit.                               *)

LEMMA Inside ==
    ASSUME IngestionInv, NEW p \in Procs, NEW next \in Pcs,
           UNCHANGED <<source, stored, items, cursor, queue, key>>,
           pc' = [pc EXCEPT ![p] = next],
           holder' \in [Devices -> Procs \cup {Nobody}],
           \A q \in Procs \ {p} : \A d \in Devices : holder[d] = q => holder'[d] = q,
           next \in Transaction => key[p] \in Keys,
           next \in Holding => holder'[DeviceOf[key[p][1]]] = p,
           next \in Holding \ {"insert"} => ~IdentityTaken(key[p]),
           next \in {"parser_select", "parser_insert"} => key[p][1] \in WithDocuments,
           next = "lookup2" =>
              IdentityTaken(key[p]) \/ ChunksTaken(key[p]) \/ key[p][1] \in WithDocuments
    PROVE  IngestionInv'
<1>1. Types /\ ProcessInv(p)
  BY InvTypes DEF IngestionInv
<1>2. Types'
  BY <1>1 DEF Types
<1>3. pc'[p] = next
  BY <1>1 DEF Types
<1>4. ProcessInv(p)'
  BY <1>1, <1>3 DEF ProcessInv, IdentityTaken, ChunksTaken
<1>5. \A q \in Procs \ {p} : pc'[q] = pc[q]
  BY <1>1 DEF Types
<1>6. FirstVersion(key'[p])
  BY DEF IngestionInv
<1> QED  BY <1>2, <1>4, <1>5, <1>6, NothingStored

LEMMA Release ==
    ASSUME Types, NEW p \in Procs
    PROVE  /\ Released(p) \in [Devices -> Procs \cup {Nobody}]
           /\ \A q \in Procs \ {p} : \A d \in Devices : holder[d] = q => Released(p)[d] = q
BY DEF Types, Released

(* A rollback leaves the transaction.                                        *)
LEMMA RolledBack ==
    ASSUME IngestionInv, NEW p \in Procs, NEW next \in Pcs \ Holding,
           UNCHANGED <<source, stored, items, cursor, queue, key>>,
           pc' = [pc EXCEPT ![p] = next], holder' = Released(p),
           next \in Transaction => key[p] \in Keys,
           next = "lookup2" =>
              IdentityTaken(key[p]) \/ ChunksTaken(key[p]) \/ key[p][1] \in WithDocuments
    PROVE  IngestionInv'
<1>1. /\ holder' \in [Devices -> Procs \cup {Nobody}]
      /\ \A q \in Procs \ {p} : \A d \in Devices : holder[d] = q => holder'[d] = q
  BY InvTypes, Release
<1> QED  BY <1>1, Inside DEF Holding

LEMMA StepInside ==
    ASSUME IngestionInv, NEW p \in Procs,
           \/ Lookup(p) \/ LockDevice(p) \/ InsertJob(p) \/ InsertChunks(p)
           \/ SelectParser(p) \/ InsertParser(p) \/ StatementFails(p) \/ LookupAgain(p)
    PROVE  IngestionInv'
<1>1. Types /\ ProcessInv(p)
  BY InvTypes DEF IngestionInv
<1>2. CASE Lookup(p)
  <2>1. UNCHANGED <<source, stored, items, cursor, queue, key, holder>>
    BY <1>2 DEF Lookup, tree, db
  <2>2. PICK next \in {"scan", "device"} : pc' = [pc EXCEPT ![p] = next]
    BY <1>2 DEF Lookup, Step
  <2>3. key[p] \in Keys
    BY <1>1, <1>2 DEF Lookup, ProcessInv, Transaction
  <2> QED  BY <1>1, <2>1, <2>2, <2>3, Inside DEF Types, Pcs, Transaction, Holding
<1>3. CASE LockDevice(p)
  <2> DEFINE d == DeviceOf[key[p][1]]
  <2>1. UNCHANGED <<source, stored, items, cursor, queue, key>>
    BY <1>3 DEF LockDevice, tree, scan
  <2>2. pc' = [pc EXCEPT ![p] = "insert"]
    BY <1>3 DEF LockDevice, Step
  <2>3. key[p] \in Keys /\ d \in Devices
    BY <1>1, <1>3, KeyParts DEF LockDevice, ProcessInv, Transaction
  <2>4. holder[d] = Nobody /\ holder' = [holder EXCEPT ![d] = p]
    BY <1>3 DEF LockDevice
  <2> HIDE DEF d
  <2>5. /\ holder' \in [Devices -> Procs \cup {Nobody}]
        /\ \A q \in Procs \ {p} : \A e \in Devices : holder[e] = q => holder'[e] = q
        /\ holder'[d] = p
    BY <1>1, <2>3, <2>4, Nothing DEF Types
  <2> QED  BY <1>1, <2>1, <2>2, <2>3, <2>5, Inside DEF d, Pcs, Transaction, Holding
<1>4. CASE InsertJob(p)
  <2>1. UNCHANGED <<source, stored, items, cursor, queue, key>>
    BY <1>4 DEF InsertJob, tree, scan
  <2>2. key[p] \in Keys /\ holder[DeviceOf[key[p][1]]] = p
    BY <1>1, <1>4 DEF InsertJob, ProcessInv, Transaction, Holding
  <2>3. CASE IdentityTaken(key[p])
    <3>1. pc' = [pc EXCEPT ![p] = "lookup2"] /\ holder' = Released(p)
      BY <1>4, <2>3 DEF InsertJob, Step
    <3> QED  BY <1>1, <2>1, <2>2, <2>3, <3>1, RolledBack DEF Pcs, Transaction, Holding
  <2>4. CASE ~IdentityTaken(key[p])
    <3>1. pc' = [pc EXCEPT ![p] = "chunks"] /\ holder' = holder
      BY <1>4, <2>4 DEF InsertJob, Step
    <3> QED  BY <1>1, <2>1, <2>2, <2>4, <3>1, Inside DEF Types, Pcs, Transaction, Holding
  <2> QED  BY <2>3, <2>4
<1>5. CASE InsertChunks(p)
  <2>1. UNCHANGED <<source, stored, items, cursor, queue, key>>
    BY <1>5 DEF InsertChunks, tree, scan
  <2>2. key[p] \in Keys /\ holder[DeviceOf[key[p][1]]] = p /\ ~IdentityTaken(key[p])
    BY <1>1, <1>5 DEF InsertChunks, ProcessInv, Transaction, Holding
  <2>3. CASE ChunksTaken(key[p])
    <3>1. pc' = [pc EXCEPT ![p] = "lookup2"] /\ holder' = Released(p)
      BY <1>5, <2>3 DEF InsertChunks, Step
    <3> QED  BY <1>1, <2>1, <2>2, <2>3, <3>1, RolledBack DEF Pcs, Transaction, Holding
  <2>4. CASE ~ChunksTaken(key[p])
    <3>1. PICK next \in {"parser_select", "commit"} :
             /\ pc' = [pc EXCEPT ![p] = next]
             /\ next = "parser_select" => key[p][1] \in WithDocuments
      BY <1>5, <2>4 DEF InsertChunks, Step
    <3>2. holder' = holder
      BY <1>5, <2>4 DEF InsertChunks
    <3> QED  BY <1>1, <2>1, <2>2, <2>4, <3>1, <3>2, Inside DEF Types, Pcs, Transaction, Holding
  <2> QED  BY <2>3, <2>4
<1>6. CASE SelectParser(p)
  <2>1. UNCHANGED <<source, stored, items, cursor, queue, key, holder>>
    BY <1>6 DEF SelectParser, tree, scan, db
  <2>2. /\ key[p] \in Keys /\ holder[DeviceOf[key[p][1]]] = p /\ ~IdentityTaken(key[p])
        /\ key[p][1] \in WithDocuments
    BY <1>1, <1>6 DEF SelectParser, ProcessInv, Transaction, Holding
  <2>3. PICK next \in {"commit", "parser_insert"} : pc' = [pc EXCEPT ![p] = next]
    BY <1>6 DEF SelectParser, Step
  <2> QED  BY <1>1, <2>1, <2>2, <2>3, Inside DEF Types, Pcs, Transaction, Holding
<1>7. CASE InsertParser(p)
  <2>1. UNCHANGED <<source, stored, items, cursor, queue, key>>
    BY <1>7 DEF InsertParser, tree, scan
  <2>2. /\ key[p] \in Keys /\ holder[DeviceOf[key[p][1]]] = p /\ ~IdentityTaken(key[p])
        /\ key[p][1] \in WithDocuments
    BY <1>1, <1>7 DEF InsertParser, ProcessInv, Transaction, Holding
  <2>3. CASE parser = "committed"
    <3>1. pc' = [pc EXCEPT ![p] = "lookup2"] /\ holder' = Released(p)
      BY <1>7, <2>3 DEF InsertParser, Step
    <3> QED  BY <1>1, <2>1, <2>2, <3>1, RolledBack DEF Pcs, Transaction, Holding
  <2>4. CASE parser # "committed"
    <3>1. pc' = [pc EXCEPT ![p] = "commit"] /\ holder' = holder
      BY <1>7, <2>4 DEF InsertParser, Step
    <3> QED  BY <1>1, <2>1, <2>2, <3>1, Inside DEF Types, Pcs, Transaction, Holding
  <2> QED  BY <2>3, <2>4
<1>8. CASE StatementFails(p)
  <2>1. UNCHANGED <<source, stored, items, cursor, queue, key>> /\ holder' = Released(p)
    BY <1>8 DEF StatementFails, tree
  <2>2. PICK next \in {"scan", "lookup"} : pc' = [pc EXCEPT ![p] = next]
    BY <1>8 DEF StatementFails, RetryFrom
  <2>3. key[p] \in Keys
    BY <1>1, <1>8 DEF StatementFails, ProcessInv
  <2> QED  BY <1>1, <2>1, <2>2, <2>3, RolledBack DEF Pcs, Transaction, Holding
<1>9. CASE LookupAgain(p)
  <2>1. UNCHANGED <<source, stored, items, cursor, queue, key, holder>>
    BY <1>9 DEF LookupAgain, tree, db
  <2>2. PICK next \in {"scan", "down"} : pc' = [pc EXCEPT ![p] = next]
    BY <1>9 DEF LookupAgain, Step
  <2> QED  BY <1>1, <2>1, <2>2, Inside DEF Types, Pcs, Transaction, Holding
<1> QED  BY <1>2, <1>3, <1>4, <1>5, <1>6, <1>7, <1>8, <1>9

-----------------------------------------------------------------------------
(* The commit, answered or not.                                            *)

LEMMA StepCommit ==
    ASSUME IngestionInv, NEW p \in Procs, Commit(p) \/ CommitUnanswered(p)
    PROVE  IngestionInv'
<1>1. Types /\ ProcessInv(p) /\ ImportedOnce
  BY InvTypes DEF IngestionInv
<1>2. /\ pc[p] = "commit" /\ Durable(p)
      /\ UNCHANGED <<source, cursor, queue, key>>
  BY DEF Commit, CommitUnanswered, tree
<1>3. PICK next \in {"scan", "lookup"} : pc' = [pc EXCEPT ![p] = next]
  BY DEF Commit, CommitUnanswered, Step, RetryFrom
<1>4. key[p] \in Keys /\ ~IdentityTaken(key[p])
  BY <1>1, <1>2 DEF ProcessInv, Transaction, Holding
<1>5. /\ stored' = stored \cup {key[p]}
      /\ items' = [items EXCEPT ![key[p]] = items[key[p]] + 1]
      /\ holder' = Released(p)
  BY <1>2 DEF Durable
<1>6. key[p] \notin stored /\ \A t \in stored : t[1] # key[p][1]
  BY <1>4 DEF IdentityTaken
<1>7. items[key[p]] = 0
  BY <1>1, <1>4, <1>6 DEF ImportedOnce
<1>8. ImportedOnce'
  <2>1. \A s, t \in stored' : s[1] = t[1] => s = t
    BY <1>1, <1>5, <1>6 DEF ImportedOnce
  <2>2. ASSUME NEW k \in Keys
        PROVE  items'[k] = IF k \in stored' THEN 1 ELSE 0
    BY <1>1, <1>4, <1>5, <1>7 DEF ImportedOnce, Types
  <2> QED  BY <2>1, <2>2 DEF ImportedOnce
<1>9. Types'
  <2>1. items' \in [Keys -> Nat]
    BY <1>1, <1>4, <1>5 DEF Types
  <2>2. pc' \in [Procs -> Pcs]
    BY <1>1, <1>3 DEF Types, Pcs, Transaction
  <2> QED  BY <1>1, <1>2, <1>4, <1>5, <2>1, <2>2, Release DEF Types
<1>10. pc'[p] = next /\ \A q \in Procs \ {p} : pc'[q] = pc[q]
  BY <1>1, <1>3 DEF Types
<1>11. ProcessInv(p)'
  BY <1>1, <1>2, <1>4, <1>10 DEF ProcessInv, Transaction, Holding
<1>12. \A q \in Procs : ProcessInv(q)'
  <2>1. ASSUME NEW q \in Procs, q # p PROVE ProcessInv(q)'
    <3>1. \A d \in Devices : holder[d] = q => holder'[d] = q
      BY <1>1, <1>5, <2>1, Release
    <3> QED  BY <1>2, <1>5, <1>10, <2>1, <3>1, OtherProcess
  <2> QED  BY <1>11, <2>1
<1>13. /\ \A q \in Procs : FirstVersion(key'[q])
       /\ \A j \in Jobs \ Moving : source'[j] <= 1
       /\ \A k \in stored' : FirstVersion(k)
  BY <1>2, <1>5 DEF IngestionInv
<1> QED  BY <1>8, <1>9, <1>12, <1>13 DEF IngestionInv, Types, FirstVersion

-----------------------------------------------------------------------------
(* The processes and the tree.                                             *)

LEMMA StepProcesses ==
    ASSUME IngestionInv, ImporterPass \/ Crash \/ Restart
    PROVE  IngestionInv'
<1>1. Types
  BY InvTypes
<1>2. Service \in Procs /\ Importer \in Procs
  BY DEF Procs
<1>3. CASE ImporterPass
  <2>1. PICK next \in {"down", "begin"} : pc' = [pc EXCEPT ![Importer] = next]
    BY <1>3 DEF ImporterPass, Step
  <2>2. UNCHANGED <<source, stored, items, holder, cursor, queue, key>>
    BY <1>3 DEF ImporterPass, tree, db, scan
  <2> QED  BY <1>1, <1>2, <2>1, <2>2, Outside DEF Types, Pcs, Transaction
<1>4. CASE Crash
  <2>1. /\ UNCHANGED <<source, stored, items, cursor, queue, key>> /\ holder' = Released(Service)
        /\ pc' = [pc EXCEPT ![Service] = "down"]
    BY <1>4 DEF Crash, tree, Step
  <2> QED  BY <1>1, <1>2, <2>1, RolledBack DEF Pcs, Transaction, Holding
<1>5. CASE Restart
  <2>1. /\ UNCHANGED <<source, stored, items, holder, key>>
        /\ pc' = [pc EXCEPT ![Service] = "begin"]
        /\ queue' = [queue EXCEPT ![Service] = <<>>]
        /\ cursor' = [cursor EXCEPT ![Service] = 0]
    BY <1>5 DEF Restart, tree, db, Step
  <2>2. cursor' \in [Procs -> Nat]
    BY <1>1, <2>1 DEF Types
  <2> QED  BY <1>2, <2>1, <2>2, Outside DEF Pcs, Transaction
<1> QED  BY <1>3, <1>4, <1>5

LEMMA StepPublish ==
    ASSUME IngestionInv, NEW j \in Jobs, Publish(j)
    PROVE  IngestionInv'
<1>1. Types
  BY InvTypes
<1>2. UNCHANGED <<stored, items, holder, pc, cursor, queue, key>>
  BY DEF Publish, db, scan
<1>3. /\ source[j] < (IF j \in Moving THEN MaxVersion ELSE 1)
      /\ source' = [source EXCEPT ![j] = source[j] + 1]
  BY DEF Publish
<1>4. source' \in [Jobs -> 0..MaxVersion]
  BY <1>1, <1>3, BoundsAssumption DEF Types
<1>5. \A i \in Jobs : source[i] > 0 => source'[i] > 0
  BY <1>1, <1>3 DEF Types
<1>6. \A i \in Jobs \ Moving : source'[i] <= 1
  BY <1>1, <1>3 DEF Types, IngestionInv
<1>7. Types'
  BY <1>1, <1>2, <1>4 DEF Types
<1>8. ASSUME NEW p \in Procs PROVE ProcessInv(p)'
  <2>1. PICK q \in Procs : q # p
    BY ProcsAssumption DEF Procs
  <2> QED  BY <1>2, <1>5, <2>1, OtherProcess
<1>9. ImportedOnce' /\ \A p \in Procs : FirstVersion(key'[p])
  BY <1>2 DEF IngestionInv, ImportedOnce
<1> QED  BY <1>2, <1>6, <1>7, <1>8, <1>9 DEF IngestionInv, Types, FirstVersion

LEMMA InvNext == IngestionInv /\ [Next]_vars => IngestionInv'
<1> SUFFICES ASSUME IngestionInv, [Next]_vars PROVE IngestionInv'
  OBVIOUS
<1>1. CASE UNCHANGED vars
  BY <1>1 DEF vars, IngestionInv, ProcessInv, FirstVersion, ImportedOnce, IdentityTaken, ChunksTaken
<1>2. ASSUME NEW p \in Procs, Work(p) PROVE IngestionInv'
  BY <1>2, StepOutside, StepDiscover, StepLoad, StepInside, StepCommit DEF Work
<1> QED  BY <1>1, <1>2, StepProcesses, StepPublish DEF Next

(* The inductive invariant: the row lock of the device makes what the INSERT *)
(* found free stay free until the commit.                                    *)
THEOREM IngestionInvariant == Spec => []IngestionInv
<1>1. Init => IngestionInv
  BY InvInit
<1>2. IngestionInv /\ [Next]_vars => IngestionInv'
  BY InvNext
<1> QED  BY <1>1, <1>2, PTL DEF Spec

(* Whatever is published, retried, unanswered or crashed, a source job has   *)
(* at most one print job, whose items are in exactly one batch               *)
(* (store_import).                                                           *)
THEOREM ImportsOnce == Spec => []ImportedOnce
<1>1. IngestionInv => ImportedOnce
  BY DEF IngestionInv
<1> QED  BY <1>1, IngestionInvariant, PTL

(* The proxy gives every capture job a session of its own.                   *)
OneJobPerSession ==
    \A j, k \in Jobs \ WithDocuments : SessionOf[j] = SessionOf[k] => j = k

(* With sessions of their own, the second of two processes that import a     *)
(* capture job that stands still reports a duplicate (store_import's         *)
(* IntegrityError handler) and never ends with a conflict.                   *)
THEOREM RaceLoser ==
    ASSUME OneJobPerSession
    PROVE  Spec => RaceLoserIsDuplicate
<1>1. ASSUME IngestionInv, NEW p \in Procs, LookupAgain(p), pc'[p] = "down"
      PROVE  key[p][1] \in WithDocuments \cup Moving
  <2>1. Types /\ ProcessInv(p) /\ pc[p] = "lookup2"
    BY <1>1, InvTypes DEF IngestionInv, LookupAgain
  <2>2. key[p] \in Keys /\ FirstVersion(key[p])
    BY <1>1, <2>1 DEF ProcessInv, Transaction, IngestionInv
  <2>3. key[p] \notin stored
    BY <1>1, <2>1 DEF LookupAgain, Step, Types
  <2>4. ASSUME NEW s \in stored, s[1] = key[p][1], key[p][1] \notin Moving
        PROVE  FALSE
    <3>1. s \in Keys /\ FirstVersion(s)
      BY <1>1, <2>1 DEF IngestionInv, Types
    <3>2. s[2] = 1 /\ key[p][2] = 1
      BY <2>2, <2>4, <3>1 DEF FirstVersion
    <3>3. s = key[p]
      BY <2>2, <2>4, <3>1, <3>2, KeyParts
    <3> QED  BY <2>3, <3>3
  <2>5. ASSUME ChunksTaken(key[p]), key[p][1] \notin WithDocuments
        PROVE  \E s \in stored : s[1] = key[p][1]
    <3>1. PICK s \in stored : /\ SessionOf[s[1]] = SessionOf[key[p][1]]
                              /\ {s[1], key[p][1]} \cap WithDocuments = {}
      BY <2>5 DEF ChunksTaken
    <3>2. s[1] \in Jobs /\ key[p][1] \in Jobs
      BY <2>1, <2>2, KeyParts DEF Types
    <3> QED  BY <3>1, <3>2 DEF OneJobPerSession
  <2> QED  BY <2>1, <2>4, <2>5 DEF ProcessInv, IdentityTaken
<1>2. IngestionInv /\ [Next]_vars
        => [\A p \in Procs : LookupAgain(p) /\ pc'[p] = "down"
                                => key[p][1] \in WithDocuments \cup Moving]_vars
  BY <1>1
<1> QED  BY <1>2, IngestionInvariant, PTL DEF Spec, RaceLoserIsDuplicate


-----------------------------------------------------------------------------
(* The importer's windows.                                                 *)

Ascending(s) == \A i, k \in DOMAIN s : i < k => s[i] < s[k]
InitialPart(X, P) == X \subseteq P /\ \A i \in P, j \in X : i < j => i \in X
FirstOnes(s, c) == {s[i] : i \in 1..c}
Listing(s, P, n) ==
    /\ P \subseteq Nat /\ IsFiniteSet(P) /\ n \in Nat /\ n = Cardinality(P)
    /\ s \in [1..n -> P] /\ Ascending(s)

(* A listing in ascending order that is as long as the set lists all of it.  *)
LEMMA ListingIsWhole ==
    ASSUME NEW P, NEW n, NEW s, Listing(s, P, n)
    PROVE  /\ \A j \in P : \E i \in 1..n : s[i] = j
           /\ \A i, k \in 1..n : s[i] = s[k] => i = k
<1>0. /\ P \subseteq Nat /\ IsFiniteSet(P) /\ n \in Nat /\ n = Cardinality(P)
      /\ s \in [1..n -> P] /\ Ascending(s)
  BY DEF Listing
<1>1. \A i, k \in 1..n : s[i] = s[k] => i = k
  <2> SUFFICES ASSUME NEW i \in 1..n, NEW k \in 1..n, s[i] = s[k], i # k PROVE FALSE
    OBVIOUS
  <2>1. s[i] \in Nat /\ s[k] \in Nat /\ DOMAIN s = 1..n
    BY <1>0
  <2>2. i < k \/ k < i
    BY <1>0
  <2> QED  BY <1>0, <2>1, <2>2 DEF Ascending
<1>2. s \in Injection(1..n, P)
  BY <1>0, <1>1 DEF Injection, IsInjective
<1>3. Cardinality(1..n) = n
  BY <1>0, FS_Interval
<1>4. s \in Surjection(1..n, P)
  BY <1>0, <1>2, <1>3, FS_Injection
<1> QED  BY <1>1, <1>4 DEF Surjection

LEMMA ListingBegins ==
    ASSUME NEW P, NEW n, NEW s, Listing(s, P, n), NEW c \in 0..n
    PROVE  InitialPart(FirstOnes(s, c), P) /\ Cardinality(FirstOnes(s, c)) = c
<1>0. P \subseteq Nat /\ n \in Nat /\ s \in [1..n -> P] /\ Ascending(s)
  BY DEF Listing
<1>1. /\ \A j \in P : \E i \in 1..n : s[i] = j
      /\ \A i, k \in 1..n : s[i] = s[k] => i = k
  BY ListingIsWhole
<1>2. InitialPart(FirstOnes(s, c), P)
  <2>1. FirstOnes(s, c) \subseteq P
    BY <1>0 DEF FirstOnes
  <2>2. ASSUME NEW j \in P, NEW k \in 1..c, j < s[k] PROVE j \in FirstOnes(s, c)
    <3>1. PICK i \in 1..n : s[i] = j
      BY <1>1
    <3>2. s[i] \in Nat /\ s[k] \in Nat /\ k \in 1..n /\ DOMAIN s = 1..n
      <4>1. k \in 1..n
        BY <1>0
      <4> QED  BY <1>0, <3>1, <4>1
    <3>3. ~(k < i) /\ i # k
      BY <1>0, <2>2, <3>1, <3>2 DEF Ascending
    <3>4. i \in 1..c
      BY <1>0, <3>2, <3>3
    <3> QED  BY <3>1, <3>4 DEF FirstOnes
  <2> QED  BY <2>1, <2>2 DEF InitialPart, FirstOnes
<1>3. Cardinality(FirstOnes(s, c)) = c
  <2> DEFINE F == FirstOnes(s, c)
             f == [i \in 1..c |-> s[i]]
  <2>1. \A i, k \in 1..c : f[i] = f[k] => i = k
    BY <1>0, <1>1
  <2>2. f \in Injection(1..c, F)
    BY <2>1 DEF Injection, IsInjective, FirstOnes
  <2>3. f \in Surjection(1..c, F)
    BY <2>2 DEF Surjection, FirstOnes, Injection
  <2>4. Cardinality(1..c) = c /\ IsFiniteSet(1..c)
    BY <1>0, FS_Interval
  <2> HIDE DEF F, f
  <2>5. Cardinality(F) = Cardinality(1..c)
    BY <2>2, <2>3, <2>4, FS_Surjection
  <2> QED  BY <2>4, <2>5 DEF F
<1> QED  BY <1>2, <1>3

(* The beginning of a set is determined by its size.                         *)
LEMMA BeginningIsUnique ==
    ASSUME NEW P, P \subseteq Nat, IsFiniteSet(P), NEW X, NEW Y,
           InitialPart(X, P), InitialPart(Y, P), Cardinality(X) = Cardinality(Y)
    PROVE  X = Y
<1>1. X \in SUBSET P /\ Y \in SUBSET P /\ IsFiniteSet(X) /\ IsFiniteSet(Y)
  BY FS_Subset DEF InitialPart
<1>2. X \subseteq Y \/ Y \subseteq X
  <2> SUFFICES ASSUME NEW x \in X, x \notin Y, NEW y \in Y, y \notin X PROVE FALSE
    OBVIOUS
  <2>1. x \in Nat /\ y \in Nat /\ x # y /\ x \in P /\ y \in P
    BY <1>1
  <2>2. x < y \/ y < x
    BY <2>1
  <2> QED  BY <2>1, <2>2 DEF InitialPart
<1> QED  BY <1>1, <1>2, FS_Subset

LEMMA SmallRemainder ==
    ASSUME NEW n \in Nat \ {0}, NEW a \in 0..n - 1
    PROVE  a % n = a
OBVIOUS

Shows(s, c, w) == w = {Rotated(s, c)[i] : i \in 1..Len(Rotated(s, c))}

(* A window reaches as far as the cursor that it leaves, or to the end of    *)
(* the tree; and it holds something new unless everything was seen.          *)
LEMMA WindowAdvances ==
    ASSUME NEW X, NEW c \in Nat, Frontier(X, c), X \subseteq Present,
           NEW s \in Candidates, NEW w, Shows(s, c, w)
    PROVE  /\ w \subseteq Present /\ Frontier(X \cup w, NextCursor(c))
           /\ w \subseteq X => X = Present
<1>11. PICK r : r = Rotated(s, c)
  OBVIOUS
<1>12. w = {r[i] : i \in 1..Len(r)}
  BY <1>11 DEF Shows
<1>1. PICK P : P = Present
  OBVIOUS
<1>2. PICK n : n = Cardinality(P)
  OBVIOUS
<1>3. P \subseteq Nat /\ IsFiniteSet(P) /\ n \in Nat
  BY <1>1, <1>2, SourceAssumption, FS_Subset, FS_CardinalityType DEF Present
<1>4. s \in [1..n -> P] /\ Ascending(s) /\ DOMAIN s = 1..n /\ Len(s) = n
  <2>1. s \in [1..n -> P] /\ Ascending(s)
    BY <1>1, <1>2 DEF Candidates, Ascending
  <2> QED  BY <1>3, <2>1
<1>0. Listing(s, P, n)
  BY <1>2, <1>3, <1>4 DEF Listing
<1>5. \A j \in P : \E i \in 1..n : s[i] = j
  BY <1>0, ListingIsWhole
<1>6. Window \in Nat \ {0}
  BY BoundsAssumption
<1>7. r = IF n <= Window THEN s ELSE [i \in 1..Window |-> s[(((c % n) + i - 1) % n) + 1]]
  BY <1>4, <1>11 DEF Rotated
<1>8. NextCursor(c) = IF n <= Window THEN 0 ELSE ((c % n) + Window) % n
  BY <1>1, <1>2 DEF NextCursor
<1>9. CASE n <= Window
  <2>1. w = P
    BY <1>4, <1>5, <1>7, <1>9, <1>12
  <2> QED  BY <1>1, <2>1 DEF Frontier
<1>10. CASE ~(n <= Window)
  <2>1. n \in Nat \ {0} /\ n > Window
    BY <1>3, <1>6, <1>10
  <2>2. Len(r) = Window /\ \A i \in 1..Window : r[i] = s[(((c % n) + i - 1) % n) + 1]
    BY <1>6, <1>7, <1>10
  <2>3. w = {s[(((c % n) + i - 1) % n) + 1] : i \in 1..Window}
    BY <1>12, <2>2
  <2>4. \A m \in Nat : m % n \in 0..n - 1
    BY <2>1
  <2>5. w \subseteq P
    <3> SUFFICES ASSUME NEW i \in 1..Window PROVE s[(((c % n) + i - 1) % n) + 1] \in P
      BY <2>3
    <3>1. (c % n) + i - 1 \in Nat
      <4>1. c % n \in 0..n - 1
        BY <2>4
      <4> QED  BY <1>6, <2>1, <4>1
    <3>2. ((c % n) + i - 1) % n \in 0..n - 1
      BY <2>4, <3>1
    <3>3. (((c % n) + i - 1) % n) + 1 \in 1..n
      BY <2>1, <3>2
    <3> QED  BY <1>4, <3>3
  <2>6. CASE X = P
    BY <1>1, <2>5, <2>6 DEF Frontier
  <2>7. CASE X # P
    <3>1. InitialPart(X, P) /\ Cardinality(X) = c
      BY <1>1, <2>7 DEF Frontier, Beginning, InitialPart
    <3>2. c \in 0..n - 1
      <4>1. X \in SUBSET P
        BY <1>1
      <4>2. Cardinality(X) <= n /\ Cardinality(X) # n
        BY <1>2, <1>3, <2>7, <4>1, FS_Subset
      <4> QED  BY <1>3, <3>1, <4>2
    <3>3. c % n = c
      BY <2>1, <3>2, SmallRemainder
    <3>4. X = FirstOnes(s, c)
      <4>1. InitialPart(FirstOnes(s, c), P) /\ Cardinality(FirstOnes(s, c)) = c
        <5>1. c \in 0..n
          BY <2>1, <3>2
        <5> QED  BY <1>0, <5>1, ListingBegins
      <4> QED  BY <1>3, <3>1, <4>1, BeginningIsUnique
    <3>5. \A i \in 1..Window : c + i <= n => s[c + i] \in w
      <4> SUFFICES ASSUME NEW i \in 1..Window, c + i <= n PROVE s[c + i] \in w
        OBVIOUS
      <4>1. c + i - 1 \in 0..n - 1
        BY <1>6, <2>1, <3>2
      <4>2. (c + i - 1) % n = c + i - 1
        BY <2>1, <4>1, SmallRemainder
      <4>3. ((c + i - 1) % n) + 1 = c + i
        BY <1>6, <3>2, <4>2
      <4> QED  BY <2>3, <3>3, <4>3
    <3>6. ~(w \subseteq X)
      <4>1. s[c + 1] \in w /\ c + 1 \in 1..n
        BY <1>6, <2>1, <3>2, <3>5
      <4>2. s[c + 1] \notin X
        <5>1. \A i \in 1..c : i \in 1..n /\ i # c + 1
          BY <2>1, <3>2
        <5>2. \A i, k \in 1..n : s[i] = s[k] => i = k
          BY <1>0, ListingIsWhole
        <5> QED  BY <3>4, <4>1, <5>1, <5>2 DEF FirstOnes
      <4> QED  BY <4>1, <4>2
    <3>7. CASE c + Window < n
      <4>1. w = {s[c + i] : i \in 1..Window}
        <5>1. \A i \in 1..Window : (((c % n) + i - 1) % n) + 1 = c + i
          <6> SUFFICES ASSUME NEW i \in 1..Window PROVE (((c % n) + i - 1) % n) + 1 = c + i
            OBVIOUS
          <6>1. c + i - 1 \in 0..n - 1
            BY <1>6, <2>1, <3>2, <3>7
          <6>2. (c + i - 1) % n = c + i - 1
            BY <2>1, <6>1, SmallRemainder
          <6> QED  BY <1>6, <3>2, <3>3, <6>2
        <5> QED  BY <2>3, <5>1
      <4>2. X \cup w = FirstOnes(s, c + Window)
        <5>1. \A i \in 1..c + Window : i \in 1..c \/ (i - c \in 1..Window /\ c + (i - c) = i)
          BY <1>6, <3>2
        <5>2. \A i \in 1..c : i \in 1..c + Window
          BY <1>6, <3>2
        <5>3. \A i \in 1..Window : c + i \in 1..c + Window
          BY <1>6, <3>2
        <5>4. X \cup w \subseteq FirstOnes(s, c + Window)
          BY <3>4, <4>1, <5>2, <5>3 DEF FirstOnes
        <5>5. ASSUME NEW i \in 1..c + Window PROVE s[i] \in X \cup w
          <6>1. CASE i \in 1..c
            BY <3>4, <6>1 DEF FirstOnes
          <6>2. CASE i - c \in 1..Window /\ c + (i - c) = i
            BY <4>1, <6>2
          <6> QED  BY <5>1, <6>1, <6>2
        <5>6. FirstOnes(s, c + Window) \subseteq X \cup w
          BY <5>5 DEF FirstOnes
        <5> QED  BY <5>4, <5>6
      <4>3. c + Window \in 0..n /\ c + Window \in 0..n - 1
        BY <1>6, <2>1, <3>2, <3>7
      <4>4. InitialPart(X \cup w, P) /\ Cardinality(X \cup w) = c + Window
        <5>1. PICK d : d = c + Window
          OBVIOUS
        <5>2. InitialPart(FirstOnes(s, d), P) /\ Cardinality(FirstOnes(s, d)) = d
          BY <1>0, <4>3, <5>1, ListingBegins
        <5> QED  BY <4>2, <5>1, <5>2
      <4>5. NextCursor(c) = c + Window
        <5>1. (c + Window) % n = c + Window
          BY <2>1, <4>3, SmallRemainder
        <5> QED  BY <1>8, <1>10, <3>3, <5>1
      <4>6. Frontier(X \cup w, NextCursor(c))
        BY <1>1, <4>4, <4>5 DEF Frontier, Beginning, InitialPart
      <4> QED  BY <1>1, <2>5, <3>6, <4>6
    <3>8. CASE ~(c + Window < n)
      <4>1. ASSUME NEW j \in P PROVE j \in X \cup w
        <5>1. PICK i \in 1..n : s[i] = j
          BY <1>5
        <5>2. CASE i <= c
          BY <3>2, <3>4, <5>1, <5>2 DEF FirstOnes
        <5>3. CASE ~(i <= c)
          <6>1. i - c \in 1..Window /\ c + (i - c) = i /\ i <= n
            BY <1>3, <1>6, <3>2, <3>8, <5>3
          <6> QED  BY <3>5, <5>1, <6>1
        <5> QED  BY <5>2, <5>3
      <4>2. X \cup w = P
        BY <1>1, <2>5, <4>1
      <4> QED  BY <1>1, <2>5, <3>6, <4>2 DEF Frontier
    <3> QED  BY <3>7, <3>8
  <2> QED  BY <2>6, <2>7
<1> QED  BY <1>9, <1>10


-----------------------------------------------------------------------------
(* The importer that exits with 0.                                         *)

ReportTypes == report \in [Procs -> Reports]

LEMMA TwoFields ==
    ASSUME NEW f \in [Procs -> Reports], NEW p \in Procs
    PROVE  /\ [f EXCEPT ![p].exhausted = @ + 1, ![p].errors = TRUE] \in [Procs -> Reports]
           /\ [f EXCEPT ![p].busy = @ + 1, ![p].errors = TRUE] \in [Procs -> Reports]
           /\ \A j \in Jobs :
                 [f EXCEPT ![p].discovered = @ + 1, ![p].keys = @ \cup {j}] \in [Procs -> Reports]
<1>1. ASSUME NEW g \in [Procs -> Reports], NEW r \in Reports
      PROVE  [g EXCEPT ![p] = r] \in [Procs -> Reports]
  OBVIOUS
<1>2. f[p] \in Reports
  OBVIOUS
<1>3. [f[p] EXCEPT !.exhausted = @ + 1] \in Reports /\ [f[p] EXCEPT !.busy = @ + 1] \in Reports
  BY <1>2 DEF Reports
<1>4. [f[p] EXCEPT !.discovered = @ + 1] \in Reports
  BY <1>2 DEF Reports
<1>5. \A g \in [Procs -> Reports] : [g EXCEPT ![p].errors = TRUE] \in [Procs -> Reports]
  BY ZenonT(60) DEF Reports
<1>7. /\ [f EXCEPT ![p].exhausted = @ + 1] \in [Procs -> Reports]
      /\ [f EXCEPT ![p].busy = @ + 1] \in [Procs -> Reports]
      /\ [f EXCEPT ![p].discovered = @ + 1] \in [Procs -> Reports]
  BY <1>1, <1>3, <1>4
<1>8. [f EXCEPT ![p].exhausted = @ + 1, ![p].errors = TRUE] \in [Procs -> Reports]
  <2>1. PICK g : g = [f EXCEPT ![p].exhausted = @ + 1]
    OBVIOUS
  <2> QED  BY <1>5, <1>7, <2>1
<1>9. [f EXCEPT ![p].busy = @ + 1, ![p].errors = TRUE] \in [Procs -> Reports]
  <2>1. PICK g : g = [f EXCEPT ![p].busy = @ + 1]
    OBVIOUS
  <2> QED  BY <1>5, <1>7, <2>1
<1>10. ASSUME NEW j \in Jobs
       PROVE  [f EXCEPT ![p].discovered = @ + 1, ![p].keys = @ \cup {j}] \in [Procs -> Reports]
  <2>1. PICK h : h = [f EXCEPT ![p].discovered = @ + 1, ![p].keys = @ \cup {j}]
    OBVIOUS
  <2>2. DOMAIN h = Procs /\ \A q \in Procs \ {p} : h[q] = f[q]
    BY <2>1
  <2>3. h[p] = [f[p] EXCEPT !.discovered = @ + 1, !.keys = @ \cup {j}]
    BY <2>1
  <2>4. f[p].discovered \in Nat /\ f[p].keys \subseteq Jobs
    BY <1>2 DEF Reports
  <2>5. h[p] = [f[p] EXCEPT !.discovered = f[p].discovered + 1, !.keys = f[p].keys \cup {j}]
    BY <1>2, <2>3 DEF Reports
  <2>6. h[p] \in Reports
    <3>1. \A r \in Reports, d \in Nat, k \in SUBSET Jobs :
             [r EXCEPT !.discovered = d, !.keys = k] \in Reports
      BY DEF Reports
    <3>2. f[p].discovered + 1 \in Nat /\ f[p].keys \cup {j} \in SUBSET Jobs
      BY <2>4
    <3>3. [f[p] EXCEPT !.discovered = f[p].discovered + 1, !.keys = f[p].keys \cup {j}] \in Reports
      BY <1>2, <3>1, <3>2, Zenon
    <3> QED  BY <2>5, <3>3, Zenon
  <2>7. h = [q \in Procs |-> h[q]]
    BY <2>1
  <2> QED  BY <2>1, <2>2, <2>6, <2>7
<1> QED  BY <1>8, <1>9, <1>10

LEMMA ReportsStep ==
    ASSUME Types, ReportTypes, NEW p \in Procs, Work(p)
    PROVE  ReportTypes'
<1>1. report \in [Procs -> Reports] /\ report[p] \in Reports /\ EmptyReport \in Reports
  BY DEF ReportTypes, Reports, EmptyReport
<1>2. ASSUME NEW r \in Reports, report' = [report EXCEPT ![p] = r] PROVE ReportTypes'
  BY <1>1, <1>2 DEF ReportTypes
<1>3. ASSUME report' = report PROVE ReportTypes'
  BY <1>1, <1>3 DEF ReportTypes
<1>4. ASSUME NEW back, RetryFrom(p, back) PROVE ReportTypes'
  <2>1. CASE report' = [report EXCEPT ![p].exhausted = @ + 1, ![p].errors = TRUE]
    BY <1>1, <2>1, TwoFields DEF ReportTypes
  <2> QED  BY <1>3, <1>4, <2>1 DEF RetryFrom
<1>5. ASSUME Count(p, "quarantined") = report' PROVE ReportTypes'
  BY <1>1, <1>5 DEF Count, ReportTypes, Reports
<1>6. ASSUME Count(p, "duplicates") = report' PROVE ReportTypes'
  BY <1>1, <1>6 DEF Count, ReportTypes, Reports
<1>7. ASSUME Count(p, "imported") = report' PROVE ReportTypes'
  BY <1>1, <1>7 DEF Count, ReportTypes, Reports
<1>8. CASE BeginBatch(p)
  BY <1>1, <1>2, <1>8 DEF BeginBatch
<1>9. CASE Load(p) \/ LoadBusy(p)
  <2>1. Head(queue[p]) \in Jobs
    BY <1>9 DEF Load, LoadBusy, Types
  <2>2. report' = Noted(p) \/ report' = [Noted(p) EXCEPT ![p].busy = @ + 1, ![p].errors = TRUE]
    BY <1>9 DEF Load, LoadBusy
  <2>3. Noted(p) \in [Procs -> Reports]
    BY <1>1, <2>1, TwoFields DEF Noted
  <2>4. PICK n : n = Noted(p)
    OBVIOUS
  <2>5. [n EXCEPT ![p].busy = @ + 1, ![p].errors = TRUE] \in [Procs -> Reports]
    BY <2>3, <2>4, TwoFields
  <2> QED  BY <2>2, <2>3, <2>4, <2>5 DEF ReportTypes
<1>10. CASE Quarantine(p)
  BY <1>4, <1>5, <1>10 DEF Quarantine
<1>11. CASE Lookup(p) \/ LookupAgain(p)
  BY <1>3, <1>6, <1>11 DEF Lookup, LookupAgain
<1>12. CASE Commit(p) \/ CommitUnanswered(p) \/ StatementFails(p)
  BY <1>4, <1>7, <1>12 DEF Commit, CommitUnanswered, StatementFails
<1>13. CASE CompleteBatch(p)
  <2>1. PICK b \in BOOLEAN : report' = report \/ report' = [report EXCEPT ![p].errors = b]
    BY <1>13 DEF CompleteBatch
  <2>2. [report EXCEPT ![p].errors = b] \in [Procs -> Reports]
    BY <1>1 DEF Reports
  <2> QED  BY <1>3, <2>1, <2>2 DEF ReportTypes
<1>14. CASE RefreshStatuses(p)
  BY <1>1, <1>2, <1>14 DEF RefreshStatuses
<1>15. CASE Discover(p) \/ DiscoverFails(p)
  BY <1>3, <1>15 DEF Discover, DiscoverFails
<1>17. CASE DiscoverBusy(p)
  <2>1. report' = [report EXCEPT ![p].busy = @ + 1, ![p].errors = TRUE]
    BY <1>17 DEF DiscoverBusy
  <2> QED  BY <1>1, <2>1, TwoFields DEF ReportTypes
<1>16. CASE LockDevice(p) \/ InsertJob(p) \/ InsertChunks(p) \/ SelectParser(p) \/ InsertParser(p) \/ SkipBatch(p)
  BY <1>3, <1>16 DEF LockDevice, InsertJob, InsertChunks, SelectParser, InsertParser, SkipBatch, scan
<1> QED
  BY <1>8, <1>9, <1>10, <1>11, <1>12, <1>13, <1>14, <1>15, <1>16, <1>17 DEF Work

\* A step that leaves the importer's own state alone.
Aside ==
    /\ UNCHANGED <<source, seen, needsAttention, exit>> /\ stored \subseteq stored'
    /\ drifted => drifted'
    /\ pc'[Importer] = pc[Importer] /\ key'[Importer] = key[Importer]
    /\ queue'[Importer] = queue[Importer] /\ cursor'[Importer] = cursor[Importer]
    /\ report'[Importer] = report[Importer]

LEMMA AsideKeeps ==
    ASSUME QuietInv, Aside
    PROVE  QuietInv'
<1>1. Present' = Present
  BY DEF Aside, Present
<1>2. \A j : Imported(j) => Imported(j)'
  BY DEF Aside, Imported
<1>3. \A X, c : Frontier(X, c) => Frontier(X, c)'
  BY <1>1 DEF Frontier, Beginning
<1>4. Offered' = Offered
  BY DEF Aside, Offered
<1>5. \A j : Settled(j) => Settled(j)'
  BY <1>2 DEF Aside, Settled
<1>6. PassInv => PassInv'
  BY <1>1, <1>3, <1>4, <1>5 DEF Aside, PassInv
<1>7. seen' \subseteq Present' /\ (needsAttention' \/ \A j \in seen' : Imported(j)')
  BY <1>1, <1>2 DEF QuietInv, Aside
<1>8. /\ pc'[Importer] \in {"begin", "discover"} => Frontier(seen, cursor[Importer])'
      /\ pc'[Importer] = "discover" => report'[Importer] = EmptyReport
      /\ pc'[Importer] \in InPass => PassInv'
      /\ pc'[Importer] \in {"refresh", "passed"} => queue'[Importer] = <<>>
  BY <1>3, <1>6 DEF QuietInv, Aside
<1>9. exit' = "0" => \A j \in Present' : Imported(j)'
  BY <1>1, <1>2 DEF QuietInv, Aside
<1> QED  BY <1>7, <1>8, <1>9 DEF QuietInv

LEMMA ServiceAside ==
    ASSUME Types, ReportTypes, Work(Service)
    PROVE  Aside
<1>1. Service \in Procs /\ Importer \in Procs /\ Service # Importer
  BY ProcsAssumption DEF Procs
<1>2. /\ pc \in [Procs -> Pcs] /\ cursor \in [Procs -> Nat] /\ queue \in [Procs -> Seq(Jobs)]
      /\ key \in [Procs -> Keys \cup {NoKey}] /\ report \in [Procs -> Reports]
  BY DEF Types, ReportTypes
<1>3. ASSUME NEW back, RetryFrom(Service, back)
      PROVE  pc'[Importer] = pc[Importer] /\ report'[Importer] = report[Importer]
  BY <1>1, <1>2, <1>3 DEF RetryFrom
<1>4. \A next : Step(Service, next) => pc'[Importer] = pc[Importer]
  BY <1>1, <1>2 DEF Step
<1>5. Noted(Service)[Importer] = report[Importer] /\ DOMAIN Noted(Service) = Procs
  BY <1>1, <1>2 DEF Noted
<1>6. \A f : Count(Service, f)[Importer] = report[Importer]
  BY <1>1, <1>2 DEF Count
<1>7. CASE BeginBatch(Service)
  BY <1>1, <1>2, <1>7 DEF BeginBatch, Aside, tree, db, importer
<1>8. CASE Discover(Service)
  BY <1>1, <1>2, <1>8 DEF Discover, Aside, tree, db, importer
<1>22. CASE DiscoverFails(Service)
  <2>1. drifted => drifted'
    BY <1>22, Zenon DEF DiscoverFails
  <2> QED  BY <1>1, <1>2, <1>22, <2>1 DEF DiscoverFails, Aside, tree, db, importer
<1>23. CASE DiscoverBusy(Service)
  <2>1. drifted => drifted'
    BY <1>23, Zenon DEF DiscoverBusy
  <2>2. report'[Importer] = report[Importer]
    BY <1>1, <1>2, <1>23 DEF DiscoverBusy
  <2> QED  BY <1>1, <1>2, <1>23, <2>1, <2>2 DEF DiscoverBusy, Aside, tree, db, importer
<1>9. CASE Load(Service)
  BY <1>1, <1>2, <1>5, <1>9 DEF Load, Aside, tree, db, importer
<1>10. CASE LoadBusy(Service)
  <2>1. PICK n : n = Noted(Service)
    OBVIOUS
  <2>2. report'[Importer] = n[Importer]
    BY <1>1, <1>5, <1>10, <2>1 DEF LoadBusy
  <2> QED  BY <1>1, <1>2, <1>5, <1>10, <2>1, <2>2 DEF LoadBusy, Aside, tree, db, importer
<1>11. CASE Quarantine(Service)
  BY <1>1, <1>2, <1>3, <1>6, <1>11 DEF Quarantine, Aside, tree, db, importer
<1>12. CASE Lookup(Service)
  BY <1>1, <1>2, <1>4, <1>6, <1>12 DEF Lookup, Aside, tree, db, importer
<1>13. CASE LookupAgain(Service)
  BY <1>1, <1>2, <1>4, <1>6, <1>13 DEF LookupAgain, Aside, tree, db, importer
<1>14. CASE LockDevice(Service) \/ InsertJob(Service) \/ InsertChunks(Service)
  BY <1>1, <1>2, <1>4, <1>14 DEF LockDevice, InsertJob, InsertChunks, Aside, tree, scan, importer
<1>15. CASE SelectParser(Service) \/ InsertParser(Service)
  BY <1>1, <1>2, <1>4, <1>15 DEF SelectParser, InsertParser, Aside, tree, db, scan, importer
<1>16. CASE Commit(Service)
  BY <1>1, <1>2, <1>4, <1>6, <1>16 DEF Commit, Durable, Aside, tree, importer
<1>17. CASE CommitUnanswered(Service)
  BY <1>1, <1>2, <1>3, <1>17 DEF CommitUnanswered, Durable, Aside, tree, importer
<1>18. CASE StatementFails(Service)
  BY <1>1, <1>2, <1>3, <1>18 DEF StatementFails, Aside, tree, importer
<1>19. CASE CompleteBatch(Service)
  <2>1. report'[Importer] = report[Importer]
    BY <1>1, <1>2, <1>19 DEF CompleteBatch
  <2> QED  BY <1>1, <1>2, <1>4, <1>19, <2>1 DEF CompleteBatch, Aside, tree, db, importer
<1>20. CASE SkipBatch(Service)
  BY <1>1, <1>2, <1>4, <1>20 DEF SkipBatch, Aside, tree, db, scan, importer
<1>21. CASE RefreshStatuses(Service)
  BY <1>1, <1>2, <1>4, <1>21 DEF RefreshStatuses, Aside, tree, db, importer
<1> QED
  BY <1>7, <1>8, <1>9, <1>10, <1>11, <1>12, <1>13, <1>14, <1>15, <1>16, <1>17, <1>18, <1>19, <1>20, <1>21, <1>22, <1>23
  DEF Work

\* A step of the importer within its pass.
Goes(next) ==
    /\ UNCHANGED <<source, seen, needsAttention>> /\ stored \subseteq stored'
    /\ cursor'[Importer] = cursor[Importer]
    /\ pc'[Importer] = next /\ next \in InPass
    /\ Offered' = Offered
    /\ \A j \in report'[Importer].keys : Settled(j)'
    /\ next \in {"refresh", "passed"} => queue'[Importer] = <<>>

LEMMA PassKeeps ==
    ASSUME QuietInv, pc[Importer] \in InPass, exit' = exit, NEW next, Goes(next)
    PROVE  QuietInv'
<1>1. Present' = Present
  BY DEF Goes, Present
<1>2. \A j : Imported(j) => Imported(j)'
  BY DEF Goes, Imported
<1>3. \A X, c : Frontier(X, c) => Frontier(X, c)'
  BY <1>1 DEF Frontier, Beginning
<1>4. PassInv
  BY DEF QuietInv
<1>5. PassInv'
  BY <1>1, <1>3, <1>4 DEF Goes, PassInv
<1>6. seen' \subseteq Present' /\ (needsAttention' \/ \A j \in seen' : Imported(j)')
  BY <1>1, <1>2 DEF QuietInv, Goes
<1>7. exit' = "0" => \A j \in Present' : Imported(j)'
  BY <1>1, <1>2 DEF QuietInv
<1>8. /\ pc'[Importer] \notin {"begin", "discover"}
      /\ pc'[Importer] \in {"refresh", "passed"} => queue'[Importer] = <<>>
  BY DEF Goes, InPass, InHand, Transaction
<1> QED  BY <1>5, <1>6, <1>7, <1>8 DEF QuietInv

(* Taking the next candidate from the queue.                                 *)
LEMMA Taken ==
    ASSUME Types, ReportTypes, queue[Importer] # <<>>,
           queue' = [queue EXCEPT ![Importer] = Tail(@)],
           report'[Importer].keys = report[Importer].keys \cup {Head(queue[Importer])}
    PROVE  Offered' = Offered
<1>1. Importer \in Procs
  BY DEF Procs
<1>2. PICK q \in Seq(Jobs) : q = queue[Importer]
  BY <1>1 DEF Types
<1>3. queue'[Importer] = Tail(q) /\ q # <<>>
  BY <1>1, <1>2 DEF Types
<1>4. /\ Len(q) \in Nat /\ Len(q) > 0 /\ Head(q) = q[1] /\ Len(Tail(q)) = Len(q) - 1
      /\ \A i \in 1..Len(q) - 1 : Tail(q)[i] = q[i + 1]
  BY <1>3
<1>5. {q[i] : i \in 1..Len(q)} = {q[1]} \cup {Tail(q)[i] : i \in 1..Len(Tail(q))}
  <2>1. \A i \in 1..Len(q) : i = 1 \/ (i - 1 \in 1..Len(q) - 1 /\ Tail(q)[i - 1] = q[i])
    BY <1>4
  <2>2. \A i \in 1..Len(q) - 1 : i + 1 \in 1..Len(q)
    BY <1>4
  <2>3. 1 \in 1..Len(q)
    BY <1>4
  <2>4. \A i \in 1..Len(q) : q[i] \in {q[1]} \cup {Tail(q)[k] : k \in 1..Len(q) - 1}
    BY <2>1
  <2>5. \A i \in 1..Len(q) - 1 : Tail(q)[i] \in {q[k] : k \in 1..Len(q)}
    BY <1>4, <2>2
  <2>6. q[1] \in {q[k] : k \in 1..Len(q)}
    BY <2>3
  <2>7. Len(Tail(q)) = Len(q) - 1
    BY <1>4
  <2> QED  BY <2>4, <2>5, <2>6, <2>7
<1>6. PICK t : t = Tail(q)
  OBVIOUS
<1>7. PICK Q : Q = {q[i] : i \in 1..Len(q)}
  OBVIOUS
<1>8. PICK T : T = {t[i] : i \in 1..Len(t)}
  OBVIOUS
<1>9. Offered = report[Importer].keys \cup Q /\ Offered' = report'[Importer].keys \cup T
  BY <1>2, <1>3, <1>6, <1>7, <1>8 DEF Offered
<1>10. Q = {Head(q)} \cup T
  BY <1>4, <1>5, <1>6, <1>7, <1>8
<1> QED  BY <1>2, <1>9, <1>10

LEMMA Retried ==
    ASSUME Types, ReportTypes, QuietInv, pc[Importer] \in InHand, NEW back \in InHand,
           RetryFrom(Importer, back), UNCHANGED <<source, seen, needsAttention, exit, cursor, queue, key>>,
           stored \subseteq stored'
    PROVE  QuietInv'
<1>0. Importer \in Procs /\ report[Importer] \in Reports
  BY DEF Procs, ReportTypes
<1>1. \A j : Imported(j) => Imported(j)'
  BY DEF Imported
<1>2. \A j \in report[Importer].keys : Settled(j)
  BY DEF QuietInv, PassInv, InPass
<1>3. pc[Importer] \in InPass /\ back \in InPass /\ "scan" \in InPass /\ back \notin {"refresh", "passed"}
  BY DEF InPass, InHand, Transaction
<1>4. CASE attempt[Importer] = RetryAttempts
  <2>1. /\ pc'[Importer] = "scan"
        /\ report'[Importer].keys = report[Importer].keys
        /\ report'[Importer].exhausted = report[Importer].exhausted + 1
        /\ report'[Importer].quarantined = report[Importer].quarantined
        /\ report'[Importer].busy = report[Importer].busy
    <3>1. /\ report' = [report EXCEPT ![Importer].exhausted = @ + 1, ![Importer].errors = TRUE]
          /\ pc' = [pc EXCEPT ![Importer] = "scan"]
      BY <1>4 DEF RetryFrom
    <3> QED  BY <1>0, <3>1 DEF ReportTypes, Reports, Types
  <2>2. Degraded(report'[Importer])
    BY <1>0, <2>1 DEF Degraded, Reports
  <2>3. Goes("scan")
    BY <1>3, <2>1, <2>2 DEF Goes, Offered, Settled
  <2> QED  BY <1>3, <2>3, PassKeeps
<1>5. CASE attempt[Importer] # RetryAttempts
  <2>1. pc'[Importer] = back /\ report' = report
    BY <1>0, <1>5 DEF RetryFrom, Types
  <2>2. \A j \in report[Importer].keys : Settled(j)'
    BY <1>1, <1>2, <2>1 DEF Settled
  <2>3. Goes(back)
    BY <1>3, <2>1, <2>2 DEF Goes, Offered
  <2> QED  BY <1>3, <2>3, PassKeeps
<1> QED  BY <1>4, <1>5

(* A step that counts nothing bad and leaves the candidate in hand, or       *)
(* leaves it stored.                                                         *)
LEMMA Handled ==
    ASSUME Types, ReportTypes, QuietInv, pc[Importer] \in InHand, NEW next \in InHand \cup {"scan"},
           pc' = [pc EXCEPT ![Importer] = next],
           next = "scan" => Imported(key[Importer][1])',
           report'[Importer].keys = report[Importer].keys,
           report'[Importer].quarantined = report[Importer].quarantined,
           report'[Importer].exhausted = report[Importer].exhausted,
           report'[Importer].busy = report[Importer].busy,
           UNCHANGED <<source, seen, needsAttention, exit, cursor, queue, key>>, stored \subseteq stored'
    PROVE  QuietInv'
<1>1. Importer \in Procs /\ pc'[Importer] = next
  BY DEF Procs, Types
<1>2. \A j : Imported(j) => Imported(j)'
  BY DEF Imported
<1>3. \A j \in report[Importer].keys : Settled(j)
  BY DEF QuietInv, PassInv, InPass
<1>4. pc[Importer] \in InPass /\ next \in InPass /\ next \notin {"refresh", "passed"}
  BY DEF InPass, InHand, Transaction
<1>5. Degraded(report[Importer]) => Degraded(report'[Importer])
  BY DEF Degraded
<1>6. \A j \in report[Importer].keys : Settled(j)'
  <2> SUFFICES ASSUME NEW j \in report[Importer].keys PROVE Settled(j)'
    OBVIOUS
  <2>1. CASE Imported(j)
    BY <1>2, <2>1 DEF Settled
  <2>2. CASE Degraded(report[Importer])
    BY <1>5, <2>2 DEF Settled
  <2>3. CASE key[Importer][1] = j
    BY <1>1, <2>3 DEF Settled
  <2> QED  BY <1>3, <2>1, <2>2, <2>3 DEF Settled
<1>7. Goes(next)
  BY <1>1, <1>4, <1>6 DEF Goes, Offered
<1> QED  BY <1>4, <1>7, PassKeeps

(* A step between two candidates.                                            *)
LEMMA Between ==
    ASSUME Types, ReportTypes, QuietInv, pc[Importer] \in {"scan", "refresh"},
           NEW next \in {"scan", "refresh", "passed"}, pc'[Importer] = next,
           queue[Importer] = <<>>,
           report'[Importer].keys = report[Importer].keys,
           report'[Importer].quarantined = report[Importer].quarantined,
           report'[Importer].exhausted = report[Importer].exhausted,
           report'[Importer].busy = report[Importer].busy,
           UNCHANGED <<source, stored, seen, needsAttention, exit, cursor, queue>>
    PROVE  QuietInv'
<1>1. pc[Importer] \in InPass /\ pc[Importer] \notin InHand /\ next \in InPass
  BY DEF InPass, InHand, Transaction
<1>2. \A j \in report[Importer].keys : Imported(j) \/ Degraded(report[Importer])
  BY <1>1 DEF QuietInv, PassInv, Settled
<1>3. \A j \in report[Importer].keys : Settled(j)'
  BY <1>2 DEF Settled, Degraded, Imported
<1>4. Goes(next)
  BY <1>1, <1>3 DEF Goes, Offered
<1> QED  BY <1>1, <1>4, PassKeeps

LEMMA ImporterLoads ==
    ASSUME Types, ReportTypes, QuietInv, Load(Importer) \/ LoadBusy(Importer)
    PROVE  QuietInv'
<1>0. Importer \in Procs /\ report[Importer] \in Reports /\ report \in [Procs -> Reports]
  BY DEF Procs, ReportTypes
<1>1. /\ UNCHANGED <<source, stored, seen, needsAttention, exit, cursor>>
      /\ pc[Importer] = "scan" /\ queue[Importer] # <<>>
      /\ queue' = [queue EXCEPT ![Importer] = Tail(@)]
  BY DEF Load, LoadBusy, tree, db, importer
<1>2. PICK j : j = Head(queue[Importer])
  OBVIOUS
<1>3. PICK n : n = Noted(Importer)
  OBVIOUS
<1>4. /\ DOMAIN n = Procs /\ n[Importer].keys = report[Importer].keys \cup {j}
      /\ n[Importer].quarantined = report[Importer].quarantined
      /\ n[Importer].exhausted = report[Importer].exhausted
      /\ n[Importer].busy = report[Importer].busy
  <2>1. n = [report EXCEPT ![Importer].discovered = @ + 1, ![Importer].keys = @ \cup {j}]
    BY <1>2, <1>3 DEF Noted
  <2> QED  BY <1>0, <2>1 DEF Reports
<1>5. "scan" \in InPass /\ "lookup" \in InHand /\ "quarantine" \in InHand /\ "scan" \notin InHand
      /\ InHand \subseteq InPass /\ {"refresh", "passed"} \cap InHand = {}
  BY DEF InPass, InHand, Transaction
<1>6. \A i \in report[Importer].keys : Imported(i) \/ Degraded(report[Importer])
  BY <1>1, <1>5 DEF QuietInv, PassInv, Settled
<1>7. CASE Load(Importer)
  <2>1. PICK next \in {"lookup", "quarantine"} : pc' = [pc EXCEPT ![Importer] = next]
    BY <1>7 DEF Load
  <2>2. report' = n /\ key'[Importer] = <<j, source[j]>> /\ pc'[Importer] = next
    BY <1>0, <1>2, <1>3, <1>7, <2>1 DEF Load, Types
  <2>3. Offered' = Offered
    BY <1>1, <1>2, <1>4, <2>2, Taken
  <2>4. Degraded(report[Importer]) => Degraded(report'[Importer])
    BY <1>4, <2>2 DEF Degraded
  <2>5. key'[Importer][1] = j
    BY <2>2
  <2>6. \A i \in report'[Importer].keys : Settled(i)'
    <3> SUFFICES ASSUME NEW i \in report'[Importer].keys PROVE Settled(i)'
      OBVIOUS
    <3>1. CASE i = j
      BY <1>5, <2>2, <2>5, <3>1 DEF Settled
    <3>2. CASE i \in report[Importer].keys
      BY <1>1, <1>6, <2>4, <3>2 DEF Settled, Imported
    <3> QED  BY <1>4, <2>2, <3>1, <3>2
  <2>7. Goes(next)
    BY <1>1, <1>5, <2>1, <2>2, <2>3, <2>6 DEF Goes
  <2> QED  BY <1>1, <1>5, <2>7, PassKeeps
<1>8. CASE LoadBusy(Importer)
  <2>1. report' = [n EXCEPT ![Importer].busy = @ + 1, ![Importer].errors = TRUE] /\ pc' = pc
    BY <1>3, <1>8 DEF LoadBusy
  <2>2. /\ report'[Importer].keys = n[Importer].keys
        /\ report'[Importer].quarantined = n[Importer].quarantined
        /\ report'[Importer].exhausted = n[Importer].exhausted
        /\ report'[Importer].busy = n[Importer].busy + 1
    <3>1. n \in [Procs -> Reports]
      <4>1. j \in Jobs
        BY <1>0, <1>1, <1>2 DEF Types
      <4>2. n = [report EXCEPT ![Importer].discovered = @ + 1, ![Importer].keys = @ \cup {j}]
        BY <1>2, <1>3 DEF Noted
      <4> QED  BY <1>0, <4>1, <4>2, TwoFields
    <3> QED  BY <1>0, <2>1, <3>1 DEF Reports
  <2>3. Degraded(report'[Importer])
    BY <1>0, <1>4, <2>2 DEF Degraded, Reports
  <2>4. Offered' = Offered
    BY <1>1, <1>2, <1>4, <2>2, Taken
  <2>5. Goes("scan")
    BY <1>1, <1>5, <2>1, <2>3, <2>4 DEF Goes, Settled
  <2> QED  BY <1>1, <1>5, <2>5, PassKeeps
<1> QED  BY <1>7, <1>8

LEMMA ImporterDiscovers ==
    ASSUME Types, ReportTypes, QuietInv, Discover(Importer)
    PROVE  QuietInv'
<1>0. Importer \in Procs
  BY DEF Procs
<1>1. PICK s \in Candidates : queue' = [queue EXCEPT ![Importer] = Rotated(s, cursor[Importer])]
  BY DEF Discover
<1>2. PICK r : r = Rotated(s, cursor[Importer])
  OBVIOUS
<1>3. PICK c \in Nat : c = cursor[Importer]
  BY <1>0 DEF Types
<1>4. /\ UNCHANGED <<source, stored, seen, needsAttention, exit, report>>
      /\ queue'[Importer] = r /\ cursor'[Importer] = NextCursor(c) /\ pc'[Importer] = "scan"
      /\ pc[Importer] = "discover"
  BY <1>0, <1>1, <1>2, <1>3 DEF Discover, Types, tree, db, importer
<1>5. PICK w : w = {r[i] : i \in 1..Len(r)}
  OBVIOUS
<1>6. /\ report[Importer].keys = {} /\ Frontier(seen, c) /\ seen \subseteq Present
  BY <1>3, <1>4 DEF QuietInv, EmptyReport
<1>7. /\ w \subseteq Present /\ Frontier(seen \cup w, NextCursor(c))
      /\ w \subseteq seen => seen = Present
  <2>1. PICK X : X = seen
    OBVIOUS
  <2>2. Frontier(X, c) /\ X \subseteq Present
    BY <1>6, <2>1
  <2>4. r = Rotated(s, c)
    BY <1>2, <1>3
  <2>5. Shows(s, c, w)
    BY <1>5, <2>4 DEF Shows
  <2>3. /\ w \subseteq Present /\ Frontier(X \cup w, NextCursor(c))
        /\ w \subseteq X => X = Present
    BY <2>2, <2>5, WindowAdvances
  <2> QED  BY <2>1, <2>3
<1>8. Offered' = w
  BY <1>4, <1>5, <1>6 DEF Offered
<1>9. Present' = Present /\ \A j : Imported(j) => Imported(j)'
  BY <1>4 DEF Present, Imported
<1>10. \A X, d : Frontier(X, d) => Frontier(X, d)'
  BY <1>9 DEF Frontier, Beginning
<1>11. PassInv'
  BY <1>4, <1>6, <1>7, <1>8, <1>9, <1>10 DEF PassInv
<1> QED  BY <1>4, <1>9, <1>11 DEF QuietInv

LEMMA ImporterDecides ==
    ASSUME Types, ReportTypes, QuietInv, ImporterPass
    PROVE  QuietInv'
<1>0. Importer \in Procs
  BY DEF Procs
<1>1. UNCHANGED <<source, stored, report, cursor, queue>> /\ pc[Importer] = "passed"
  BY DEF ImporterPass, tree, db, scan
<1>2. /\ PassInv /\ queue[Importer] = <<>> /\ seen \subseteq Present
      /\ needsAttention \/ \A j \in seen : Imported(j)
      /\ exit = "0" => \A j \in Present : Imported(j)
  BY <1>1 DEF QuietInv, InPass
<1>3. Offered = report[Importer].keys
  BY <1>2 DEF Offered
<1>4. \A j \in report[Importer].keys : Imported(j) \/ Degraded(report[Importer])
  BY <1>1, <1>2 DEF PassInv, Settled, InHand, Transaction
<1>5. Present' = Present /\ \A j : Imported(j)' <=> Imported(j)
  BY <1>1 DEF Present, Imported
<1>6. \A X, c : Frontier(X, c) => Frontier(X, c)'
  BY <1>5 DEF Frontier, Beginning
<1>7. CASE report[Importer].keys \subseteq seen
  <2>1. /\ exit' = (IF needsAttention THEN "1" ELSE "0") /\ pc'[Importer] = "down"
        /\ UNCHANGED <<seen, needsAttention>>
    BY <1>0, <1>7 DEF ImporterPass, Step, Types
  <2>2. seen = Present
    BY <1>2, <1>3, <1>7 DEF PassInv
  <2>3. exit' = "0" => \A j \in Present : Imported(j)
    BY <1>2, <2>1, <2>2
  <2> QED  BY <1>2, <1>5, <2>1, <2>3 DEF QuietInv, InPass, InHand, Transaction
<1>8. CASE ~(report[Importer].keys \subseteq seen)
  <2>1. /\ seen' = seen \cup report[Importer].keys
        /\ needsAttention' = (needsAttention \/ Degraded(report[Importer]) \/ passes + 1 = MaxPasses)
        /\ \/ pc'[Importer] = "begin" /\ exit' = exit
           \/ pc'[Importer] = "down" /\ exit' = "1"
    BY <1>0, <1>8 DEF ImporterPass, Step, Types
  <2>2. seen' \subseteq Present /\ Frontier(seen', cursor[Importer])
    BY <1>2, <1>3, <2>1 DEF PassInv
  <2>3. needsAttention' \/ \A j \in seen' : Imported(j)
    BY <1>2, <1>4, <2>1
  <2>4. exit' = "0" => \A j \in Present : Imported(j)
    BY <1>2, <2>1
  <2>5. pc'[Importer] \notin InPass \cup {"discover"}
    BY <2>1 DEF InPass, InHand, Transaction
  <2>6. Frontier(seen, cursor[Importer])'
    BY <1>1, <1>6, <2>2
  <2>7. pc'[Importer] \notin {"refresh", "passed"}
    BY <2>1
  <2> QED  BY <1>5, <2>2, <2>3, <2>4, <2>5, <2>6, <2>7 DEF QuietInv
<1> QED  BY <1>7, <1>8

LEMMA ImporterQuarantines ==
    ASSUME Types, ReportTypes, QuietInv, Quarantine(Importer)
    PROVE  QuietInv'
<1>0. Importer \in Procs /\ report[Importer] \in Reports /\ report \in [Procs -> Reports]
  BY DEF Procs, ReportTypes
<1>1. /\ UNCHANGED <<source, stored, seen, needsAttention, exit, cursor, queue, key>>
      /\ pc[Importer] = "quarantine"
  BY DEF Quarantine, tree, db, importer
<1>2. "quarantine" \in InHand /\ "quarantine" \in InPass /\ "scan" \in InPass
  BY DEF InPass, InHand
<1>3. CASE report' = Count(Importer, "quarantined") /\ pc' = [pc EXCEPT ![Importer] = "scan"]
  <2>1. /\ report'[Importer].keys = report[Importer].keys
        /\ report'[Importer].quarantined = report[Importer].quarantined + 1
        /\ report'[Importer].exhausted = report[Importer].exhausted
        /\ report'[Importer].busy = report[Importer].busy
    BY <1>0, <1>3 DEF Count, Reports
  <2>2. Degraded(report'[Importer]) /\ pc'[Importer] = "scan"
    BY <1>0, <1>3, <2>1 DEF Degraded, Reports, Types
  <2>3. Goes("scan")
    BY <1>1, <1>2, <2>1, <2>2 DEF Goes, Offered, Settled
  <2> QED  BY <1>1, <1>2, <2>3, PassKeeps
<1>4. CASE RetryFrom(Importer, "quarantine")
  BY <1>1, <1>2, <1>4, Retried
<1> QED  BY <1>3, <1>4 DEF Quarantine

(* The statements of the importer's transactions.                            *)
LEMMA ImporterImports ==
    ASSUME Types, ReportTypes, QuietInv,
           \/ Lookup(Importer) \/ LockDevice(Importer) \/ InsertJob(Importer) \/ InsertChunks(Importer)
           \/ SelectParser(Importer) \/ InsertParser(Importer) \/ Commit(Importer)
    PROVE  QuietInv'
<1>0. Importer \in Procs /\ report[Importer] \in Reports /\ report \in [Procs -> Reports]
  BY DEF Procs, ReportTypes
<1>1. /\ UNCHANGED <<source, seen, needsAttention, exit, cursor, queue, key>>
      /\ pc[Importer] \in InHand
  BY DEF Lookup, LockDevice, InsertJob, InsertChunks, SelectParser, InsertParser, Commit,
         tree, db, scan, importer, InHand, Transaction
<1>2. {"lookup", "device", "insert", "chunks", "parser_select", "parser_insert", "commit", "lookup2"}
         \subseteq InHand
  BY DEF InHand, Transaction
<1>3. ASSUME NEW next \in InHand, Step(Importer, next), UNCHANGED <<stored, report>>
      PROVE  QuietInv'
  <2>1. next # "scan"
    BY DEF InHand, Transaction
  <2> QED  BY <1>1, <1>3, <2>1, Handled DEF Step
<1>4. \A f \in {"duplicates", "imported"} :
         /\ Count(Importer, f)[Importer].keys = report[Importer].keys
         /\ Count(Importer, f)[Importer].quarantined = report[Importer].quarantined
         /\ Count(Importer, f)[Importer].exhausted = report[Importer].exhausted
         /\ Count(Importer, f)[Importer].busy = report[Importer].busy
  BY <1>0 DEF Count, Reports
<1>5. ASSUME Step(Importer, "scan"), Imported(key[Importer][1])', stored \subseteq stored',
             NEW f \in {"duplicates", "imported"}, report' = Count(Importer, f)
      PROVE  QuietInv'
  <2>1. /\ report'[Importer].keys = report[Importer].keys
        /\ report'[Importer].quarantined = report[Importer].quarantined
        /\ report'[Importer].exhausted = report[Importer].exhausted
        /\ report'[Importer].busy = report[Importer].busy
    BY <1>4, <1>5
  <2> QED  BY <1>1, <1>5, <2>1, Handled DEF Step
<1>6. CASE Lookup(Importer)
  <2>1. CASE key[Importer] \in stored
    <3>1. stored' = stored /\ Imported(key[Importer][1])'
      BY <1>1, <1>6, <2>1 DEF Lookup, db, Imported
    <3> QED  BY <1>5, <1>6, <2>1, <3>1 DEF Lookup
  <2>2. CASE key[Importer] \notin stored
    BY <1>2, <1>3, <1>6, <2>2 DEF Lookup, db
  <2> QED  BY <2>1, <2>2
<1>7. CASE LockDevice(Importer) \/ SelectParser(Importer)
  BY <1>2, <1>3, <1>7 DEF LockDevice, SelectParser, db, scan
<1>8. CASE InsertJob(Importer) \/ InsertParser(Importer)
  BY <1>2, <1>3, <1>8 DEF InsertJob, InsertParser, scan
<1>9. CASE InsertChunks(Importer)
  BY <1>2, <1>3, <1>9 DEF InsertChunks, scan
<1>10. CASE Commit(Importer)
  <2>1. stored' = stored \cup {key[Importer]}
    BY <1>10 DEF Commit, Durable
  <2>2. Imported(key[Importer][1])'
    BY <1>1, <2>1 DEF Imported
  <2> QED  BY <1>5, <1>10, <2>1, <2>2 DEF Commit
<1> QED  BY <1>6, <1>7, <1>8, <1>9, <1>10

LEMMA ImporterLooksAgain ==
    ASSUME Types, ReportTypes, QuietInv, LookupAgain(Importer)
    PROVE  QuietInv'
<1>0. Importer \in Procs /\ report[Importer] \in Reports /\ report \in [Procs -> Reports]
  BY DEF Procs, ReportTypes
<1>1. /\ UNCHANGED <<source, stored, seen, needsAttention, cursor, queue, key>>
      /\ pc[Importer] = "lookup2" /\ "lookup2" \in InHand
  BY DEF LookupAgain, tree, db, InHand, Transaction
<1>2. CASE key[Importer] \in stored
  <2>1. /\ pc' = [pc EXCEPT ![Importer] = "scan"] /\ exit' = exit
        /\ report' = Count(Importer, "duplicates")
    BY <1>2 DEF LookupAgain, Step
  <2>2. Imported(key[Importer][1])'
    BY <1>1, <1>2 DEF Imported
  <2>3. /\ report'[Importer].keys = report[Importer].keys
        /\ report'[Importer].quarantined = report[Importer].quarantined
        /\ report'[Importer].exhausted = report[Importer].exhausted
        /\ report'[Importer].busy = report[Importer].busy
    BY <1>0, <2>1 DEF Count, Reports
  <2> QED  BY <1>1, <2>1, <2>2, <2>3, Handled
<1>3. CASE key[Importer] \notin stored
  <2>1. pc'[Importer] = "down" /\ exit' = "2"
    BY <1>0, <1>3 DEF LookupAgain, Step, Types
  <2>2. seen' \subseteq Present' /\ (needsAttention' \/ \A j \in seen' : Imported(j)')
    BY <1>1 DEF QuietInv, Present, Imported
  <2> QED  BY <2>1, <2>2 DEF QuietInv, InPass, InHand, Transaction
<1> QED  BY <1>2, <1>3

LEMMA ImporterFails ==
    ASSUME Types, ReportTypes, QuietInv, CommitUnanswered(Importer) \/ StatementFails(Importer)
    PROVE  QuietInv'
<1>1. /\ UNCHANGED <<source, seen, needsAttention, exit, cursor, queue, key>> /\ stored \subseteq stored'
      /\ RetryFrom(Importer, "lookup") /\ pc[Importer] \in InHand
  BY DEF CommitUnanswered, StatementFails, Durable, tree, importer, InHand, Transaction
<1>2. "lookup" \in InHand
  BY DEF InHand, Transaction
<1> QED  BY <1>1, <1>2, Retried

LEMMA ImporterEndsPass ==
    ASSUME Types, ReportTypes, QuietInv,
           CompleteBatch(Importer) \/ SkipBatch(Importer) \/ RefreshStatuses(Importer)
    PROVE  QuietInv'
<1>0. Importer \in Procs /\ report[Importer] \in Reports /\ report \in [Procs -> Reports]
  BY DEF Procs, ReportTypes
<1>1. UNCHANGED <<source, stored, seen, needsAttention, exit, cursor, queue>>
  BY DEF CompleteBatch, SkipBatch, RefreshStatuses, tree, db, scan, importer
<1>2. CASE CompleteBatch(Importer) \/ SkipBatch(Importer)
  <2>1. pc[Importer] = "scan" /\ queue[Importer] = <<>> /\ pc'[Importer] = "refresh"
    BY <1>0, <1>2 DEF CompleteBatch, SkipBatch, Step, Types
  <2>2. report' = report \/ \E b \in BOOLEAN : report' = [report EXCEPT ![Importer].errors = b]
    BY <1>2 DEF CompleteBatch, SkipBatch, scan
  <2>3. /\ report'[Importer].keys = report[Importer].keys
        /\ report'[Importer].quarantined = report[Importer].quarantined
        /\ report'[Importer].exhausted = report[Importer].exhausted
        /\ report'[Importer].busy = report[Importer].busy
    BY <1>0, <2>2 DEF Reports
  <2> QED  BY <1>1, <2>1, <2>3, Between
<1>3. CASE RefreshStatuses(Importer)
  <2>1. pc[Importer] = "refresh" /\ pc'[Importer] = "passed"
    BY <1>0, <1>3, ProcsAssumption DEF RefreshStatuses, Step, Types
  <2>2. queue[Importer] = <<>>
    BY <2>1 DEF QuietInv
  <2>3. report'[Importer] = report[Importer]
    BY <1>0, <1>3, ProcsAssumption DEF RefreshStatuses
  <2> QED  BY <1>1, <2>1, <2>2, <2>3, Between
<1> QED  BY <1>2, <1>3

LEMMA ImporterBegins ==
    ASSUME Types, ReportTypes, QuietInv, BeginBatch(Importer)
    PROVE  QuietInv'
<1>0. Importer \in Procs
  BY DEF Procs
<1>1. /\ UNCHANGED <<source, stored, seen, needsAttention, exit, cursor, queue>>
      /\ pc[Importer] = "begin" /\ pc'[Importer] = "discover" /\ report'[Importer] = EmptyReport
  BY <1>0 DEF BeginBatch, tree, db, importer, Types, ReportTypes
<1>2. Present' = Present /\ \A j : Imported(j)' <=> Imported(j)
  BY <1>1 DEF Present, Imported
<1>3. Frontier(seen, cursor[Importer])'
  BY <1>1, <1>2 DEF QuietInv, Frontier, Beginning
<1> QED  BY <1>1, <1>2, <1>3 DEF QuietInv, InPass, InHand, Transaction

LEMMA QuietStep ==
    ASSUME Types, ReportTypes, ~drifted => QuietInv, [Next]_vars, ~drifted'
    PROVE  QuietInv'
<1>0. Service \in Procs /\ Importer \in Procs /\ Service # Importer
  BY ProcsAssumption DEF Procs
<1>1. ASSUME Aside PROVE QuietInv'
  BY <1>1, AsideKeeps DEF Aside
<1>2. CASE UNCHANGED vars
  BY <1>1, <1>2 DEF vars, Aside
<1>3. CASE Work(Service)
  BY <1>1, <1>3, ServiceAside
<1>4. CASE Work(Importer)
  <2>1. CASE DiscoverFails(Importer) \/ DiscoverBusy(Importer)
    BY <2>1 DEF DiscoverFails, DiscoverBusy
  <2>2. CASE ~(DiscoverFails(Importer) \/ DiscoverBusy(Importer))
    <3>1. drifted' = drifted
      BY <1>4, <2>2 DEF Work, BeginBatch, Discover, Load, LoadBusy, Quarantine, Lookup, LockDevice,
         InsertJob, InsertChunks, SelectParser, InsertParser, Commit, CommitUnanswered, StatementFails,
         LookupAgain, CompleteBatch, SkipBatch, RefreshStatuses
    <3>2. QuietInv
      BY <3>1
    <3> QED
      BY <1>4, <2>2, <3>2, ImporterBegins, ImporterDiscovers, ImporterLoads, ImporterQuarantines,
         ImporterImports, ImporterLooksAgain, ImporterFails, ImporterEndsPass DEF Work
  <2> QED  BY <2>1, <2>2
<1>5. CASE ImporterPass
  <2>1. drifted' = drifted
    BY <1>5 DEF ImporterPass
  <2> QED  BY <1>5, <2>1, ImporterDecides
<1>6. CASE Crash \/ Restart
  BY <1>0, <1>1, <1>6 DEF Crash, Restart, Step, Aside, Types, ReportTypes, tree, db, importer
<1>7. ASSUME NEW j \in Jobs, Publish(j) PROVE QuietInv'
  BY <1>7 DEF Publish
<1> QED  BY <1>2, <1>3, <1>4, <1>5, <1>6, <1>7 DEF Next, Procs

LEMMA DrainInit == Init => DrainInv
<1> SUFFICES ASSUME Init PROVE DrainInv
  OBVIOUS
<1>0. Importer \in Procs /\ pc[Importer] = "begin" /\ cursor[Importer] = 0 /\ seen = {} /\ exit = "running"
  BY DEF Init, Procs
<1>1. report \in [Procs -> Reports]
  BY DEF Init, Reports, EmptyReport
<1>2. Frontier(seen, cursor[Importer])
  BY <1>0, FS_EmptySet DEF Frontier, Beginning
<1> QED  BY <1>0, <1>1, <1>2 DEF DrainInv, QuietInv, InPass, InHand, Transaction

LEMMA DrainNext == IngestionInv /\ DrainInv /\ [Next]_vars => DrainInv'
<1> SUFFICES ASSUME IngestionInv, DrainInv, [Next]_vars PROVE DrainInv'
  OBVIOUS
<1>1. Types /\ ReportTypes /\ (~drifted => QuietInv)
  BY InvTypes DEF DrainInv, ReportTypes
<1>2. ReportTypes'
  <2>1. CASE \E p \in Procs : Work(p)
    BY <1>1, <2>1, ReportsStep
  <2>2. CASE report' = report
    BY <1>1, <2>2 DEF ReportTypes
  <2>3. ImporterPass \/ Crash \/ Restart \/ (\E j \in Jobs : Publish(j)) \/ UNCHANGED vars
           => report' = report
    BY DEF ImporterPass, Crash, Restart, Publish, scan, vars
  <2> QED  BY <2>1, <2>2, <2>3 DEF Next
<1>3. ~drifted' => QuietInv'
  BY <1>1, QuietStep
<1> QED  BY <1>2, <1>3 DEF DrainInv, ReportTypes

(* The importer that exits with 0 has stored every job of a tree that it     *)
(* could read and that stood still, whatever the rotating window, the        *)
(* retries and the service do meanwhile (HistoricalImporter.run,             *)
(* _rotating_markers).                                                       *)
THEOREM ImporterDrained == Spec => []ImporterDrainsQuietTree
<1>1. Init => IngestionInv /\ DrainInv
  BY InvInit, DrainInit
<1>2. (IngestionInv /\ DrainInv) /\ [Next]_vars => (IngestionInv /\ DrainInv)'
  BY InvNext, DrainNext
<1>3. DrainInv => ImporterDrainsQuietTree
  BY DEF DrainInv, QuietInv, ImporterDrainsQuietTree, Imported, Present
<1> QED  BY <1>1, <1>2, <1>3, PTL DEF Spec

=============================================================================
