-------------------------- MODULE CorrelationWorker --------------------------
(***************************************************************************)
(* The correlation worker (correlation/worker.py): the versions of the     *)
(* documents it may see, the watermark and the seeds of a run, and what a  *)
(* run stores: current correlations and the orders with their events.      *)
(*                                                                         *)
(* A run is one READ COMMITTED transaction in two steps: CorrBegin reads   *)
(* the documents and, if there is one, locks the watermark; CorrCommit     *)
(* stores against the database as it is then.                              *)
(*                                                                         *)
(* Left out: the price attributions that are stored with a correlation     *)
(* (pricing/service.py); they are a function of it and no worker reads     *)
(* them.  Whether a job is technically complete is a constant of the       *)
(* scenario: it stands for the capture flags, the job status and the       *)
(* import status, whose changes while a job is parsed (PARSE_RETRY,        *)
(* PARSE_FAILED hide its documents) are not followed here.                 *)
(***************************************************************************)
EXTENDS FraudRules

CONSTANTS
    Scenarios,  \* what is printed, and the bounds on what happens to it
    Lookback,   \* time_window_seconds, in ticks of the clock of parsed_at
    Limit       \* max_documents

ASSUME WorkerAssumption == Lookback \in Nat /\ Limit \in Nat \ {0}

\* Documents are finitely many, have their times and finitely many lines; a
\* rule that is switched is one of the catalogue.
ASSUME ScenarioAssumption ==
    \A s \in Scenarios :
       /\ IsFiniteSet(DOMAIN s.docs) /\ DOMAIN s.docs \subseteq Nat
       /\ \A i \in DOMAIN s.docs : \A b \in DOMAIN s.docs[i] :
             /\ s.docs[i][b].at \in Nat /\ s.docs[i][b].captured \in Nat
             /\ IsFiniteSet(Keys(s.docs[i][b]))
       /\ s.switched \subseteq Rules

VARIABLES
    world,    \* a scenario: docs (id -> build -> document), incomplete jobs, whitelist,
              \* the rules that are switched, late parsing, bounds
    stored,   \* id -> builds of its DocumentVersions, in version order
    stamp,    \* id -> build -> parsed_at
    active,   \* ActiveParserVersion
    review,   \* incomplete job -> review_state and analysis_excluded
    mark,     \* AnalysisWatermark: cursor and fingerprint of the active parsers
    current,  \* the AUTOMATIC and UNCORRELATED correlations: sets of <<id, build>>
    orders,   \* sequence of orders with the chain of their events
    cw        \* the run in progress

workerVars == <<world, stored, stamp, active, review, mark, current, orders, cw>>

NoMark == [on |-> FALSE, at |-> 0, key |-> 0]
NoRun == [on |-> FALSE, groups |-> {}, nonSale |-> {}, mark |-> NoMark, locked |-> FALSE]

Docs == DOMAIN world.docs
Job(i) == world.docs[i][1].job
Members(c) == {m[1] : m \in c}

-----------------------------------------------------------------------------
(* What the worker can see.                                                *)

\* The version of the active build, else the newest.
Build(i) == IF active \in Range(stored[i]) THEN active ELSE Last(stored[i])
Doc(i) == world.docs[i][Build(i)]
ParsedAt(i) == stamp[i][Build(i)]
Version(i) == <<i, Build(i)>>

Usable(j) ==
    \/ j \notin world.incomplete
    \/ ~review[j].excluded /\ review[j].state = "VERIFIED_USABLE"

Visible == {i \in Docs : stored[i] # <<>> /\ Usable(Job(i))}
Loaded(S) == [i \in S \cap Visible |-> Doc(i)]

Placed(i) == \E c \in current : i \in Members(c)

\* No usable watermark: the whole history is taken again.
Rewound == ~mark.on \/ mark.key # active

\* Mutation: only what was parsed after the watermark.
SeededOnlyNewer(i) == Rewound \/ ParsedAt(i) > mark.at

IsSeed(i) ==
    \/ Rewound
    \/ /\ ParsedAt(i) >= mark.at - Lookback
       /\ ParsedAt(i) > mark.at \/ ~Placed(i)

Oldest(S, n) == {i \in S : Cardinality({j \in S : ParsedAt(j) < ParsedAt(i)}) < n}
Seeds == Oldest({i \in Visible : IsSeed(i)}, Limit)

Values(S, Field(_)) == {Field(Doc(i)) : i \in S} \ {None}

\* The documents captured near the printed times of the seeds that are seeds
\* or share a key with one.  A seed is not near when no seed's printed time is
\* within the window of its capture; the watermark passes it all the same.
Neighbours(S) ==
    LET Order(a) == a.order  Code(a) == a.code   Table(a) == a.table
        Source(a) == a.job   Ref(a) == a.cref    Suffix(a) == CounterSuffix(a.cref)
        times == {Doc(i).at : i \in S}
        links == Values(S, Code) \cup Values(S, Ref)
    IN  {j \in Visible :
           /\ \E t \in times : Doc(j).captured >= t - TimeWindow
           /\ \E t \in times : Doc(j).captured <= t + TimeWindow
           /\ \/ j \in S
              \/ Doc(j).order \in Values(S, Order) \/ Doc(j).table \in Values(S, Table)
              \/ Doc(j).job \in Values(S, Source) \/ {Doc(j).code, Doc(j).cref} \cap links # {}
              \/ Doc(j).suffix \in Values(S, Suffix)}

LinkCodes(a) == ({a.cref} \cup If(IsFiscal(a), {a.code})) \ {None}
CounterSuffixes(a) ==
    (If(IsFiscal(a), {a.suffix})
       \cup If(a.type \in CopyTypes \cup {"MANAGEMENT_DOCUMENT"}, {CounterSuffix(a.cref)})) \ {None}

ShareBlock(a, b) ==
    \/ Same(a.order, b.order) \/ Same(a.code, b.code) \/ Same(a.table, b.table)
    \/ Same(a.job, b.job)
    \/ LinkCodes(a) \cap LinkCodes(b) # {}
    \/ CounterSuffixes(a) \cap CounterSuffixes(b) # {}

\* Only pairs with a seed in them are compared.
CandidatePairs(D, S) ==
    {p \in {{i, j} : i \in S \cap DOMAIN D, j \in DOMAIN D} :
       \E i, j \in p : /\ i # j /\ ShareBlock(D[i], D[j])
                       /\ Delta(D[i], D[j]) <= TimeWindow}

NextMark(S) ==
    LET last == CHOOSE n \in {ParsedAt(i) : i \in S} : \A i \in S : ParsedAt(i) <= n
    IN  IF Rewound \/ last > mark.at THEN [on |-> TRUE, at |-> last, key |-> active] ELSE mark

-----------------------------------------------------------------------------
(* What a run stores.                                                      *)

Episode(c) == [i \in Members(c) |-> world.docs[i][(CHOOSE m \in c : m[1] = i)[2]]]
Replaced(c, groups) == \E g \in groups : Members(c) \cap Members(g) # {}

\* The correlations the open run is going to retire.
Retiring == {c \in current : Members(c) \cap cw.nonSale # {} \/ Replaced(c, cw.groups)}

IsAuto(code) == code < 0

OrderOf(D) ==
    LET primary == FirstOf(D, IF Sources(D) # {} THEN Sources(D) ELSE DOMAIN D)
        named == Timeline(D, {i \in Sources(D) : D[i].order # None})
              \o Timeline(D, {i \in DOMAIN D : D[i].order # None})
    IN  [dev |-> D[primary].dev, date |-> D[primary].at \div 86400,
         code |-> IF named = <<>> THEN -primary ELSE D[named[1]].order]

SameOrder(o, p) == o.dev = p.dev /\ o.date = p.date /\ o.code = p.code


\* An event has a deterministic id, which is looked up first.
IsNew(events, e) == e \notin Range(events)

Append1(events, wanted) ==
    events \o SelectSeq(wanted, LAMBDA e : IsNew(events, e))

WantedEvents(c) ==
    LET D == Episode(c) IN
    SortedSet({[type |-> e[1], doc |-> e[2], ver |-> (CHOOSE m \in c : m[1] = e[2])[2],
                   detail |-> e[3]] : e \in DesiredEvents(D)},
                 LAMBDA e, f : Earlier(D, e.doc, f.doc))

\* The orders after one correlation: its order is any one that has an event of
\* its documents, else the one of that device, day and code, else a new one.
StoreOrder(O, c) ==
    LET D == Episode(c)
        o == OrderOf(D)
        linked == {n \in DOMAIN O : \E e \in Range(O[n].events) : e.doc \in DOMAIN D}
        named == {n \in DOMAIN O : SameOrder(O[n], o)}
        targets == IF linked # {} THEN linked ELSE IF named # {} THEN named ELSE {Len(O) + 1}
        Old(n) == IF n > Len(O) THEN [dev |-> o.dev, date |-> o.date, code |-> o.code,
                                      status |-> "OPEN", events |-> <<>>] ELSE O[n]
        Code(n) == IF IsAuto(Old(n).code) /\ ~IsAuto(o.code) /\ named \subseteq {n}
                   THEN o.code ELSE Old(n).code
        New(n) == [Old(n) EXCEPT !.code = Code(n), !.status = OrderStatus(D),
                                 !.events = Append1(@, WantedEvents(c))]
    IN  {[m \in DOMAIN O \cup {n} |-> IF m = n THEN New(n) ELSE O[m]] : n \in targets}

OrdersAfter(O, groups) ==
    LET First(c) == CHOOSE i \in Members(c) : \A j \in Members(c) : i <= j
    IN  FoldLeft(LAMBDA S, c : UNION {StoreOrder(P, c) : P \in S}, {O},
                 SortedSet(groups, LAMBDA c, d : First(c) < First(d)))

-----------------------------------------------------------------------------
WorkerInit ==
    /\ world \in Scenarios
    /\ stored = [i \in Docs |-> <<>>]
    /\ stamp = [i \in Docs |-> [b \in DOMAIN world.docs[i] |-> 0]]
    /\ active = 1
    /\ review = [j \in world.incomplete |-> [state |-> "PENDING", excluded |-> FALSE]]
    /\ mark = NoMark
    /\ current = {}
    /\ orders = <<>>
    /\ cw = NoRun

\* The parser commits a version: in the order of parsed_at or, when several
\* processes parse, one tick late.
Parse(i, b) ==
    LET used == UNION {{stamp[j][k] : k \in DOMAIN stamp[j]} : j \in Docs}
        newest == CHOOSE n \in used : \A m \in used : m <= n
    IN  /\ b \notin Range(stored[i])
        /\ b > 1 => stored[i] # <<>>
        /\ \E t \in {newest + 2} \cup If(world.late, {newest - 1}) :
             /\ t > 0 /\ t \notin used
             /\ stamp' = [stamp EXCEPT ![i][b] = t]
        /\ stored' = [stored EXCEPT ![i] = Append(@, b)]
        /\ UNCHANGED <<world, active, review, mark, current, orders, cw>>

\* run_once up to the grouping: a document found not to be a sale retires its
\* correlations, whose members are grouped again.
CorrBegin ==
    LET near == Neighbours(Seeds)
        nonSale == {i \in near : Doc(i).type \in NonSaleTypes}
        freed == UNION {Members(c) : c \in {d \in current : Members(d) \cap nonSale # {}}}
        seeds == Seeds \cup freed
        sale == {i \in (near \cup freed) \cap Visible : Doc(i).type \notin NonSaleTypes}
        groups == {g \in CorrelateCandidates(Loaded(sale), CandidatePairs(Loaded(sale), seeds)) :
                     g \cap seeds # {}}
    IN  /\ ~cw.on /\ Seeds # {}
        /\ cw' = [on |-> TRUE, groups |-> {{Version(i) : i \in g} : g \in groups},
                  nonSale |-> nonSale, mark |-> NextMark(Seeds), locked |-> mark.on]
        /\ UNCHANGED <<world, stored, stamp, active, review, mark, current, orders>>

CorrCommit ==
    /\ cw.on
    /\ current' = (current \ Retiring) \cup cw.groups
    /\ orders' \in OrdersAfter(orders, cw.groups)
    /\ mark' = cw.mark
    /\ cw' = NoRun
    /\ UNCHANGED <<world, stored, stamp, active, review>>

\* The transaction is rolled back; the service tries again at its next poll.
CorrRollback ==
    /\ cw.on
    /\ cw' = NoRun
    /\ UNCHANGED <<world, stored, stamp, active, review, mark, current, orders>>
=============================================================================
