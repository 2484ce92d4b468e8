-------------------------- MODULE CorrelationEngine --------------------------
(***************************************************************************)
(* The pure part of correlation: which documents belong to one sale        *)
(* episode (correlation/engine.py).                                        *)
(*                                                                         *)
(* A document is a record: type, table, order, ref (order or transaction   *)
(* reference), code (own progressive), cref (commercial reference printed  *)
(* on a copy), suffix (fiscal progressive suffix confirmed by an RCH       *)
(* status response), job, dev, op, term, at (seconds: _document_time, what  *)
(* is printed on it, else captured), captured (seconds: when the proxy saw *)
(* it), total, complete, close (economic close or room charge), lines      *)
(* (item key -> aggregated line), paid (sum of its payments), payload      *)
(* (digest of its bytes), discount and adjust (global discount and         *)
(* adjustments).  Codes are normalised values and positive numbers, None   *)
(* if absent; amounts are whole euros, NoTotal if absent.  Ids are         *)
(* numbers, ordered as str(id).                                            *)
(***************************************************************************)
EXTENDS Integers, FiniteSets, SequencesExt

CONSTANTS
    MinimumScore,  \* minimum_score
    TimeWindow     \* time_window_seconds

ASSUME EngineAssumption == MinimumScore \in 0..100 /\ TimeWindow \in Nat \ {0}

None == 0
NoTotal == -1

KitchenWindow == 30    \* _CROSS_DEPARTMENT_, _KITCHEN_BASELINE_WINDOW_SECONDS
EpisodeWindow == 300   \* _SAME_TABLE_CHANGE_, _TABLE_SALE_WINDOW_SECONDS

SourceTypes == {"ORDER", "ORDER_CHANGE", "KITCHEN_ORDER", "PRE_BILL", "MANAGEMENT_DOCUMENT"}
FiscalTypes == {"COMMERCIAL_DOCUMENT"}
CopyTypes == {"CONFORMING_COPY", "REPRINT"}
FollowupTypes == {"COMMERCIAL_DOCUMENT", "REFUND", "PAYMENT", "CANCELLATION"}
SiblingTypes == {"COMMERCIAL_DOCUMENT", "REFUND", "PAYMENT"}
NonSaleTypes == {"SHIFT_END_REPORT", "INVOICE"}
AuxiliaryTypes == CopyTypes \cup NonSaleTypes \cup {"DEVICE_RESPONSE", "REFUND"}

\* sorted() of a set.
SortedSet(S, Less(_, _)) ==
    SortSeq(FoldSet(LAMBDA x, s : Append(s, x), <<>>, S), Less)

\* min() and max() of a set in the order Less.
FirstBy(S, Less(_, _)) == CHOOSE x \in S : \A y \in S : y = x \/ Less(x, y)
LastBy(S, Less(_, _)) == CHOOSE x \in S : \A y \in S : y = x \/ Less(y, x)

\* for x in sorted(S): result = Step(result, x)
InOrder(Step(_, _), start, S, Less(_, _)) ==
    MapThenFoldSet(LAMBDA x, result : Step(result, x), start,
                   LAMBDA x : x, LAMBDA s : LastBy(s, Less), S)

Abs(n) == IF n < 0 THEN -n ELSE n
Delta(a, b) == Abs(a.at - b.at)
Same(x, y) == x # None /\ x = y
Differ(x, y) == x # None /\ y # None /\ x # y
Keys(a) == DOMAIN a.lines
Share(a, b) == Keys(a) \cap Keys(b) # {}
OneOfEach(a, b, S, T) == a.type \in S /\ b.type \in T
CounterSuffix(code) == IF code = None THEN None ELSE code % 10

IsManagement(a) == a.type = "MANAGEMENT_DOCUMENT"
IsFiscal(a) == a.type \in FiscalTypes
IsKitchen(a) == a.type = "KITCHEN_ORDER"
IsEconomicClose(a) == IsManagement(a) /\ a.close

IsAuxiliary(a) ==
    \/ a.type \in AuxiliaryTypes
    \/ IsManagement(a) /\ a.cref # None /\ ~a.close

IsPrebillSource(a) ==
    \/ a.type = "PRE_BILL"
    \/ IsManagement(a) /\ a.complete /\ a.total # NoTotal /\ a.cref = None /\ ~a.close

Compatible(a, b) ==
    LET types == {a.type, b.type} IN
    /\ "DEVICE_RESPONSE" \notin types
    /\ IF types \cap CopyTypes # {} THEN types \cap FiscalTypes # {}
       ELSE /\ ~(types \subseteq FiscalTypes)
            /\ \/ types \subseteq SourceTypes
               \/ OneOfEach(a, b, SourceTypes, FollowupTypes)
               \/ OneOfEach(b, a, SourceTypes, FollowupTypes)

IdentityConflict(a, b) ==
    Differ(a.order, b.order) \/ Differ(a.table, b.table) \/ Differ(a.ref, b.ref)

\* A sale is closed, and a document that opens one is later.
Reopens(closing, opening) ==
    /\ IsFiscal(closing) \/ IsEconomicClose(closing)
    /\ opening.type \in {"ORDER", "KITCHEN_ORDER", "PRE_BILL"}
    /\ opening.at > closing.at

EpisodeBoundaryConflict(a, b) == Reopens(a, b) \/ Reopens(b, a)

Conflict(a, b) == IdentityConflict(a, b) \/ EpisodeBoundaryConflict(a, b)

SharedSaleIdentity(group) ==
    /\ Cardinality(group) > 1
    /\ \/ \E o \in {a.order : a \in group} \ {None} : \A a \in group : a.order = o
       \/ \E r \in {a.ref : a \in group} \ {None} : \A a \in group : a.ref = r

-----------------------------------------------------------------------------
(* The weighted score of two documents, and the protocol-specific links.   *)

Weight(w, condition) == IF condition THEN w ELSE 0

Namespace(a) ==
    CASE a.type \in {"PRE_BILL", "MANAGEMENT_DOCUMENT"} -> "MANAGEMENT"
      [] a.type \in {"COMMERCIAL_DOCUMENT", "REFUND"} -> "COMMERCIAL"
      [] OTHER -> "none"

SameProgressive(a, b) ==
    Namespace(a) # "none" /\ Namespace(a) = Namespace(b) /\ Same(a.code, b.code)

TimeWeight(a, b) ==
    IF Delta(a, b) <= 120 THEN 12
    ELSE IF Delta(a, b) <= 900 THEN 8
    ELSE Weight(4, Delta(a, b) <= TimeWindow)

AmountWeight(a, b) ==
    IF NoTotal \in {a.total, b.total} THEN 0 ELSE IF a.total = b.total THEN 8 ELSE 3

\* Twelve times the share of common items, rounded half to even.
LineWeight(a, b) ==
    LET common == Cardinality(Keys(a) \cap Keys(b))
        all == Cardinality(Keys(a) \cup Keys(b))
        up == (24 * common + all) \div (2 * all)
        tie == (24 * common + all) % (2 * all) = 0
    IN  IF Keys(a) = {} \/ Keys(b) = {} THEN 0 ELSE up - Weight(1, tie /\ up % 2 = 1)

ScorePair(a, b) ==
    LET score == Weight(35, Same(a.order, b.order)) + Weight(15, SameProgressive(a, b))
               + Weight(12, Same(a.table, b.table)) + Weight(5, Same(a.op, b.op))
               + Weight(4, Same(a.term, b.term)) + Weight(20, Same(a.ref, b.ref))
               + TimeWeight(a, b) + Weight(3, a.at \div 86400 = b.at \div 86400)
               + AmountWeight(a, b) + LineWeight(a, b) + 8 + Weight(2, a.dev = b.dev)
    IN  IF Compatible(a, b) /\ Delta(a, b) <= TimeWindow
        THEN IF score > 100 THEN 100 ELSE score
        ELSE 0

\* The fiscal document r names, exactly or by a confirmed suffix; a suffix
\* that does not hold up is not replaced by the exact reference.
CommercialReference(r, f) ==
    LET suffix == Same(CounterSuffix(r.cref), CounterSuffix(f.suffix))
        exact == Same(r.cref, f.code)
        confirmed == Same(r.table, f.table) /\ Share(r, f) /\ Delta(r, f) <= EpisodeWindow
    IN  IF /\ OneOfEach(r, f, CopyTypes \cup {"MANAGEMENT_DOCUMENT"}, FiscalTypes)
           /\ Delta(r, f) <= TimeWindow
        THEN IF suffix THEN Weight(100, confirmed) ELSE Weight(95, exact)
        ELSE 0

Follows(a, b, window) == a.at <= b.at /\ b.at <= a.at + window

\* The prebill, or the management document used as one, and its prompt close.
TableSaleSequence(s, f) ==
    Weight(100, /\ IsPrebillSource(s) /\ IsFiscal(f)
                /\ Same(s.table, f.table) /\ Share(s, f) /\ Follows(s, f, EpisodeWindow))

KitchenManagementBaseline(k, m) ==
    Weight(100, /\ IsKitchen(k) /\ IsManagement(m) /\ IsPrebillSource(m)
                /\ Same(k.table, m.table) /\ Share(k, m) /\ Follows(k, m, KitchenWindow))

SameTableChange(k, c) ==
    Weight(100, /\ IsKitchen(k) /\ c.type = "ORDER_CHANGE" /\ k.dev = c.dev
                /\ Same(k.table, c.table) /\ Share(k, c) /\ Follows(k, c, EpisodeWindow))

CrossDepartmentDispatch(a, b) ==
    Weight(85, /\ IsKitchen(a) /\ IsKitchen(b) /\ a.dev # b.dev
               /\ Same(a.table, b.table) /\ Delta(a, b) <= KitchenWindow)

FiscalSiblings(a, b) ==
    Weight(80, /\ OneOfEach(a, b, SiblingTypes, SiblingTypes) /\ Delta(a, b) <= TimeWindow
               /\ Same(a.ref, b.ref) \/ Same(a.order, b.order))

DeviceResponse(a, b) == Weight(90, Delta(a, b) <= TimeWindow /\ Same(a.job, b.job))

Else(w, v) == IF w # 0 THEN w ELSE v

\* The rules whose result takes the place of the weighted score; each of the
\* directed ones is tried both ways round.
Linked(a, b) ==
    Else(Else(CommercialReference(a, b), CommercialReference(b, a)),
    Else(Else(TableSaleSequence(a, b), TableSaleSequence(b, a)),
    Else(Else(KitchenManagementBaseline(a, b), KitchenManagementBaseline(b, a)),
    Else(FiscalSiblings(a, b),
    Else(Else(SameTableChange(a, b), SameTableChange(b, a)),
         CrossDepartmentDispatch(a, b))))))

ScoreCandidatePair(a, b) ==
    IF "DEVICE_RESPONSE" \in {a.type, b.type} THEN DeviceResponse(a, b)
    ELSE IF Conflict(a, b) THEN 0
    ELSE Else(Linked(a, b), ScorePair(a, b))

-----------------------------------------------------------------------------
(* Grouping.  D is a function from document ids to documents, P a set of   *)
(* candidate pairs {i, j}, part a function from ids to component roots.    *)

Spread(group) == {Delta(a, b) : a \in group, b \in group}

\* Mutation: only the two documents of the edge are compared.
SeededEndpointsOnly(group) == \E a, b \in group : Cardinality(group) = 2 /\ Conflict(a, b)

AnyConflict(group) == \E a, b \in group : Conflict(a, b)

\* Why two components do not become one episode.
Refused(group) ==
    LET openings == {a \in group : IsKitchen(a) \/ (IsManagement(a) /\ IsPrebillSource(a))}
    IN  \/ AnyConflict(group)
        \/ /\ \A a \in group : IsKitchen(a)
           /\ \E s \in Spread(group) : s > KitchenWindow
        \/ /\ \E a \in openings : IsKitchen(a)
           /\ \E a \in openings : IsManagement(a)
           /\ \E s \in Spread(openings) : s > KitchenWindow
           /\ ~SharedSaleIdentity(openings)

Lesser(i, j) == IF i < j THEN i ELSE j

Union(D, part, i, j) ==
    LET members == {k \in DOMAIN D : part[k] \in {part[i], part[j]}}
    IN  IF part[i] = part[j] \/ Refused({D[k] : k \in members}) THEN part
        ELSE [k \in DOMAIN D |-> IF k \in members THEN Lesser(part[i], part[j]) ELSE part[k]]

\* Edges <<score, delta, low id, high id>>, best first.
Before(e, f) ==
    \/ e[1] > f[1]
    \/ e[1] = f[1] /\ e[2] < f[2]
    \/ e[1] = f[1] /\ e[2] = f[2] /\ e[3] < f[3]
    \/ e[1] = f[1] /\ e[2] = f[2] /\ e[3] = f[3] /\ e[4] < f[4]

Edges(D, P) ==
    {e \in {<<ScoreCandidatePair(D[p[1]], D[p[2]]), Delta(D[p[1]], D[p[2]]), p[1], p[2]>> :
               p \in {q \in (DOMAIN D) \X (DOMAIN D) : q[1] < q[2] /\ {q[1], q[2]} \in P}} :
        e[1] >= MinimumScore}

CoreEdges(D, P) == {e \in Edges(D, P) : ~IsAuxiliary(D[e[3]]) /\ ~IsAuxiliary(D[e[4]])}

CorePartition(D, P) ==
    InOrder(LAMBDA part, e : Union(D, part, e[3], e[4]),
            [k \in DOMAIN D |-> k], CoreEdges(D, P), Before)

\* The targets of auxiliary document x, as edges <<score, delta, x, target>>.
AuxiliaryEdges(D, P, x) ==
    {<<e[1], e[2], x, IF e[3] = x THEN e[4] ELSE e[3]>> :
       e \in {f \in Edges(D, P) : x \in {f[3], f[4]} /\ ~(\A k \in {f[3], f[4]} : IsAuxiliary(D[k]))}}

\* Mutation: an auxiliary document joins everything it matches.
SeededEveryParent(D, P, part, x) ==
    InOrder(LAMBDA q, e : Union(D, q, x, e[4]), part, AuxiliaryEdges(D, P, x), Before)

Attach(D, P, part, x) ==
    IF AuxiliaryEdges(D, P, x) = {} THEN part
    ELSE Union(D, part, x, FirstBy(AuxiliaryEdges(D, P, x), Before)[4])

Partition(D, P) ==
    InOrder(LAMBDA part, x : Attach(D, P, part, x), CorePartition(D, P),
            {k \in DOMAIN D : IsAuxiliary(D[k])}, <)

Classes(part) == {{k \in DOMAIN part : part[k] = part[j]} : j \in DOMAIN part}

\* correlate_candidates; correlate is the case of all pairs.
CorrelateCandidates(D, P) == Classes(Partition(D, P))
AllPairs(D) == {{i, j} : i \in DOMAIN D, j \in DOMAIN D}
Correlate(D) == CorrelateCandidates(D, AllPairs(D))
=============================================================================
