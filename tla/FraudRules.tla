----------------------------- MODULE FraudRules -----------------------------
(***************************************************************************)
(* The deterministic fraud rules (fraud/engine.py).  A rule is an operator *)
(* that returns its evidence about one sale: D its documents, E the stored *)
(* events of those documents (records [order, doc, ver, type, detail]), C  *)
(* the comparison documents, which include those of D.  No evidence, no    *)
(* finding.                                                                *)
(***************************************************************************)
EXTENDS SaleEpisode

CONSTANTS
    MinimumPercent,       \* minimum_percent of the loss rules
    MinimumCount,         \* minimum_count of EXCESSIVE_VOID_OR_CANCELLATION
    MaximumCopies,        \* maximum_count of REPRINT_OR_COPY_ANOMALY
    MinimumTransactions   \* minimum_transactions of UNUSUAL_OPERATOR_PATTERN

ASSUME RulesAssumption ==
    /\ MinimumPercent \in 0..100 /\ MinimumCount \in Nat \ {0}
    /\ MaximumCopies \in Nat /\ MinimumTransactions \in Nat \ {0}

Primary == "MODIFICA_POST_PRECONTO"
Secondary == {"PREBILL_FISCAL_AMOUNT_DROP", "ITEM_REMOVED_AFTER_PREBILL",
              "PRICE_REDUCED_AFTER_PREBILL", "EXTREME_PRICE_CHANGE",
              "SAME_REFERENCE_DIFFERENT_AMOUNT"}
Rules == {Primary} \cup Secondary
         \cup {"ORDER_WITHOUT_FISCAL_CLOSE", "FISCAL_WITHOUT_SOURCE_ORDER",
               "EXCESSIVE_VOID_OR_CANCELLATION", "REPRINT_OR_COPY_ANOMALY",
               "DOCUMENT_SEQUENCE_GAP", "DUPLICATE_DOCUMENT", "LATE_ORDER_MODIFICATION",
               "NEGATIVE_OR_ZERO_VALUE_ITEM", "TOTAL_LINE_MISMATCH",
               "PAYMENT_TOTAL_MISMATCH", "UNUSUAL_OPERATOR_PATTERN"}

Unreadable == -2  \* adjustments that cannot be added up
LateWindow == 300

If(condition, evidence) == IF condition THEN evidence ELSE {}
OfType(D, T) == {i \in DOMAIN D : D[i].type \in T}
SettledRooms(D) == {i \in RoomClosures(D) : HasTotal(D[i])}

\* difference / total in ten-thousandths of a percent, half to even.
Percent(difference, total) ==
    LET q == (2000000 * difference + total) \div (2 * total)
        tie == (2000000 * difference + total) % (2 * total) = 0
    IN  q - Weight(1, tie /\ q % 2 = 1)

\* Mutation: the threshold itself is not reached.
SeededStrictThreshold(D) ==
    /\ PrebillTotal(D) > 0
    /\ Difference(D) >= 1
    /\ Percent(Difference(D), PrebillTotal(D)) > 10000 * MinimumPercent

Material(D) ==
    /\ PrebillTotal(D) > 0
    /\ Difference(D) >= 1
    /\ Percent(Difference(D), PrebillTotal(D)) >= 10000 * MinimumPercent

Amounts(D) == <<PrebillTotal(D), ObservedFinalTotal(D), FiscalTotal(D)>>

-----------------------------------------------------------------------------
(* What became of the bill.                                                *)

\* A cancelled attempt and a room charge are outcomes too.
PostPrebillChange(D) ==
    LET closures == ValidFiscals(D) \cup OfType(D, {"CANCELLATION"}) \cup SettledRooms(D)
    IN  If(closures # {} /\ Material(D), {Amounts(D)})

PrebillAmountDrop(D) == If(ValidFiscals(D) # {} /\ Material(D), {Amounts(D)})

ItemRemoved(D) == {k \in DOMAIN LineChanges(D) : LineChanges(D)[k] = "REMOVED"}

\* The items still on the bill at a lower price.
PriceReduced(D) ==
    LET before == D[Prebill(D)].lines
        after == LinesOf(D, EconomicClosures(D))
    IN  {k \in DOMAIN LineChanges(D) :
           /\ LineChanges(D)[k] \notin {"ADDED", "REMOVED"}
           /\ before[k].price # NoTotal /\ after[k].price # NoTotal
           /\ after[k].price < before[k].price}

ExtremePriceChange(D) ==
    LET before == D[Prebill(D)].lines
        after == LinesOf(D, EconomicClosures(D))
    IN  {k \in PriceReduced(D) :
           /\ before[k].price > 0
           /\ Percent(before[k].price - after[k].price, before[k].price) >= 700000}

SameReferenceDifferentAmount(D) ==
    LET References(i) == {D[i].order, D[i].code, D[i].ref} \ {None}
    IN  If(/\ \E i, j \in DOMAIN D : i # j /\ References(i) \cap References(j) # {}
           /\ PrebillTotal(D) # NoTotal /\ ValidFiscals(D) # {}
           /\ Abs(Difference(D)) >= 1, {Amounts(D)})

\* due: the documents whose close_minutes have passed.
OrderWithoutFiscalClose(D, due) ==
    LET openings == OfType(D, {"ORDER", "PRE_BILL"})
    IN  If(/\ openings # {} /\ ValidFiscals(D) \cup SettledRooms(D) = {}
           /\ LastOf(D, openings) \in due, openings)

FiscalWithoutSourceOrder(D) == If(Sources(D) = {}, OfType(D, FiscalTypes))

PaymentTotalMismatch(D) ==
    If(/\ \E i \in DOMAIN D : D[i].paid # NoTotal
       /\ OfType(D, FiscalTypes) # {}
       /\ FiscalTotal(D) # PaymentTotal(D), {<<FiscalTotal(D), PaymentTotal(D)>>})

-----------------------------------------------------------------------------
(* What happened to the order, and to single documents.                    *)

\* A cancellation and the event of it count once; removals one by one.
ExcessiveVoid(D, E) ==
    LET cancellations == OfType(D, {"CANCELLATION", "REFUND"})
        removals == {e \in E : e.type = "ITEM_REMOVED" /\ e.doc \notin cancellations}
        voids == {e \in E : e.type = "ORDER_VOIDED"}
        voided == {e.doc : e \in voids}
        count == Cardinality(removals) + Cardinality(voided \cup cancellations)
    IN  If(count >= MinimumCount, {<<count, removals \cup voids>>})

ReprintAnomaly(D) ==
    If(Cardinality(OfType(D, CopyTypes)) > MaximumCopies, OfType(D, CopyTypes))

LateModification(D, E) ==
    LET closed == D[FirstOf(D, ValidFiscals(D))].at
        outputs == OfType(D, FiscalTypes \cup CopyTypes
                             \cup {"MANAGEMENT_DOCUMENT", "DEVICE_RESPONSE"})
        changes == {"ITEM_ADDED", "ITEM_REMOVED", "QUANTITY_CHANGED", "PRICE_CHANGED",
                    "DISCOUNT_APPLIED", "DISCOUNT_REMOVED"}
    IN  If(ValidFiscals(D) # {},
           {e \in E : /\ e.type \in changes /\ e.doc \notin outputs
                      /\ closed < D[e.doc].at /\ D[e.doc].at <= closed + LateWindow})

NonPositiveItem(D) ==
    LET Values(line) == {line.price, line.total} \ {NoTotal}
        priced == OfType(D, {"ORDER", "PRE_BILL", "MANAGEMENT_DOCUMENT", "COMMERCIAL_DOCUMENT"})
    IN  {x \in priced \X UNION {Keys(D[i]) : i \in priced} :
           /\ x[2] \in Keys(D[x[1]])
           /\ \E v \in Values(D[x[1]].lines[x[2]]) : v <= 0
           /\ D[x[1]].lines[x[2]].technical
                => \E v \in Values(D[x[1]].lines[x[2]]) : v < 0}

TotalLineMismatch(D) ==
    LET checked == DOMAIN D \ OfType(D, CopyTypes \cup {"ORDER_CHANGE", "KITCHEN_ORDER",
                                          "CANCELLATION", "REFUND", "DEVICE_RESPONSE"})
        LineSum(a) == MapThenSumSet(LAMBDA k : a.lines[k].total, Keys(a))
        Known(x) == IF x = NoTotal THEN 0 ELSE x
        Expected(a) == {LineSum(a) - d + j : d \in {0, Known(a.discount)},
                                             j \in {0, Known(a.adjust)}}
    IN  {i \in checked : /\ D[i].complete /\ HasTotal(D[i]) /\ Keys(D[i]) # {}
                         /\ \A k \in Keys(D[i]) : D[i].lines[k].total # NoTotal
                         /\ D[i].adjust # Unreadable
                         /\ D[i].total \notin Expected(D[i])}

-----------------------------------------------------------------------------
(* Series of documents that cross sales: reported once, by the sale that   *)
(* holds the first document involved.                                      *)

Series(a) == <<a.dev, a.type, a.at \div 86400>>
Comparable(D, C) == {i \in DOMAIN C : \E j \in DOMAIN D : Series(C[i]) = Series(D[j])}
Anchored(D, involved) == involved # {} /\ \E i \in DOMAIN D : \A j \in involved : i \in involved /\ i <= j

SequenceGap(D, C) ==
    LET coded == {i \in Comparable(D, C) : C[i].code # None}
        Precedes(i, j) == C[i].code < C[j].code \/ (C[i].code = C[j].code /\ Earlier(C, i, j))
        gaps == {g \in coded \X coded :
                   /\ Series(C[g[1]]) = Series(C[g[2]]) /\ C[g[2]].code > C[g[1]].code + 1
                   /\ g[1] \in DOMAIN D \/ g[2] \in DOMAIN D
                   /\ ~\E k \in coded : /\ Series(C[k]) = Series(C[g[1]])
                                        /\ Precedes(g[1], k) /\ Precedes(k, g[2])}
    IN  If(Anchored(D, UNION {{g[1], g[2]} : g \in gaps}), gaps)

DuplicateDocument(D, C) ==
    LET Identity(a) == IF a.code # None THEN <<"CODE", a.code>> ELSE <<"HASH", a.payload>>
        Kin(i) == {j \in Comparable(D, C) : Series(C[j]) = Series(C[i])
                                            /\ Identity(C[j]) = Identity(C[i])}
        exempt == {i \in Comparable(D, C) : \/ C[i].type \in CopyTypes \cup {"DEVICE_RESPONSE"}
                                            \/ IsManagement(C[i]) /\ C[i].cref # None}
        groups == {G \in {Kin(i) : i \in DOMAIN D} :
                     /\ Cardinality({C[j].job : j \in G}) > 1
                     /\ FirstOf(C, G) \notin exempt}
    IN  If(Anchored(D, UNION groups), groups)

\* S: the number of transactions of the operator, of those with an alert, of
\* its cancellations.  The rate threshold is three in ten.
OperatorPattern(S) ==
    If(S.transactions >= MinimumTransactions /\ 10 * S.anomalous >= 3 * S.transactions, {S})

-----------------------------------------------------------------------------
Evidence(rule, D, E, C, S, due) ==
    CASE rule = Primary -> PostPrebillChange(D)
      [] rule = "PREBILL_FISCAL_AMOUNT_DROP" -> PrebillAmountDrop(D)
      [] rule = "ITEM_REMOVED_AFTER_PREBILL" -> ItemRemoved(D)
      [] rule = "PRICE_REDUCED_AFTER_PREBILL" -> PriceReduced(D)
      [] rule = "EXTREME_PRICE_CHANGE" -> ExtremePriceChange(D)
      [] rule = "SAME_REFERENCE_DIFFERENT_AMOUNT" -> SameReferenceDifferentAmount(D)
      [] rule = "ORDER_WITHOUT_FISCAL_CLOSE" -> OrderWithoutFiscalClose(D, due)
      [] rule = "FISCAL_WITHOUT_SOURCE_ORDER" -> FiscalWithoutSourceOrder(D)
      [] rule = "EXCESSIVE_VOID_OR_CANCELLATION" -> ExcessiveVoid(D, E)
      [] rule = "REPRINT_OR_COPY_ANOMALY" -> ReprintAnomaly(D)
      [] rule = "DOCUMENT_SEQUENCE_GAP" -> SequenceGap(D, C)
      [] rule = "DUPLICATE_DOCUMENT" -> DuplicateDocument(D, C)
      [] rule = "LATE_ORDER_MODIFICATION" -> LateModification(D, E)
      [] rule = "NEGATIVE_OR_ZERO_VALUE_ITEM" -> NonPositiveItem(D)
      [] rule = "TOTAL_LINE_MISMATCH" -> TotalLineMismatch(D)
      [] rule = "PAYMENT_TOTAL_MISMATCH" -> PaymentTotalMismatch(D)
      [] rule = "UNUSUAL_OPERATOR_PATTERN" -> OperatorPattern(S)

\* With the primary rule on, its symptoms are not incidents of their own.
Applicable(D, enabled) ==
    IF \A i \in DOMAIN D : D[i].type \in NonSaleTypes THEN {}
    ELSE IF Primary \in enabled /\ PrebillTotal(D) # NoTotal THEN enabled \ Secondary
    ELSE enabled

Findings(D, E, C, S, enabled, due) ==
    {<<r, Evidence(r, D, E, C, S, due)>> :
       r \in {q \in Applicable(D, enabled) : Evidence(q, D, E, C, S, due) # {}}}

\* A whitelist entry [rule, scope, value]; rule "any" stands for no rule.
WhitelistMatches(entry, rule, D) ==
    /\ entry.rule \in {rule, "any"}
    /\ CASE entry.scope = "GLOBAL" -> TRUE
         [] entry.scope = "TRANSACTION" -> entry.value = DOMAIN D
         [] entry.scope = "DEVICE" -> \E i \in DOMAIN D : D[i].dev = entry.value
         [] entry.scope = "OPERATOR" -> \E i \in DOMAIN D : Same(D[i].op, entry.value)
         [] entry.scope = "DOCUMENT" -> entry.value \in DOMAIN D
         [] entry.scope = "REFERENCE" ->
              \E i \in DOMAIN D : Same(D[i].order, entry.value) \/ Same(D[i].code, entry.value)
=============================================================================
