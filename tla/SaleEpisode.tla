----------------------------- MODULE SaleEpisode -----------------------------
(***************************************************************************)
(* What a group of correlated documents says about the sale: totals, line  *)
(* differences and the events of its order (correlation/engine.py          *)
(* _build_transaction, correlation/worker.py _desired_events).             *)
(*                                                                         *)
(* D is the function from the ids of the group to its documents.  A line   *)
(* has a quantity qty, a unit price, a discount disc, a total and the flag *)
(* technical (a tax, total or payment row); NoTotal stands for a price or  *)
(* total that was not printed.                                             *)
(***************************************************************************)
EXTENDS CorrelationEngine

Earlier(D, i, j) == D[i].at < D[j].at \/ (D[i].at = D[j].at /\ i < j)
Timeline(D, S) == SortedSet(S, LAMBDA i, j : Earlier(D, i, j))
LastOf(D, S) == Timeline(D, S)[Cardinality(S)]
FirstOf(D, S) == Timeline(D, S)[1]
SumOf(D, S) == MapThenSumSet(LAMBDA i : D[i].total, S)

HasTotal(a) == a.total # NoTotal
IsValidFiscal(a) == IsFiscal(a) /\ a.complete /\ HasTotal(a)
ValidFiscals(D) == {i \in DOMAIN D : IsValidFiscal(D[i])}

\* The baseline the close is compared with: 0 if there is none.
Prebill(D) ==
    LET fiscals == ValidFiscals(D)
        close == D[FirstOf(D, fiscals)]
        printed == {i \in DOMAIN D : D[i].type = "PRE_BILL"
                                     /\ (fiscals = {} \/ D[i].at <= close.at)}
        implied == {i \in DOMAIN D : /\ IsPrebillSource(D[i]) /\ IsManagement(D[i])
                                     /\ D[i].at <= close.at
                                     /\ Same(D[i].table, close.table) /\ Share(D[i], close)}
    IN  IF printed # {} THEN LastOf(D, printed)
        ELSE IF fiscals # {} /\ implied # {} THEN LastOf(D, implied)
        ELSE 0

PrebillTotal(D) == IF Prebill(D) = 0 THEN NoTotal ELSE D[Prebill(D)].total

RoomClosures(D) == {i \in DOMAIN D : IsEconomicClose(D[i])}

\* Several commercial documents are one close; refunds do not lower it.
EconomicClosures(D) ==
    IF ValidFiscals(D) # {} THEN ValidFiscals(D)
    ELSE {i \in RoomClosures(D) : HasTotal(D[i])}

FiscalTotal(D) == SumOf(D, ValidFiscals(D))
ObservedFinalTotal(D) == SumOf(D, EconomicClosures(D))
Difference(D) == IF PrebillTotal(D) = NoTotal THEN 0 ELSE PrebillTotal(D) - ObservedFinalTotal(D)

\* Payments are taken from the fiscal documents, else from the payment
\* documents, else from all.
PaymentTotal(D) ==
    LET paying == {i \in DOMAIN D : D[i].paid # NoTotal}
        explicit == {i \in paying : D[i].type = "PAYMENT"}
        fiscal == paying \cap ValidFiscals(D)
        counted == IF fiscal # {} THEN fiscal ELSE IF explicit # {} THEN explicit ELSE paying
    IN  MapThenSumSet(LAMBDA i : D[i].paid, counted)

-----------------------------------------------------------------------------
(* Lines.                                                                  *)

\* _aggregate_lines of the lines of several documents, in order.
AddLines(have, more) ==
    LET Sum(x, y) == IF NoTotal \in {x, y} THEN (IF x = NoTotal THEN y ELSE x) ELSE x + y
    IN  [k \in DOMAIN have \cup DOMAIN more |->
           CASE k \notin DOMAIN have -> more[k]
             [] k \notin DOMAIN more -> have[k]
             [] OTHER -> [have[k] EXCEPT !.qty = @ + more[k].qty, !.price = more[k].price,
                                         !.total = Sum(@, more[k].total)]]

LinesOf(D, S) ==
    FoldLeft(LAMBDA have, i : AddLines(have, D[i].lines), <<>>, Timeline(D, S))

\* compare_document_lines
Compare(before, after) ==
    [k \in DOMAIN before \cup DOMAIN after |->
       IF k \notin DOMAIN before THEN "ADDED"
       ELSE IF k \notin DOMAIN after THEN "REMOVED"
       ELSE IF before[k].qty # after[k].qty THEN "QUANTITY_CHANGED"
       ELSE IF before[k].price # after[k].price THEN "PRICE_CHANGED"
       ELSE IF before[k].disc # after[k].disc THEN "DISCOUNT_CHANGED"
       ELSE "UNCHANGED"]

\* apply_order_change_lines: signed quantities; what falls to zero is gone,
\* and nothing is taken from a line that was never seen.
ApplyOrderChange(lines, delta) ==
    LET Residual(k) == IF k \notin DOMAIN lines THEN delta[k].qty
                       ELSE IF k \notin DOMAIN delta THEN lines[k].qty
                       ELSE lines[k].qty + delta[k].qty
        left == {k \in DOMAIN lines \cup DOMAIN delta : Residual(k) > 0}
    IN  [k \in left |->
           IF k \in DOMAIN lines THEN [lines[k] EXCEPT !.qty = Residual(k)] ELSE delta[k]]

LineChanges(D) ==
    LET final == LinesOf(D, EconomicClosures(D))
    IN  IF Prebill(D) = 0 \/ final = <<>> THEN <<>>
        ELSE IF D[Prebill(D)].lines = <<>> THEN <<>> ELSE Compare(D[Prebill(D)].lines, final)

-----------------------------------------------------------------------------
(* The events of the order.                                                *)

PrintEvent(type) ==
    CASE type = "PRE_BILL" -> "PRE_BILL_PRINTED"
      [] type = "COMMERCIAL_DOCUMENT" -> "FISCAL_DOCUMENT_ISSUED"
      [] type = "PAYMENT" -> "PAYMENT_RECORDED"
      [] type \in CopyTypes -> "COPY_PRINTED"
      [] type = "CANCELLATION" -> "ORDER_VOIDED"
      [] OTHER -> "none"

ChangeEvent(change, discount) ==
    CASE change = "ADDED" -> "ITEM_ADDED"
      [] change = "REMOVED" -> "ITEM_REMOVED"
      [] change = "DISCOUNT_CHANGED" /\ discount > 0 -> "DISCOUNT_APPLIED"
      [] change = "DISCOUNT_CHANGED" /\ discount <= 0 -> "DISCOUNT_REMOVED"
      [] OTHER -> change

Sources(D) == {i \in DOMAIN D : D[i].type \in SourceTypes}

\* The state a change ticket applies to: the last kitchen ticket of its
\* device and table, with the changes since.
StateBefore(D, c) ==
    LET before == {i \in DOMAIN D : Earlier(D, i, c) /\ D[i].dev = D[c].dev
                                    /\ Same(D[i].table, D[c].table)}
        tickets == {i \in before : IsKitchen(D[i])}
        since == {i \in before : D[i].type = "ORDER_CHANGE"
                                 /\ Earlier(D, LastOf(D, tickets), i)}
    IN  IF tickets = {} THEN <<>>
        ELSE FoldLeft(LAMBDA s, i : ApplyOrderChange(s, D[i].lines),
                      D[LastOf(D, tickets)].lines, Timeline(D, since))

FinalClosures(D) ==
    LET fiscals == {i \in DOMAIN D : IsFiscal(D[i]) /\ D[i].complete}
    IN  IF fiscals # {} THEN fiscals ELSE RoomClosures(D)

\* Comparisons <<lines before, lines after, document>> whose differences
\* become events.
Comparisons(D) ==
    LET others == Timeline(D, {i \in Sources(D) :
                                 ~IsKitchen(D[i]) /\ D[i].type # "ORDER_CHANGE"})
        bills == {i \in DOMAIN D : D[i].type = "PRE_BILL"}
        closures == FinalClosures(D)
    IN  {<<StateBefore(D, c), ApplyOrderChange(StateBefore(D, c), D[c].lines), c>> :
           c \in {i \in Sources(D) : D[i].type = "ORDER_CHANGE" /\ StateBefore(D, i) # <<>>}}
        \cup {<<D[others[n]].lines, D[others[n + 1]].lines, others[n + 1]>> :
                n \in 1..(Len(others) - 1)}
        \cup (IF bills = {} \/ closures = {} THEN {}
              ELSE {<<D[LastOf(D, bills)].lines, LinesOf(D, closures), LastOf(D, closures)>>})

Qty(lines, k) == IF k \in DOMAIN lines THEN lines[k].qty ELSE 0

\* Tuples <<type, document, detail>>; the detail is what identifies the event
\* besides its document version.
ChangeEvents(before, after, i) ==
    LET change == Compare(before, after) IN
    {<<ChangeEvent(change[k], IF k \in DOMAIN after THEN after[k].disc ELSE 0), i,
       <<k, Qty(before, k), Qty(after, k)>> >> :
       k \in {j \in DOMAIN change : change[j] # "UNCHANGED"}}

DesiredEvents(D) ==
    LET openings == {i \in Sources(D) : D[i].type # "ORDER_CHANGE"}
        printed == {i \in DOMAIN D : PrintEvent(D[i].type) # "none"}
        paying == {i \in DOMAIN D : D[i].paid # NoTotal /\ D[i].type # "PAYMENT"}
    IN  {<<"ORDER_CREATED", i, <<>> >> : i \in {j \in openings : j = FirstOf(D, openings)}}
        \cup {<<PrintEvent(D[i].type), i, <<>> >> : i \in printed}
        \cup {<<"PAYMENT_RECORDED", i, <<D[i].paid>> >> : i \in paying}
        \cup UNION {ChangeEvents(c[1], c[2], c[3]) : c \in Comparisons(D)}
        \cup {<<"ORDER_CLOSED", i, <<FiscalTotal(D), ObservedFinalTotal(D)>> >> :
                i \in {j \in FinalClosures(D) : j = LastOf(D, FinalClosures(D))}}

OrderStatus(D) ==
    IF (\E i \in DOMAIN D : IsFiscal(D[i])) \/ RoomClosures(D) # {} THEN "CLOSED"
    ELSE IF \E i \in DOMAIN D : D[i].type = "CANCELLATION" THEN "VOIDED"
    ELSE "OPEN"
=============================================================================
