----------------------------- MODULE MCAnalysis -----------------------------
(***************************************************************************)
(* Small sales: what is printed, and what may happen to it.  Every         *)
(* scenario bounds the steps that are not part of the workers' loops.      *)
(***************************************************************************)
EXTENDS Analysis

Line(q, p) == [qty |-> q, price |-> p, disc |-> 0, total |-> q * p, technical |-> FALSE]
Items(S) == [k \in S |-> Line(1, 10)]

\* A document of its own job at table 1, with the items S at 10 euros each.
Paper(type, job, at, S) ==
    [type |-> type, table |-> 1, order |-> None, ref |-> None, code |-> None, cref |-> None,
     suffix |-> None, job |-> job, dev |-> 1, op |-> None, term |-> None, at |-> at, captured |-> at,
     total |-> 10 * Cardinality(S), complete |-> TRUE, close |-> FALSE, lines |-> Items(S),
     paid |-> NoTotal, payload |-> job, discount |-> NoTotal, adjust |-> NoTotal]

Nothing == [reviews |-> 0, updates |-> 0, activations |-> 0, toggles |-> 0, waits |-> 0,
            faults |-> 0]
Scenario(docs, bounds) ==
    [docs |-> docs, incomplete |-> {}, whitelist |-> {}, switched |-> {Primary},
     late |-> FALSE, bounds |-> bounds]

Kitchen(job, at, S) == [Paper("KITCHEN_ORDER", job, at, S) EXCEPT !.total = NoTotal]
Bill(job, at, S) == Paper("PRE_BILL", job, at, S)
Fiscal(job, at, S, code) == [Paper("COMMERCIAL_DOCUMENT", job, at, S) EXCEPT !.code = code,
                                                       !.paid = 10 * Cardinality(S)]

\* The same at one euro an item.
Cheap(a) == [a EXCEPT !.lines = [k \in DOMAIN @ |-> Line(1, 1)], !.total = Cardinality(Keys(a)),
                      !.paid = IF @ = NoTotal THEN @ ELSE Cardinality(Keys(a))]

\* The receipt falls short of the bill by just the two thresholds, a euro and the percentage;
\* a person decides on the alert, the rule is switched off and on, a run fails.
Loss == Scenario(<< <<Cheap(Bill(1, 100, 1..5))>>, <<Cheap(Fiscal(2, 200, 1..4, 7))>> >>,
                 [Nothing EXCEPT !.updates = 1, !.toggles = 2, !.faults = 1])

\* The bill is an incomplete capture: verified, excluded, verified again.
Review == [Scenario(<< <<Bill(1, 100, {1, 2})>>, <<Fiscal(2, 200, {1}, 7)>> >>,
                    [Nothing EXCEPT !.reviews = 2, !.updates = 1])
              EXCEPT !.incomplete = {1}]

\* A second build finds that the bill is no sale; it may be activated.
Rebuild == Scenario(<< <<Bill(1, 100, {1, 2}), [Bill(1, 100, {1, 2}) EXCEPT !.type = "INVOICE"]>>,
                       <<Fiscal(2, 200, {1}, 7)>> >>,
                    [Nothing EXCEPT !.activations = 1])

\* Reviews of an incomplete capture while a build is activated.
Operators == [Scenario(<< <<Bill(1, 100, {1})>> >>,
                       [Nothing EXCEPT !.reviews = 2, !.activations = 1, !.waits = 1])
                 EXCEPT !.incomplete = {1}]

\* Two sales at one table, then the kitchen again: the receipt is a boundary.
Boundary == Scenario(<< <<Kitchen(1, 100, {1})>>, <<Fiscal(2, 150, {1}, 7)>>,
                        <<[Bill(3, 120, {1}) EXCEPT !.order = 5]>>,
                        <<[Kitchen(4, 200, {1}) EXCEPT !.order = 5]>> >>, Nothing)

\* A copy names one receipt and has the suffix of another; findings about the
\* first are whitelisted.
Copy == [Scenario(<< <<Fiscal(1, 100, {1}, 17)>>, <<[Fiscal(2, 200, {1}, 27) EXCEPT !.suffix = 7]>>,
                    <<[Paper("CONFORMING_COPY", 3, 220, {1}) EXCEPT !.cref = 17]>> >>, Nothing)
            EXCEPT !.late = TRUE,
                   !.whitelist = {[rule |-> "any", scope |-> "REFERENCE", value |-> 17]}]

\* The clock of the printers is wrong: by the whole window on the bill, by a second more on
\* the receipt, which is near only when the two are taken together.
Clock == Scenario(<< <<[Bill(1, 101, {1, 2}) EXCEPT !.captured = 7301]>>,
                     <<[Fiscal(2, 100, {1}, 7) EXCEPT !.captured = 7301]>> >>,
                  [Nothing EXCEPT !.faults = 1])

\* The kitchen ticket, the management document and the receipt of one table.
Chain == Scenario(<< <<Kitchen(1, 100, {1, 2})>>,
                     <<Paper("MANAGEMENT_DOCUMENT", 2, 120, {1, 2})>>,
                     <<Fiscal(3, 200, {1}, 7)>> >>, Nothing)

MCSafe == {Loss, Review, Rebuild, Operators, Boundary, Copy, Clock}
MCChain == {Chain}
MCClock == {Clock}
MCReview == {Review}
=============================================================================
