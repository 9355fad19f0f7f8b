------------------------------ MODULE PriceTime ------------------------------
(***************************************************************************)
(* What MatchingEngine::PushOrder computes, without its maps and loops:    *)
(* price-time priority.  Each side is ONE sequence of resting orders, best *)
(* price first and oldest first within a price.  An incoming order trades  *)
(* with them in this order, as long as the prices cross and something is   *)
(* left of it.  Outcome(qs, o) is the book, the results and the dirty flag *)
(* that order o leaves when it meets the queues qs.                        *)
(***************************************************************************)
EXTENDS Protocol, Sequences, FiniteSets, FiniteSetsExt, SequencesExt

OneIf(b, x) == IF b THEN <<x>> ELSE <<>>

-----------------------------------------------------------------------------
(* Trading an order o against the opposite sequence q. *)

\* Quantity that o trades with the first n orders of q.
TradedUpTo(q, o, n) ==
    LET total[i \in 0..Len(q)] ==
          IF i = 0 THEN 0
          ELSE IF IsCross(o.side, o.price, q[i].price)
          THEN MinOf(total[i - 1] + q[i].qty, o.qty)
          ELSE total[i - 1]
    IN  total[n]

TotalTraded(q, o) == TradedUpTo(q, o, Len(q))

\* Quantity that o trades with q[i].
Traded(q, o, i) == TradedUpTo(q, o, i) - TradedUpTo(q, o, i - 1)

AfterTrade(q, o) ==
    FlattenSeq([i \in DOMAIN q |->
        OneIf(Traded(q, o, i) < q[i].qty, [q[i] EXCEPT !.qty = @ - Traded(q, o, i)])])

\* Taker and maker are told of each trade, in priority order.
TakerReport(q, o, i) ==
    Result(o.client_id, "kSuccess", o.side, q[i].price, Traded(q, o, i), o.seq)

MakerReport(q, o, i) ==
    Result(q[i].client_id, "kSuccess", OppSide(o.side), q[i].price, Traded(q, o, i), q[i].seq)

TradeReports(q, o) ==
    FlattenSeq([i \in DOMAIN q |->
        IF Traded(q, o, i) > 0 THEN <<TakerReport(q, o, i), MakerReport(q, o, i)>> ELSE <<>>])

\* Place r behind every order of equal or better price.
Enqueue(q, side, r) ==
    LET worse == {i \in DOMAIN q : SortsBefore(side, r.price, q[i].price)}
    IN  InsertAt(q, IF worse = {} THEN Len(q) + 1 ELSE Min(worse), r)

\* Server::InitBook: one seed order per price of the side, best price first.
NthBest(side, prices, n) ==
    CHOOSE p \in prices : Cardinality({x \in prices : SortsBefore(side, x, p)}) = n - 1

InitBook(side, prices, id, qty) ==
    [i \in 1..Cardinality(prices) |->
        [client_id |-> id, price |-> NthBest(side, prices, i), qty |-> qty, seq |-> 0]]

-----------------------------------------------------------------------------
(* The outcome of PushOrder for order o on queues qs. *)

Report(o, type, n) == Result(o.client_id, type, o.side, o.price, n, o.seq)

CancelOutcome(qs, o) ==
    LET i == SelectInSeq(qs[o.side],
                         LAMBDA r : r.client_id = o.client_id /\ r.price = o.price)
    IN  IF i = 0
        THEN [queue |-> qs, out |-> <<Report(o, "kReject", 0)>>, dirty |-> FALSE]
        ELSE [queue |-> [qs EXCEPT ![o.side] = RemoveAt(@, i)],
              out |-> <<Report(o, "kCancelled", 0)>>, dirty |-> TRUE]

TradeOutcome(qs, o) ==
    LET opp    == OppSide(o.side)
        left   == o.qty - TotalTraded(qs[opp], o)
        traded == [qs EXCEPT ![opp] = AfterTrade(@, o)]
        rest   == [client_id |-> o.client_id, price |-> o.price, qty |-> left,
                   seq |-> o.seq]
    IN  IF left = 0
        THEN [queue |-> traded, out |-> TradeReports(qs[opp], o), dirty |-> TRUE]
        ELSE [queue |-> [traded EXCEPT ![o.side] = Enqueue(@, o.side, rest)],
              out |-> Append(TradeReports(qs[opp], o), Report(o, "kAccepted", left)),
              dirty |-> TRUE]

Outcome(qs, o) ==
    CASE o.qty = 0                 -> CancelOutcome(qs, o)
      [] o.qty < 0 \/ (o.qty > 0 /\ o.price <= 0) ->
           [queue |-> qs, out |-> <<Report(o, "kReject", 0)>>, dirty |-> FALSE]
      [] OTHER                     -> TradeOutcome(qs, o)

=============================================================================
