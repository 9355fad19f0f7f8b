-------------------------- MODULE MCMatchingEngine --------------------------
(***************************************************************************)
(* Small instances of MatchingEngine, and the refinement mapping under     *)
(* which it implements PriceTimeMarket.                                    *)
(***************************************************************************)
EXTENDS MatchingEngine

\* Arriving quantities: invalid, cancel, one lot, more than one lot.
MCQtys == {-1, 0, 1, 3}

\* The highest price that an order may carry.
TopPrice == Max(Prices \cup {0})

\* A FIFO with its price on each of the orders.
Tagged(fifo, p) ==
    [i \in DOMAIN fifo |-> [client_id |-> fifo[i].client_id, price |-> p,
                            qty |-> fifo[i].qty, seq |-> fifo[i].seq]]

\* The prices of a side, best first.
PriceAt(side, k) == IF side = "kBuy" THEN TopPrice + 1 - k ELSE k

\* A price-sorted map of FIFOs read as one sequence in priority order.
Flatten(side, m) ==
    FlattenSeq([k \in 1..TopPrice |-> Tagged(Fifo(m, PriceAt(side, k)), PriceAt(side, k))])

\* The abstract order executes when the call returns.
Market == INSTANCE PriceTimeMarket WITH
    queue <- [s \in Side |-> Flatten(s, IF phase = "run" THEN before[s] ELSE book[s])],
    busy  <- phase = "run",
    out   <- IF phase = "run" THEN <<>> ELSE out,
    dirty <- IF phase = "run" THEN FALSE ELSE dirty

(***************************************************************************)
(* The loops of PushOrder implement price-time priority: each call returns *)
(* and leaves exactly the book, the results in the order, and the dirty    *)
(* flag that PriceTimeMarket prescribes.                                   *)
(***************************************************************************)
ImplementsMarket == Market!FairSpec

=============================================================================
