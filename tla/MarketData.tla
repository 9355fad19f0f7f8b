----------------------------- MODULE MarketData -----------------------------
(***************************************************************************)
(* The engine's book as the market sees it: orders arrive, EngineLoop      *)
(* extracts a snapshot of every changed book, and a Consumer reads the     *)
(* snapshots it gets (some are replaced before it gets them).  What a      *)
(* Client with given Q and N would quote is computed in the properties.    *)
(***************************************************************************)
EXTENDS OrderBook

CONSTANTS
    kSeedClientId, SeedBids, SeedAsks, kSeedQty,   \* InitBook
    Sender,        \* client id of the arriving orders
    Prices, Qtys,  \* prices and quantities that arrive
    MaxResting,    \* bound: no new order comes in when this many rest
    Qs, Ns         \* command-line arguments of Clients

VARIABLES queue, latest_book, mid2

vars == <<queue, latest_book, mid2>>

Init ==
    /\ queue = [kBuy  |-> InitBook("kBuy", SeedBids, kSeedClientId, kSeedQty),
                kSell |-> InitBook("kSell", SeedAsks, kSeedClientId, kSeedQty)]
    /\ latest_book = ExtractOrderBook(queue)
    /\ mid2 = 2 * kSeedMid

EngineLoop(side, price, qty) ==
    /\ qty > 0 => Len(queue["kBuy"]) + Len(queue["kSell"]) < MaxResting
    /\ LET r == Outcome(queue, [client_id |-> Sender, side |-> side, price |-> price,
                                qty |-> qty, seq |-> 0])
       IN  /\ queue' = r.queue
           /\ latest_book' = IF r.dirty THEN ExtractOrderBook(r.queue) ELSE latest_book
    /\ UNCHANGED mid2

\* MdReader and Consumer::OnOrderBook.
MdReader ==
    /\ mid2' = MidAfter(mid2, Parse(latest_book))
    /\ UNCHANGED <<queue, latest_book>>

Next ==
    \/ \E side \in Side, price \in Prices, qty \in Qtys : EngineLoop(side, price, qty)
    \/ MdReader

Spec == Init /\ [][Next]_vars

-----------------------------------------------------------------------------
(* Which part of the book the text fields can show. *)

Shown(s) == {i \in 1..kNumLayers : i <= Len(Levels(s, queue[s]))}

\* A price as it comes out of the packet.
ReadAs(price) == IF price < 10^kPriceLen THEN price ELSE 0

PricesFit == \A s \in Side : \A i \in Shown(s) : Levels(s, queue[s])[i] < 10^kPriceLen

QtyAt(s, i) == LevelQty(queue[s], Levels(s, queue[s])[i])

TotalsFitInt == \A s \in Side : \A i \in Shown(s) : QtyAt(s, i) <= IntMax

\* Quantity resting in q with priority over q[i].
Ahead(q, i) == MapThenSumSet(LAMBDA j : q[j].qty, 1..(i - 1))

\* The price of the order that holds the q-th lot of a side, best first, and
\* the number of its level.
LotPrice(s, q) ==
    LET lot == IF q < 1 THEN 1 ELSE q
    IN  {queue[s][i].price : i \in {i \in DOMAIN queue[s] :
            Ahead(queue[s], i) < lot /\ lot <= Ahead(queue[s], i) + queue[s][i].qty}}

ReachableInView(s, q) ==
    \E i \in Shown(s) : /\ Levels(s, queue[s])[i] \in LotPrice(s, q)
                        /\ \A j \in 1..i : QtyAt(s, j) < 10^kQtyLen

-----------------------------------------------------------------------------
(***************************************************************************)
(* What a Client quotes is N ticks behind the price of the Q-th lot of the *)
(* engine's book: text layers, blank fields and a sum per level lie        *)
(* between them.  The one exception is a price that is too wide for its    *)
(* field, which is read as 0.  A target that overflows int is not          *)
(* positive, and Reconcile ignores it.                                     *)
(***************************************************************************)
TargetIsQthLot ==
    TotalsFitInt => \A q \in Qs, n \in Ns :
        \A t \in CalcBestPrice(Parse(latest_book), q, n) :
            \E b \in LotPrice("kBuy", q), a \in LotPrice("kSell", q) :
                /\ t["kBuy"] = ReadAs(b) - n
                /\ IF ReadAs(a) + n <= IntMax THEN t["kSell"] = ReadAs(a) + n
                                              ELSE t["kSell"] <= 0

(***************************************************************************)
(* A Client finds its target whenever the Q-th lot of both sides is within *)
(* the layers of the packet and no quantity up to it is wider than its     *)
(* field.                                                                  *)
(***************************************************************************)
TargetFound ==
    TotalsFitInt => \A q \in Qs, n \in Ns :
        (\A s \in Side : ReachableInView(s, q)) =>
            CalcBestPrice(Parse(latest_book), q, n) # {}

(***************************************************************************)
(* A Consumer that reads the book gets a mid strictly inside the spread,   *)
(* or the best price of the only side there is, when the best levels fit   *)
(* their fields.                                                           *)
(***************************************************************************)
MidInsideSpread ==
    LET best(s) == Levels(s, queue[s])[1]
        fits(s) == queue[s] # <<>> => QtyAt(s, 1) < 10^kQtyLen
        m       == MidAfter(mid2, Parse(latest_book))
    IN  PricesFit /\ (\A s \in Side : fits(s)) =>
          /\ queue["kBuy"] # <<>> /\ queue["kSell"] # <<>> =>
               2 * best("kBuy") < m /\ m < 2 * best("kSell")
          /\ \A s \in Side : queue[s] # <<>> /\ queue[OppSide(s)] = <<>> => m = 2 * best(s)

=============================================================================
