------------------------------ MODULE OrderBook ------------------------------
(***************************************************************************)
(* The published order book: ExtractOrderBook and Parse of                 *)
(* common/matchengine.cpp with the text fields between them, and what the  *)
(* two policies compute from it: client/strategy.hpp and the mid of        *)
(* consumer/consumer.cpp.                                                  *)
(*                                                                         *)
(* The book comes as PriceTime's queues.  A field is the sequence of its   *)
(* decimal digits, left-aligned; the spaces behind them are left out, so a *)
(* blank field is <<>>.  int arithmetic wraps at IntMax.                   *)
(***************************************************************************)
EXTENDS PriceTime

CONSTANTS
    kNumLayers,    \* levels per side in a packet
    kPriceLen,     \* digits of a price field
    kQtyLen,       \* digits of a quantity field
    IntMax,        \* INT_MAX
    kSeedMid,      \* a Consumer's mid before its first book
    kPriceRange,   \* largest offset of a Consumer's price from the mid
    CertainDev     \* 0.5 / kMeanReversionBias: beyond it the side is certain

ASSUME BookAssumption ==
    /\ kNumLayers \in Nat \ {0} /\ kPriceLen \in Nat \ {0} /\ kQtyLen \in Nat \ {0}
    /\ 10^kPriceLen <= IntMax /\ kNumLayers * 10^kQtyLen <= IntMax
    /\ kSeedMid \in Nat \ {0} /\ kPriceRange \in Nat /\ CertainDev \in Nat

AsInt(n) == ((n + IntMax + 1) % (2 * (IntMax + 1))) - (IntMax + 1)

-----------------------------------------------------------------------------
(* Fields. *)

Blank == <<>>

NumDigits(value) == 1 + Cardinality({k \in 1..9 : value >= 10^k})

Digits(value) ==
    [i \in 1..NumDigits(value) |-> (value \div 10^(NumDigits(value) - i)) % 10]

PutField(width, value) ==
    IF value <= 0 \/ NumDigits(value) > width THEN Blank ELSE Digits(value)

\* from_chars reads the digits; of a blank field it leaves the 0.
GetField(field) ==
    MapThenSumSet(LAMBDA i : field[i] * 10^(Len(field) - i), DOMAIN field)

-----------------------------------------------------------------------------
(* Packets and views. *)

\* The prices of a side, best first.
Levels(side, q) ==
    SetToSortSeq({q[i].price : i \in DOMAIN q}, LAMBDA p, r : SortsBefore(side, p, r))

LevelQty(q, price) ==
    MapThenSumSet(LAMBDA i : q[i].qty, {i \in DOMAIN q : q[i].price = price})

ExtractSide(side, q) ==
    LET levels == Levels(side, q)
    IN  [i \in 1..kNumLayers |->
           IF i <= Len(levels)
           THEN [price |-> PutField(kPriceLen, levels[i]),
                 qty   |-> PutField(kQtyLen, AsInt(LevelQty(q, levels[i])))]
           ELSE [price |-> Blank, qty |-> Blank]]

ExtractOrderBook(qs) == [s \in Side |-> ExtractSide(s, qs[s])]

Parse(packet) ==
    [s \in Side |-> [i \in 1..kNumLayers |->
        [price |-> GetField(packet[s][i].price), qty |-> GetField(packet[s][i].qty)]]]

-----------------------------------------------------------------------------
(* Policies.  std::optional is a set of at most one element. *)

Cumulative(layers, i) == MapThenSumSet(LAMBDA j : layers[j].qty, 1..i)

BestSidePricePastGap(layers, q) ==
    {layers[i].price : i \in {i \in 1..kNumLayers :
        /\ layers[i].qty > 0 /\ Cumulative(layers, i) >= q
        /\ \A j \in 1..(i - 1) : Cumulative(layers, j) < q}}

BestSidePriceOffByOne(layers, q) ==
    {layers[i].price : i \in {i \in 1..kNumLayers :
        /\ \A j \in 1..i : layers[j].qty > 0
        /\ Cumulative(layers, i) > q
        /\ \A j \in 1..(i - 1) : Cumulative(layers, j) <= q}}

BestSidePrice(layers, q) ==
    IF layers[1].qty <= 0 THEN {}
    ELSE IF q <= 0 THEN {layers[1].price}
    ELSE {layers[i].price : i \in {i \in 1..kNumLayers :
            /\ \A j \in 1..i : layers[j].qty > 0
            /\ Cumulative(layers, i) >= q
            /\ \A j \in 1..(i - 1) : Cumulative(layers, j) < q}}

CalcBestPrice(view, q, n) ==
    {[kBuy |-> AsInt(b - n), kSell |-> AsInt(a + n)] :
        b \in BestSidePrice(view["kBuy"], q), a \in BestSidePrice(view["kSell"], q)}

\* Consumer::OnOrderBook.  mid2 is twice mid_.
MidAfterOneSided(mid2, view) == view["kBuy"][1].price + view["kSell"][1].price

MidAfter(mid2, view) ==
    LET has(s)   == view[s][1].qty > 0
        price(s) == view[s][1].price
    IN  IF has("kBuy") /\ has("kSell") THEN price("kBuy") + price("kSell")
        ELSE IF has("kBuy")  THEN 2 * price("kBuy")
        ELSE IF has("kSell") THEN 2 * price("kSell")
        ELSE mid2

\* The sides and the prices that a round of Consumer::TickLoop may draw.
TickSides(mid2) ==
    {s \in Side : /\ s = "kSell" => mid2 - 2 * kSeedMid > -2 * CertainDev
                  /\ s = "kBuy"  => mid2 - 2 * kSeedMid < 2 * CertainDev}

TickPrices(mid2) ==
    {IF (mid2 \div 2) + offset < 1 THEN 1 ELSE (mid2 \div 2) + offset :
        offset \in -kPriceRange..kPriceRange}

=============================================================================
