--------------------------- MODULE TradingProofs ---------------------------
(***************************************************************************)
(* Machine-checked proof that TradingSystem implements SideProtocol, for   *)
(* any processes, targets, quantities and books: whatever the threads and  *)
(* the other processes do, each side of a connected process sees a step of *)
(* its protocol or nothing.  What SideProtocolProofs shows of a line holds *)
(* of every line of the system.                                            *)
(***************************************************************************)
EXTENDS TradingSystem, SequenceLemmas, FiniteSetTheorems

P == INSTANCE SideProtocolProofs WITH
    side <- [l \in Lines |-> l[2]], Quantities <- [l \in Lines |-> OrderQty(l[1])],
    st <- LineState, orders <- LineOrders, resting <- LineResting, results <- LineResults

-----------------------------------------------------------------------------
(* What the variables hold. *)

Ids == Clients \cup {kSeedClientId}

\* The seed orders rest at what NthBest chooses.
Prices == Int \cup {NthBest("kBuy", SeedBids, i) : i \in 1..Cardinality(SeedBids)}
              \cup {NthBest("kSell", SeedAsks, i) : i \in 1..Cardinality(SeedAsks)}

\* Reconcile sends new orders at positive targets only.
OrderPack == {p \in [side : Side, price : Int, qty : Nat, seq : Int] : p.qty > 0 => p.price > 0}

\* An item of inbound_.
Item == [client_id : Clients, order : OrderPack]

\* A result as it is written to a process.
ResultPack == [type : ResultType, side : Side, price : Prices, qty : Nat, seq : Int]

\* A result as the engine makes it.
OutRec == [client_id : Ids, type : ResultType, side : Side, price : Prices, qty : Nat, seq : Int]

\* An order on the book.
RestRec == [client_id : Ids, price : Prices, qty : Nat \ {0}, seq : Int]

\* What of it the line sees.
BookRec == [price : Prices, qty : Nat]

\* An order as the line sees it.
SentRec == [side : Side, price : Int, qty : Nat]

\* A result as the line sees it.
TypeRec == [type : ResultType, qty : Nat]

-----------------------------------------------------------------------------
(* The views of a line, each as a function of one element. *)

\* What each view makes of one element.
QueuedOf(c) == [x \in Item |-> OneIf(x.client_id = c, x.order)]

PacketsOf(c) == [x \in OutRec |-> OneIf(x.client_id = c, Packet(x))]

RestingOf(c) == [x \in RestRec |-> OneIf(x.client_id = c, [price |-> x.price, qty |-> x.qty])]

OrdersOf(s) == [x \in OrderPack |-> OneIf(x.side = s, Order(s, x.price, x.qty))]

ResultsOf(s) == [x \in ResultPack |-> OneIf(x.side = s, [type |-> x.type, qty |-> x.qty])]

(***************************************************************************)
(* OneIf is a sequence of at most one element.                             *)
(***************************************************************************)
LEMMA OneIfSeq ==
    ASSUME NEW T, NEW b \in BOOLEAN, NEW x, b => x \in T
    PROVE  OneIf(b, x) \in Seq(T)
BY DEF OneIf

\* OneIf is empty exactly when its condition fails.
LEMMA OneIfEmpty ==
    ASSUME NEW b \in BOOLEAN, NEW x
    PROVE  (OneIf(b, x) = <<>>) <=> ~b
<1>1. Len(<<x>>) = 1 /\ Len(<<>>) = 0
  OBVIOUS
<1>2. <<x>> # <<>>
  BY <1>1
<1>3. QED
  BY <1>2 DEF OneIf

(***************************************************************************)
(* The views are these functions applied to each element.                  *)
(***************************************************************************)
LEMMA QueuedIs ==
    ASSUME NEW c
    PROVE  /\ Maps(QueuedOf(c), Item, OrderPack)
           /\ \A s \in Seq(Item) : Queued(c, s) = Through(QueuedOf(c), s)
<1>1. Maps(QueuedOf(c), Item, OrderPack)
  <2>1. ASSUME NEW x \in Item
        PROVE  OneIf(x.client_id = c, x.order) \in Seq(OrderPack)
    <3>1. x.order \in OrderPack
      BY DEF Item
    <3>2. QED
      BY <3>1, OneIfSeq
  <2>2. QED
    BY <2>1 DEF Maps, QueuedOf
<1>2. ASSUME NEW s \in Seq(Item)
      PROVE  Queued(c, s) = Through(QueuedOf(c), s)
  <2>1. \A i \in DOMAIN s : s[i] \in Item
    OBVIOUS
  <2>2. [i \in DOMAIN s |-> OneIf(s[i].client_id = c, s[i].order)] = Each(QueuedOf(c), s)
    BY <2>1 DEF Each, QueuedOf
  <2>3. QED
    BY <2>2, Zenon DEF Queued, Through
<1>3. QED
  BY <1>1, <1>2

\* PacketsFor likewise.
LEMMA PacketsIs ==
    ASSUME NEW c
    PROVE  /\ Maps(PacketsOf(c), OutRec, ResultPack)
           /\ \A s \in Seq(OutRec) : PacketsFor(c, s) = Through(PacketsOf(c), s)
<1>1. Maps(PacketsOf(c), OutRec, ResultPack)
  <2>1. ASSUME NEW x \in OutRec
        PROVE  OneIf(x.client_id = c, Packet(x)) \in Seq(ResultPack)
    <3>1. Packet(x) \in ResultPack
      BY DEF OutRec, Packet, ResultPack
    <3>2. QED
      BY <3>1, OneIfSeq
  <2>2. QED
    BY <2>1 DEF Maps, PacketsOf
<1>2. ASSUME NEW s \in Seq(OutRec)
      PROVE  PacketsFor(c, s) = Through(PacketsOf(c), s)
  <2>1. \A i \in DOMAIN s : s[i] \in OutRec
    OBVIOUS
  <2>2. [i \in DOMAIN s |-> OneIf(s[i].client_id = c, Packet(s[i]))] = Each(PacketsOf(c), s)
    BY <2>1 DEF Each, PacketsOf
  <2>3. QED
    BY <2>2, Zenon DEF PacketsFor, Through
<1>3. QED
  BY <1>1, <1>2

\* RestingFor likewise.
LEMMA RestingIs ==
    ASSUME NEW c
    PROVE  /\ Maps(RestingOf(c), RestRec, BookRec)
           /\ \A s \in Seq(RestRec) : RestingFor(c, s) = Through(RestingOf(c), s)
<1>1. Maps(RestingOf(c), RestRec, BookRec)
  <2>1. ASSUME NEW x \in RestRec
        PROVE  OneIf(x.client_id = c, [price |-> x.price, qty |-> x.qty]) \in Seq(BookRec)
    <3>1. [price |-> x.price, qty |-> x.qty] \in BookRec
      BY DEF RestRec, BookRec
    <3>2. QED
      BY <3>1, OneIfSeq
  <2>2. QED
    BY <2>1 DEF Maps, RestingOf
<1>2. ASSUME NEW s \in Seq(RestRec)
      PROVE  RestingFor(c, s) = Through(RestingOf(c), s)
  <2>1. \A i \in DOMAIN s : s[i] \in RestRec
    OBVIOUS
  <2>2. [i \in DOMAIN s |-> OneIf(s[i].client_id = c, [price |-> s[i].price, qty |-> s[i].qty])]
          = Each(RestingOf(c), s)
    BY <2>1 DEF Each, RestingOf
  <2>3. QED
    BY <2>2, Zenon DEF RestingFor, Through
<1>3. QED
  BY <1>1, <1>2

\* OrdersOn likewise.
LEMMA OrdersIs ==
    ASSUME NEW d \in Side
    PROVE  /\ Maps(OrdersOf(d), OrderPack, SentRec)
           /\ \A s \in Seq(OrderPack) : OrdersOn(d, s) = Through(OrdersOf(d), s)
<1>1. Maps(OrdersOf(d), OrderPack, SentRec)
  <2>1. ASSUME NEW x \in OrderPack
        PROVE  OneIf(x.side = d, Order(d, x.price, x.qty)) \in Seq(SentRec)
    <3>1. Order(d, x.price, x.qty) \in SentRec
      BY DEF OrderPack, Order, SentRec
    <3>2. QED
      BY <3>1, OneIfSeq
  <2>2. QED
    BY <2>1 DEF Maps, OrdersOf
<1>2. ASSUME NEW s \in Seq(OrderPack)
      PROVE  OrdersOn(d, s) = Through(OrdersOf(d), s)
  <2>1. \A i \in DOMAIN s : s[i] \in OrderPack
    OBVIOUS
  <2>2. [i \in DOMAIN s |-> OneIf(s[i].side = d, Order(d, s[i].price, s[i].qty))]
          = Each(OrdersOf(d), s)
    BY <2>1 DEF Each, OrdersOf
  <2>3. QED
    BY <2>2, Zenon DEF OrdersOn, Through
<1>3. QED
  BY <1>1, <1>2

\* ResultsOn likewise.
LEMMA ResultsIs ==
    ASSUME NEW d
    PROVE  /\ Maps(ResultsOf(d), ResultPack, TypeRec)
           /\ \A s \in Seq(ResultPack) : ResultsOn(d, s) = Through(ResultsOf(d), s)
<1>1. Maps(ResultsOf(d), ResultPack, TypeRec)
  <2>1. ASSUME NEW x \in ResultPack
        PROVE  OneIf(x.side = d, [type |-> x.type, qty |-> x.qty]) \in Seq(TypeRec)
    <3>1. [type |-> x.type, qty |-> x.qty] \in TypeRec
      BY DEF ResultPack, TypeRec
    <3>2. QED
      BY <3>1, OneIfSeq
  <2>2. QED
    BY <2>1 DEF Maps, ResultsOf
<1>2. ASSUME NEW s \in Seq(ResultPack)
      PROVE  ResultsOn(d, s) = Through(ResultsOf(d), s)
  <2>1. \A i \in DOMAIN s : s[i] \in ResultPack
    OBVIOUS
  <2>2. [i \in DOMAIN s |-> OneIf(s[i].side = d, [type |-> s[i].type, qty |-> s[i].qty])]
          = Each(ResultsOf(d), s)
    BY <2>1 DEF Each, ResultsOf
  <2>3. QED
    BY <2>2, Zenon DEF ResultsOn, Through
<1>3. QED
  BY <1>1, <1>2

-----------------------------------------------------------------------------
(* What an order trades. *)

\* Quantity traded with the first i orders, if t was traded before the last.
TradedNext(q, o, i, t) ==
    IF IsCross(o.side, o.price, q[i].price) THEN MinOf(t + q[i].qty, o.qty) ELSE t

\* The running totals up to n.
Totals(f, q, o, n) == f = [i \in 0..n |-> IF i = 0 THEN 0 ELSE TradedNext(q, o, i, f[i - 1])]

(***************************************************************************)
(* Running totals exist.                                                   *)
(***************************************************************************)
LEMMA TotalsExist ==
    ASSUME NEW q, NEW o, NEW n \in Nat
    PROVE  \E f : Totals(f, q, o, n)
<1> DEFINE G == {k \in Nat : \E f : Totals(f, q, o, k)}
<1>1. 0 \in G
  <2> DEFINE g == [i \in 0..0 |-> 0]
  <2>1. g = [i \in 0..0 |-> IF i = 0 THEN 0 ELSE TradedNext(q, o, i, g[i - 1])]
    OBVIOUS
  <2>2. Totals(g, q, o, 0)
    BY <2>1, Zenon DEF Totals
  <2>3. QED
    BY <2>2
<1>2. ASSUME NEW k \in 1..n, k - 1 \in G
      PROVE  k \in G
  <2>1. PICK f : Totals(f, q, o, k - 1)
    BY <1>2
  <2> DEFINE g == [i \in 0..k |-> IF i = k THEN TradedNext(q, o, k, f[k - 1]) ELSE f[i]]
  <2>2. ASSUME NEW i \in 0..k
        PROVE  g[i] = IF i = 0 THEN 0 ELSE TradedNext(q, o, i, g[i - 1])
    <3>1. CASE i = k
      <4>1. i - 1 \in 0..k /\ i # 0 /\ i - 1 # k
        BY <3>1
      <4>2. QED
        BY <3>1, <4>1
    <3>2. CASE i # k /\ i = 0
      BY <2>1, <3>2 DEF Totals
    <3>3. CASE i # k /\ i # 0
      <4>1. i \in 0..(k - 1) /\ i - 1 \in 0..k /\ i - 1 # k
        BY <3>3
      <4>2. f[i] = TradedNext(q, o, i, f[i - 1])
        BY <2>1, <3>3, <4>1 DEF Totals
      <4>3. QED
        BY <3>3, <4>1, <4>2
    <3>4. QED
      BY <3>1, <3>2, <3>3
  <2>3. g = [i \in 0..k |-> g[i]]
    OBVIOUS
  <2>4. Totals(g, q, o, k)
    <3> HIDE DEF g
    <3>1. QED
      BY <2>2, <2>3 DEF Totals
  <2>5. QED
    BY <2>4
<1>3. n \in G
  <2> HIDE DEF G
  <2>1. n \in 0..n
    OBVIOUS
  <2>2. QED
    BY <1>1, <1>2, <2>1, UpToInduction
<1>4. QED
  BY <1>3

(***************************************************************************)
(* The recursion of TradedUpTo.                                            *)
(***************************************************************************)
LEMMA TradedStep ==
    ASSUME NEW q \in Seq(RestRec), NEW o
    PROVE  /\ TradedUpTo(q, o, 0) = 0
           /\ \A i \in 1..Len(q) : TradedUpTo(q, o, i) = TradedNext(q, o, i, TradedUpTo(q, o, i - 1))
<1> DEFINE F == CHOOSE f : f = [i \in 0..Len(q) |->
                  IF i = 0 THEN 0
                  ELSE IF IsCross(o.side, o.price, q[i].price)
                  THEN MinOf(f[i - 1] + q[i].qty, o.qty)
                  ELSE f[i - 1]]
<1>1. Len(q) \in Nat
  OBVIOUS
<1>2. \A k : TradedUpTo(q, o, k) = F[k]
  BY Zenon DEF TradedUpTo
<1>3. \E f : f = [i \in 0..Len(q) |->
                  IF i = 0 THEN 0
                  ELSE IF IsCross(o.side, o.price, q[i].price)
                  THEN MinOf(f[i - 1] + q[i].qty, o.qty)
                  ELSE f[i - 1]]
  <2>1. PICK f : Totals(f, q, o, Len(q))
    BY <1>1, TotalsExist
  <2>2. QED
    BY <2>1, Zenon DEF Totals, TradedNext
<1>4. F = [i \in 0..Len(q) |->
                  IF i = 0 THEN 0
                  ELSE IF IsCross(o.side, o.price, q[i].price)
                  THEN MinOf(F[i - 1] + q[i].qty, o.qty)
                  ELSE F[i - 1]]
  BY <1>3, Zenon
<1> HIDE DEF F
<1>5. F[0] = 0 /\ \A k \in 1..Len(q) : F[k] = TradedNext(q, o, k, F[k - 1])
  BY <1>1, <1>4 DEF TradedNext
<1>6. QED
  BY <1>2, <1>5

(***************************************************************************)
(* An order never trades more than its quantity, and with each order at    *)
(* most what that one has.                                                 *)
(***************************************************************************)
LEMMA TradedBounds ==
    ASSUME NEW q \in Seq(RestRec), NEW o, o.qty \in Nat
    PROVE  /\ \A i \in 0..Len(q) : TradedUpTo(q, o, i) \in 0..o.qty
           /\ \A i \in 1..Len(q) :
                /\ Traded(q, o, i) \in 0..q[i].qty /\ Traded(q, o, i) \in 0..o.qty
                /\ TradedUpTo(q, o, i) = TradedUpTo(q, o, i - 1) + Traded(q, o, i)
<1> DEFINE G == {k \in 0..Len(q) : TradedUpTo(q, o, k) \in 0..o.qty}
<1>0. Len(q) \in Nat
  OBVIOUS
<1>1. 0 \in G
  BY <1>0, TradedStep
<1>2. ASSUME NEW i \in 1..Len(q), TradedUpTo(q, o, i - 1) \in 0..o.qty
      PROVE  /\ TradedUpTo(q, o, i) \in 0..o.qty
             /\ TradedUpTo(q, o, i - 1) <= TradedUpTo(q, o, i)
             /\ TradedUpTo(q, o, i) <= TradedUpTo(q, o, i - 1) + q[i].qty
  <2>1. q[i].qty \in Nat
    <3>1. q[i] \in RestRec
      OBVIOUS
    <3>2. QED
      BY <3>1 DEF RestRec
  <2>2. TradedUpTo(q, o, i) = TradedNext(q, o, i, TradedUpTo(q, o, i - 1))
    BY TradedStep
  <2>3. QED
    BY <1>2, <2>1, <2>2 DEF TradedNext, MinOf
<1>3. ASSUME NEW i \in 1..Len(q), i - 1 \in G
      PROVE  i \in G
  BY <1>2, <1>3
<1>4. \A i \in 0..Len(q) : TradedUpTo(q, o, i) \in 0..o.qty
  <2> SUFFICES ASSUME NEW i \in 0..Len(q)
               PROVE  i \in G
    OBVIOUS
  <2> HIDE DEF G
  <2>1. QED
    BY <1>0, <1>1, <1>3, UpToInduction
<1>5. ASSUME NEW i \in 1..Len(q)
      PROVE  /\ Traded(q, o, i) \in 0..q[i].qty /\ Traded(q, o, i) \in 0..o.qty
             /\ TradedUpTo(q, o, i) = TradedUpTo(q, o, i - 1) + Traded(q, o, i)
  <2>1. i - 1 \in 0..Len(q) /\ i \in 0..Len(q)
    BY <1>0
  <2>2. TradedUpTo(q, o, i - 1) \in 0..o.qty /\ TradedUpTo(q, o, i) \in 0..o.qty
    BY <1>4, <2>1
  <2>3. q[i].qty \in Nat
    <3>1. q[i] \in RestRec
      OBVIOUS
    <3>2. QED
      BY <3>1 DEF RestRec
  <2>4. QED
    BY <1>2, <2>2, <2>3 DEF Traded
<1>6. QED
  BY <1>4, <1>5

-----------------------------------------------------------------------------
(* What rests for a process, when the book changes. *)

(***************************************************************************)
(* RestingFor, element by element.                                         *)
(***************************************************************************)
LEMMA RestingFacts ==
    ASSUME NEW c
    PROVE  /\ \A q \in Seq(RestRec) : RestingFor(c, q) \in Seq(BookRec)
           /\ \A x \in RestRec : RestingFor(c, <<x>>)
                = OneIf(x.client_id = c, [price |-> x.price, qty |-> x.qty])
           /\ \A a, b \in Seq(RestRec) :
                RestingFor(c, Cat(a, b)) = Cat(RestingFor(c, a), RestingFor(c, b))
<1>1. Maps(RestingOf(c), RestRec, BookRec)
  BY RestingIs
<1>2. ASSUME NEW x \in RestRec
      PROVE  RestingFor(c, <<x>>) = OneIf(x.client_id = c, [price |-> x.price, qty |-> x.qty])
  <2>1. <<x>> \in Seq(RestRec)
    OBVIOUS
  <2>2. Through(RestingOf(c), <<x>>) = RestingOf(c)[x]
    BY <1>1, ThroughOne
  <2>3. RestingFor(c, <<x>>) = RestingOf(c)[x]
    BY <2>1, <2>2, RestingIs
  <2>4. QED
    BY <2>3 DEF RestingOf
<1>3. \A q \in Seq(RestRec) : RestingFor(c, q) \in Seq(BookRec)
  BY <1>1, RestingIs, ThroughTyped
<1>4. ASSUME NEW a \in Seq(RestRec), NEW b \in Seq(RestRec)
      PROVE  RestingFor(c, Cat(a, b)) = Cat(RestingFor(c, a), RestingFor(c, b))
  <2>1. Cat(a, b) \in Seq(RestRec)
    BY CatSeq
  <2>2. Through(RestingOf(c), Cat(a, b)) = Cat(Through(RestingOf(c), a), Through(RestingOf(c), b))
    BY <1>1, ThroughCat
  <2>3. QED
    BY <2>1, <2>2, RestingIs
<1>5. QED
  BY <1>2, <1>3, <1>4

(***************************************************************************)
(* A process with at most one order in a queue: where it is.               *)
(***************************************************************************)
LEMMA WhereItRests ==
    ASSUME NEW c, NEW q \in Seq(RestRec), Len(RestingFor(c, q)) <= 1
    PROVE  \/ RestingFor(c, q) = <<>> /\ \A i \in 1..Len(q) : q[i].client_id # c
           \/ \E k \in 1..Len(q) :
                /\ q[k].client_id = c
                /\ RestingFor(c, q) = <<[price |-> q[k].price, qty |-> q[k].qty]>>
                /\ \A i \in 1..Len(q) : i # k => q[i].client_id # c
<1>1. PICK e \in Seq(Seq(BookRec)) : e = Each(RestingOf(c), q)
  BY RestingIs, EachMapped
<1>2. /\ Len(e) = Len(q)
      /\ \A i \in 1..Len(q) :
           e[i] = OneIf(q[i].client_id = c, [price |-> q[i].price, qty |-> q[i].qty])
  <2>1. Len(e) = Len(q) /\ \A i \in 1..Len(q) : e[i] = RestingOf(c)[q[i]]
    BY <1>1, RestingIs, EachMapped
  <2>2. \A i \in 1..Len(q) : q[i] \in RestRec
    OBVIOUS
  <2>3. QED
    BY <2>1, <2>2 DEF RestingOf
<1>3. RestingFor(c, q) = FlattenSeq(e)
  BY <1>1, RestingIs DEF Through
<1>4. \A i \in 1..Len(q) : (e[i] = <<>>) <=> (q[i].client_id # c)
  BY <1>2, OneIfEmpty
<1>5. \/ FlattenSeq(e) = <<>> /\ \A i \in 1..Len(e) : e[i] = <<>>
      \/ \E k \in 1..Len(e) : /\ FlattenSeq(e) = e[k] /\ e[k] # <<>>
                              /\ \A i \in 1..Len(e) : i # k => e[i] = <<>>
  BY <1>3, FlattenAtMostOne
<1>6. CASE FlattenSeq(e) = <<>> /\ \A i \in 1..Len(e) : e[i] = <<>>
  BY <1>2, <1>3, <1>4, <1>6
<1>7. ASSUME NEW k \in 1..Len(e), FlattenSeq(e) = e[k], e[k] # <<>>,
             \A i \in 1..Len(e) : i # k => e[i] = <<>>
      PROVE  /\ k \in 1..Len(q) /\ q[k].client_id = c
             /\ RestingFor(c, q) = <<[price |-> q[k].price, qty |-> q[k].qty]>>
             /\ \A i \in 1..Len(q) : i # k => q[i].client_id # c
  <2>1. k \in 1..Len(q) /\ q[k].client_id = c
    BY <1>2, <1>4, <1>7
  <2>2. e[k] = <<[price |-> q[k].price, qty |-> q[k].qty]>>
    BY <1>2, <2>1 DEF OneIf
  <2>3. QED
    BY <1>2, <1>3, <1>4, <1>7, <2>1, <2>2
<1>8. QED
  BY <1>5, <1>6, <1>7

(***************************************************************************)
(* An order leaves a queue.                                                *)
(***************************************************************************)
LEMMA RestingWithout ==
    ASSUME NEW c, NEW q \in Seq(RestRec), NEW i \in 1..Len(q)
    PROVE  /\ RemoveAt(q, i) \in Seq(RestRec)
           /\ q[i].client_id # c => RestingFor(c, RemoveAt(q, i)) = RestingFor(c, q)
           /\ q[i].client_id = c /\ Len(RestingFor(c, q)) <= 1 =>
                /\ RestingFor(c, q) = <<[price |-> q[i].price, qty |-> q[i].qty]>>
                /\ RestingFor(c, RemoveAt(q, i)) = <<>>
<1>1. PICK a \in Seq(RestRec), b \in Seq(RestRec), x \in Seq(RestRec) :
        /\ a = SubSeq(q, 1, i - 1) /\ b = SubSeq(q, i + 1, Len(q)) /\ x = <<q[i]>>
  <2>1. q[i] \in RestRec /\ <<q[i]>> \in Seq(RestRec)
    OBVIOUS
  <2>2. SubSeq(q, 1, i - 1) \in Seq(RestRec) /\ SubSeq(q, i + 1, Len(q)) \in Seq(RestRec)
    BY SplitAt
  <2>3. QED
    BY <2>1, <2>2, Zenon
<1>2. q = Cat(Cat(a, x), b) /\ RemoveAt(q, i) = Cat(a, b)
  <2>1. q = Cat(Cat(a, x), b)
    BY <1>1, SplitAt
  <2>2. RemoveAt(q, i) = Cat(a, b)
    BY <1>1, Zenon DEF RemoveAt, Cat
  <2>3. QED
    BY <2>1, <2>2
<1>3. PICK ra \in Seq(BookRec), rb \in Seq(BookRec), rx \in Seq(BookRec) :
        ra = RestingFor(c, a) /\ rb = RestingFor(c, b) /\ rx = RestingFor(c, x)
  BY RestingFacts
<1>4. RestingFor(c, q) = Cat(Cat(ra, rx), rb) /\ RestingFor(c, RemoveAt(q, i)) = Cat(ra, rb)
  <2>1. Cat(a, x) \in Seq(RestRec)
    BY CatSeq
  <2>2. QED
    BY <1>2, <1>3, <2>1, RestingFacts
<1>5. rx = OneIf(q[i].client_id = c, [price |-> q[i].price, qty |-> q[i].qty])
  <2>1. q[i] \in RestRec
    OBVIOUS
  <2>2. QED
    BY <1>1, <1>3, <2>1, RestingFacts
<1>6. q[i].client_id # c => RestingFor(c, RemoveAt(q, i)) = RestingFor(c, q)
  <2> SUFFICES ASSUME q[i].client_id # c
               PROVE  Cat(ra, rb) = Cat(Cat(ra, rx), rb)
    BY <1>4
  <2>1. rx = <<>>
    BY <1>5 DEF OneIf
  <2>2. QED
    BY <2>1, CatSeq
<1>7. ASSUME q[i].client_id = c, Len(RestingFor(c, q)) <= 1
      PROVE  /\ RestingFor(c, q) = <<[price |-> q[i].price, qty |-> q[i].qty]>>
             /\ RestingFor(c, RemoveAt(q, i)) = <<>>
  <2>1. rx = <<[price |-> q[i].price, qty |-> q[i].qty]>> /\ Len(rx) = 1
    BY <1>5, <1>7 DEF OneIf
  <2>2. PICK na \in Nat, nb \in Nat : Len(ra) = na /\ Len(rb) = nb
    OBVIOUS
  <2>3. Len(Cat(Cat(ra, rx), rb)) = na + 1 + nb
    <3>1. PICK mid \in Seq(BookRec) : mid = Cat(ra, rx)
      BY CatSeq
    <3>2. Len(mid) = Len(ra) + Len(rx) /\ Len(Cat(mid, rb)) = Len(mid) + Len(rb)
      BY <3>1, CatLength
    <3>3. QED
      BY <2>1, <2>2, <3>1, <3>2
  <2>4. na = 0 /\ nb = 0
    BY <1>4, <1>7, <2>3
  <2>5. ra = <<>> /\ rb = <<>>
    BY <2>2, <2>4, EmptySeq
  <2>6. Cat(Cat(ra, rx), rb) = rx /\ Cat(ra, rb) = <<>>
    BY <2>5, CatSeq
  <2>7. QED
    BY <1>4, <2>1, <2>6
<1>8. QED
  BY <1>2, <1>6, <1>7, CatSeq

(***************************************************************************)
(* An order enters a queue.                                                *)
(***************************************************************************)
LEMMA RestingWith ==
    ASSUME NEW c, NEW q \in Seq(RestRec), NEW i \in 1..(Len(q) + 1), NEW x \in RestRec
    PROVE  /\ InsertAt(q, i, x) \in Seq(RestRec)
           /\ x.client_id # c => RestingFor(c, InsertAt(q, i, x)) = RestingFor(c, q)
           /\ x.client_id = c /\ RestingFor(c, q) = <<>> =>
                RestingFor(c, InsertAt(q, i, x)) = <<[price |-> x.price, qty |-> x.qty]>>
<1>1. PICK a \in Seq(RestRec), b \in Seq(RestRec), y \in Seq(RestRec) :
        /\ a = SubSeq(q, 1, i - 1) /\ b = SubSeq(q, i, Len(q)) /\ y = <<x>>
  <2>1. <<x>> \in Seq(RestRec)
    OBVIOUS
  <2>2. SubSeq(q, 1, i - 1) \in Seq(RestRec) /\ SubSeq(q, i, Len(q)) \in Seq(RestRec)
    OBVIOUS
  <2>3. QED
    BY <2>1, <2>2, Zenon
<1>2. InsertAt(q, i, x) = Cat(Cat(a, y), b)
  BY <1>1, Zenon DEF InsertAt, Cat
<1>3. q = Cat(a, b)
  <2>1. /\ Len(q) \in Nat /\ 1 \in 1..(Len(q) + 1) /\ i - 1 \in 0..Len(q) /\ Len(q) \in (i - 1)..Len(q)
        /\ (i - 1) + 1 = i
    OBVIOUS
  <2>2. SubSeq(q, 1, i - 1) \o SubSeq(q, i, Len(q)) = SubSeq(q, 1, Len(q))
    <3>1. PICK k \in 0..Len(q), n \in Nat : k = i - 1 /\ n = Len(q) /\ k + 1 = i /\ n \in k..Len(q)
      BY <2>1
    <3>2. SubSeq(q, 1, k) \o SubSeq(q, k + 1, n) = SubSeq(q, 1, n)
      <4>1. PICK m \in 1..(Len(q) + 1) : m = 1 /\ k \in (m - 1)..Len(q) /\ n \in k..Len(q)
        BY <2>1, <3>1
      <4>2. SubSeq(q, m, k) \o SubSeq(q, k + 1, n) = SubSeq(q, m, n)
        BY <4>1, ConcatAdjacentSubSeq
      <4>3. QED
        BY <4>1, <4>2, Zenon
    <3>3. QED
      BY <3>1, <3>2, Zenon
  <2>3. QED
    BY <1>1, <2>2, SubSeqFull DEF Cat
<1>4. PICK ra \in Seq(BookRec), rb \in Seq(BookRec), ry \in Seq(BookRec) :
        ra = RestingFor(c, a) /\ rb = RestingFor(c, b) /\ ry = RestingFor(c, y)
  BY RestingFacts
<1>5. Cat(a, y) \in Seq(RestRec) /\ Cat(Cat(a, y), b) \in Seq(RestRec)
  BY CatSeq
<1>6. RestingFor(c, q) = Cat(ra, rb) /\ RestingFor(c, InsertAt(q, i, x)) = Cat(Cat(ra, ry), rb)
  BY <1>2, <1>3, <1>4, <1>5, RestingFacts
<1>7. ry = OneIf(x.client_id = c, [price |-> x.price, qty |-> x.qty])
  BY <1>1, <1>4, RestingFacts
<1>8. x.client_id # c => RestingFor(c, InsertAt(q, i, x)) = RestingFor(c, q)
  <2> SUFFICES ASSUME x.client_id # c
               PROVE  Cat(ra, rb) = Cat(Cat(ra, ry), rb)
    BY <1>6
  <2>1. ry = <<>>
    BY <1>7 DEF OneIf
  <2>2. QED
    BY <2>1, CatSeq
<1>9. ASSUME x.client_id = c, RestingFor(c, q) = <<>>
      PROVE  RestingFor(c, InsertAt(q, i, x)) = <<[price |-> x.price, qty |-> x.qty]>>
  <2>1. ra = <<>> /\ rb = <<>>
    BY <1>6, <1>9, NothingInside
  <2>2. Cat(Cat(ra, ry), rb) = ry
    BY <2>1, CatSeq
  <2>3. QED
    BY <1>6, <1>7, <1>9, <2>2 DEF OneIf
<1>10. QED
  BY <1>2, <1>5, <1>8, <1>9

\* Enqueue is such an insertion.
LEMMA RestingEnqueued ==
    ASSUME NEW c, NEW q \in Seq(RestRec), NEW d, NEW x \in RestRec
    PROVE  /\ Enqueue(q, d, x) \in Seq(RestRec)
           /\ x.client_id # c => RestingFor(c, Enqueue(q, d, x)) = RestingFor(c, q)
           /\ x.client_id = c /\ RestingFor(c, q) = <<>> =>
                RestingFor(c, Enqueue(q, d, x)) = <<[price |-> x.price, qty |-> x.qty]>>
<1> DEFINE worse == {i \in DOMAIN q : SortsBefore(d, x.price, q[i].price)}
           i == IF worse = {} THEN Len(q) + 1 ELSE Min(worse)
<1>1. Len(q) \in Nat /\ worse \subseteq 1..Len(q)
  OBVIOUS
<1>2. i \in 1..(Len(q) + 1)
  <2> HIDE DEF worse
  <2>1. CASE worse = {}
    BY <1>1, <2>1
  <2>2. CASE worse # {}
    <3>1. worse \subseteq Nat
      BY <1>1
    <3>2. \E m \in worse : \A n \in worse : m <= n
      BY <2>2, <3>1, LeastNat
    <3>3. Min(worse) \in worse
      BY <3>2 DEF Min
    <3>4. Min(worse) \in 1..Len(q)
      BY <1>1, <3>3
    <3>5. \A m \in 1..Len(q) : m \in 1..(Len(q) + 1)
      BY <1>1
    <3>6. i = Min(worse)
      BY <2>2
    <3>7. QED
      BY <3>4, <3>5, <3>6, Zenon
  <2>3. QED
    BY <2>1, <2>2
<1>3. Enqueue(q, d, x) = InsertAt(q, i, x)
  BY Zenon DEF Enqueue
<1>4. QED
  <2> HIDE DEF i
  <2>1. QED
    BY <1>2, <1>3, RestingWith

\* What an order that trades leaves of the order q[i].
Remains(q, o, i) == OneIf(Traded(q, o, i) < q[i].qty, [q[i] EXCEPT !.qty = @ - Traded(q, o, i)])

(***************************************************************************)
(* What remains of an order is an order.                                   *)
(***************************************************************************)
LEMMA LeftIsRec ==
    ASSUME NEW x \in RestRec, NEW t \in 0..x.qty, t < x.qty
    PROVE  /\ [x EXCEPT !.qty = @ - t] \in RestRec
           /\ [x EXCEPT !.qty = @ - t].client_id = x.client_id
           /\ [x EXCEPT !.qty = @ - t].price = x.price
           /\ [x EXCEPT !.qty = @ - t].qty = x.qty - t
<1>1. PICK n \in Nat \ {0} : n = x.qty - t
  <2>1. x.qty \in Nat
    BY DEF RestRec
  <2>2. x.qty - t \in Nat \ {0}
    BY <2>1
  <2>3. QED
    BY <2>2
<1>2. [x EXCEPT !.qty = n] \in RestRec
  BY DEF RestRec
<1>3. QED
  BY <1>1, <1>2 DEF RestRec

(***************************************************************************)
(* What AfterTrade is made of.                                             *)
(***************************************************************************)
LEMMA AfterTradeParts ==
    ASSUME NEW q \in Seq(RestRec), NEW o, o.qty \in Nat
    PROVE  \E ss \in Seq(Seq(RestRec)) :
             /\ AfterTrade(q, o) = FlattenSeq(ss) /\ Len(ss) = Len(q)
             /\ \A i \in 1..Len(q) : ss[i] = Remains(q, o, i)
<1> DEFINE ss == [i \in DOMAIN q |-> Remains(q, o, i)]
<1>1. Len(q) \in Nat /\ DOMAIN q = 1..Len(q)
  OBVIOUS
<1>2. ASSUME NEW i \in 1..Len(q)
      PROVE  Remains(q, o, i) \in Seq(RestRec)
  <2>1. q[i] \in RestRec
    OBVIOUS
  <2>2. Traded(q, o, i) \in 0..q[i].qty
    BY TradedBounds
  <2> DEFINE left == [q[i] EXCEPT !.qty = @ - Traded(q, o, i)]
  <2>3. Traded(q, o, i) < q[i].qty => left \in RestRec
    BY <2>1, <2>2, LeftIsRec
  <2>4. (Traded(q, o, i) < q[i].qty) \in BOOLEAN
    OBVIOUS
  <2> HIDE DEF left
  <2>5. OneIf(Traded(q, o, i) < q[i].qty, left) \in Seq(RestRec)
    BY <2>3, <2>4, OneIfSeq
  <2>6. QED
    BY <2>5, Zenon DEF Remains, left
<1>3. /\ ss \in Seq(Seq(RestRec)) /\ Len(ss) = Len(q)
      /\ \A i \in 1..Len(q) : ss[i] = Remains(q, o, i)
  BY <1>1, <1>2
<1>4. AfterTrade(q, o) = FlattenSeq(ss)
  BY Zenon DEF AfterTrade, Remains
<1> HIDE DEF ss
<1>5. QED
  BY <1>3, <1>4, Zenon

\* Process c has nothing in q for o to trade with.
Untouched(c, q, o) ==
    /\ RestingFor(c, q) = <<>> /\ RestingFor(c, AfterTrade(q, o)) = <<>>
    /\ \A i \in 1..Len(q) : q[i].client_id # c

\* Its order in q is q[k], and o takes from it what it trades.
MakerAt(c, q, o, k) ==
    /\ q[k].client_id = c
    /\ RestingFor(c, q) = <<[price |-> q[k].price, qty |-> q[k].qty]>>
    /\ \A i \in 1..Len(q) : i # k => q[i].client_id # c
    /\ RestingFor(c, AfterTrade(q, o)) =
         OneIf(Traded(q, o, k) < q[k].qty,
               [price |-> q[k].price, qty |-> q[k].qty - Traded(q, o, k)])

(***************************************************************************)
(* A trade takes from the order of a process what it trades with it.       *)
(***************************************************************************)
LEMMA RestingAfterTrade ==
    ASSUME NEW c, NEW q \in Seq(RestRec), NEW o, o.qty \in Nat, Len(RestingFor(c, q)) <= 1
    PROVE  Untouched(c, q, o) \/ \E k \in 1..Len(q) : MakerAt(c, q, o, k)
<1>1. PICK ss \in Seq(Seq(RestRec)) :
        /\ AfterTrade(q, o) = FlattenSeq(ss) /\ Len(ss) = Len(q)
        /\ \A i \in 1..Len(q) : ss[i] = Remains(q, o, i)
  BY AfterTradeParts
<1> DEFINE uu == [i \in DOMAIN ss |-> Through(RestingOf(c), ss[i])]
<1>2. Maps(RestingOf(c), RestRec, BookRec)
  BY RestingIs
<1>3. /\ uu \in Seq(Seq(BookRec)) /\ Len(uu) = Len(q)
      /\ \A i \in 1..Len(q) : uu[i] = RestingFor(c, ss[i])
  <2>1. DOMAIN ss = 1..Len(q) /\ Len(q) \in Nat /\ \A i \in 1..Len(q) : ss[i] \in Seq(RestRec)
    BY <1>1
  <2>2. \A i \in 1..Len(q) : Through(RestingOf(c), ss[i]) \in Seq(BookRec)
    BY <1>2, <2>1, ThroughTyped
  <2>3. QED
    BY <2>1, <2>2, RestingIs
<1>4. RestingFor(c, AfterTrade(q, o)) = FlattenSeq(uu)
  <2>1. FlattenSeq(ss) \in Seq(RestRec)
    BY FlattenTyped
  <2>2. Through(RestingOf(c), FlattenSeq(ss)) = FlattenSeq(uu)
    BY <1>2, ThroughFlatten
  <2> HIDE DEF uu
  <2>3. QED
    BY <1>1, <2>1, <2>2, RestingIs
<1> HIDE DEF uu
<1>5. ASSUME NEW i \in 1..Len(q)
      PROVE  uu[i] = OneIf(q[i].client_id = c /\ Traded(q, o, i) < q[i].qty,
                           [price |-> q[i].price, qty |-> q[i].qty - Traded(q, o, i)])
  <2>1. q[i] \in RestRec
    OBVIOUS
  <2>2. CASE Traded(q, o, i) < q[i].qty
    <3> DEFINE left == [q[i] EXCEPT !.qty = @ - Traded(q, o, i)]
    <3>1. /\ left \in RestRec /\ left.client_id = q[i].client_id /\ left.price = q[i].price
          /\ left.qty = q[i].qty - Traded(q, o, i)
      <4>1. Traded(q, o, i) \in 0..q[i].qty
        BY TradedBounds
      <4>2. QED
        BY <2>1, <2>2, <4>1, LeftIsRec
    <3>2. ss[i] = <<left>>
      BY <1>1, <2>2 DEF Remains, OneIf
    <3> HIDE DEF left
    <3>3. RestingFor(c, <<left>>) = OneIf(left.client_id = c, [price |-> left.price, qty |-> left.qty])
      BY <3>1, RestingFacts
    <3>4. QED
      BY <1>3, <2>2, <3>1, <3>2, <3>3 DEF OneIf
  <2>3. CASE ~(Traded(q, o, i) < q[i].qty)
    <3>1. ss[i] = <<>>
      BY <1>1, <2>3 DEF Remains, OneIf
    <3>2. RestingFor(c, <<>>) = <<>>
      <4>1. <<>> \in Seq(RestRec)
        OBVIOUS
      <4>2. QED
        BY <4>1, RestingIs, ThroughEmpty
    <3>3. QED
      BY <1>3, <2>3, <3>1, <3>2 DEF OneIf
  <2>4. QED
    BY <2>2, <2>3
<1>6. ASSUME RestingFor(c, q) = <<>>, \A i \in 1..Len(q) : q[i].client_id # c
      PROVE  Untouched(c, q, o)
  <2>1. \A i \in 1..Len(uu) : uu[i] = <<>>
    BY <1>3, <1>5, <1>6 DEF OneIf
  <2>2. FlattenSeq(uu) = <<>>
    BY <1>3, <2>1, FlattenNone
  <2>3. QED
    BY <1>4, <1>6, <2>2 DEF Untouched
<1>7. ASSUME NEW k \in 1..Len(q), q[k].client_id = c,
             RestingFor(c, q) = <<[price |-> q[k].price, qty |-> q[k].qty]>>,
             \A i \in 1..Len(q) : i # k => q[i].client_id # c
      PROVE  RestingFor(c, AfterTrade(q, o)) =
               OneIf(Traded(q, o, k) < q[k].qty,
                     [price |-> q[k].price, qty |-> q[k].qty - Traded(q, o, k)])
  <2>1. \A i \in 1..Len(uu) : i # k => uu[i] = <<>>
    BY <1>3, <1>5, <1>7 DEF OneIf
  <2>2. k \in 1..Len(uu)
    BY <1>3
  <2>3. FlattenSeq(uu) = uu[k]
    BY <1>3, <2>1, <2>2, FlattenOnly
  <2>4. uu[k] = OneIf(Traded(q, o, k) < q[k].qty,
                      [price |-> q[k].price, qty |-> q[k].qty - Traded(q, o, k)])
    BY <1>5, <1>7 DEF OneIf
  <2>5. QED
    BY <1>4, <2>3, <2>4
<1>8. QED
  BY <1>6, <1>7, WhereItRests DEF Untouched, MakerAt

-----------------------------------------------------------------------------
(* What a process is told, per side. *)

\* What a result vector tells process c of its side s.
ToldTo(c, s, out) == ResultsOn(s, PacketsFor(c, out))

Told(c, s) ==
    [x \in OutRec |-> OneIf(x.client_id = c /\ x.side = s, [type |-> x.type, qty |-> x.qty])]

(***************************************************************************)
(* ToldTo, element by element.                                             *)
(***************************************************************************)
LEMMA ToldIs ==
    ASSUME NEW c, NEW s
    PROVE  /\ Maps(Told(c, s), OutRec, TypeRec)
           /\ \A out \in Seq(OutRec) : ToldTo(c, s, out) = Through(Told(c, s), out)
<1>1. Maps(Told(c, s), OutRec, TypeRec)
  <2>1. ASSUME NEW x \in OutRec
        PROVE  OneIf(x.client_id = c /\ x.side = s, [type |-> x.type, qty |-> x.qty]) \in Seq(TypeRec)
    <3>1. [type |-> x.type, qty |-> x.qty] \in TypeRec
      BY DEF OutRec, TypeRec
    <3>2. QED
      BY <3>1, OneIfSeq
  <2>2. QED
    BY <2>1 DEF Maps, Told
<1>2. ASSUME NEW out \in Seq(OutRec)
      PROVE  ToldTo(c, s, out) = Through(Told(c, s), out)
  <2>1. PICK ee \in Seq(Seq(ResultPack)) : ee = Each(PacketsOf(c), out)
    BY PacketsIs, EachMapped
  <2>2. Len(ee) = Len(out) /\ \A i \in 1..Len(out) : ee[i] = PacketsOf(c)[out[i]]
    BY <2>1, PacketsIs, EachMapped
  <2>3. PacketsFor(c, out) = FlattenSeq(ee) /\ FlattenSeq(ee) \in Seq(ResultPack)
    BY <2>1, PacketsIs, FlattenTyped DEF Through
  <2>4. ToldTo(c, s, out) = FlattenSeq([i \in DOMAIN ee |-> Through(ResultsOf(s), ee[i])])
    <3>1. Through(ResultsOf(s), FlattenSeq(ee)) = FlattenSeq([i \in DOMAIN ee |-> Through(ResultsOf(s), ee[i])])
      BY ResultsIs, ThroughFlatten
    <3>2. QED
      BY <2>3, <3>1, ResultsIs DEF ToldTo
  <2>5. ASSUME NEW i \in 1..Len(out)
        PROVE  Through(ResultsOf(s), ee[i]) = Told(c, s)[out[i]]
    <3>1. out[i] \in OutRec
      OBVIOUS
    <3>2. PICK x \in OutRec : x = out[i]
      BY <3>1
    <3>3. PICK p \in ResultPack : p = Packet(x)
      <4>1. Packet(x) \in ResultPack
        BY DEF OutRec, Packet, ResultPack
      <4>2. QED
        BY <4>1
    <3>4. ee[i] = OneIf(x.client_id = c, p)
      BY <2>2, <3>2, <3>3 DEF PacketsOf
    <3>5. Through(ResultsOf(s), <<p>>) = OneIf(p.side = s, [type |-> p.type, qty |-> p.qty])
      <4>1. Through(ResultsOf(s), <<p>>) = ResultsOf(s)[p]
        BY ResultsIs, ThroughOne
      <4>2. QED
        BY <4>1 DEF ResultsOf
    <3>6. p.side = x.side /\ p.type = x.type /\ p.qty = x.qty
      BY <3>3 DEF Packet
    <3>7. Told(c, s)[out[i]] = OneIf(x.client_id = c /\ x.side = s, [type |-> x.type, qty |-> x.qty])
      BY <3>2 DEF Told
    <3>8. CASE x.client_id = c
      <4>1. ee[i] = <<p>>
        BY <3>4, <3>8 DEF OneIf
      <4>2. QED
        BY <3>5, <3>6, <3>7, <3>8, <4>1 DEF OneIf
    <3>9. CASE x.client_id # c
      <4>1. ee[i] = <<>>
        BY <3>4, <3>9 DEF OneIf
      <4>2. Told(c, s)[out[i]] = <<>>
        BY <3>7, <3>9 DEF OneIf
      <4>3. QED
        BY <4>1, <4>2, ThroughEmpty
    <3>10. QED
      BY <3>8, <3>9
  <2>6. [i \in DOMAIN ee |-> Through(ResultsOf(s), ee[i])] = Each(Told(c, s), out)
    <3>1. DOMAIN ee = 1..Len(out) /\ DOMAIN out = 1..Len(out)
      BY <2>2
    <3>2. QED
      BY <2>5, <3>1 DEF Each
  <2>7. QED
    BY <2>4, <2>6, Zenon DEF Through
<1>3. QED
  BY <1>1, <1>2

\* What PushOrder is called with.
OrdRec == [client_id : Clients, side : Side, price : Int, qty : Nat, seq : Int]

\* The other side is another one.
LEMMA Opposite ==
    ASSUME NEW s \in Side
    PROVE  OppSide(s) \in Side /\ OppSide(s) # s /\ \A x \in Side : x = s \/ x = OppSide(s)
BY DEF Side, OppSide

(***************************************************************************)
(* What TradeReports is made of.                                           *)
(***************************************************************************)
LEMMA ReportParts ==
    ASSUME NEW q \in Seq(RestRec), NEW o \in OrdRec
    PROVE  /\ \A i \in 1..Len(q) : TakerReport(q, o, i) \in OutRec /\ MakerReport(q, o, i) \in OutRec
           /\ \E rr \in Seq(Seq(OutRec)) :
                /\ TradeReports(q, o) = FlattenSeq(rr) /\ Len(rr) = Len(q)
                /\ \A i \in 1..Len(q) : rr[i] = IF Traded(q, o, i) > 0
                     THEN <<TakerReport(q, o, i), MakerReport(q, o, i)>> ELSE <<>>
<1> DEFINE rr == [i \in DOMAIN q |-> IF Traded(q, o, i) > 0
                     THEN <<TakerReport(q, o, i), MakerReport(q, o, i)>> ELSE <<>>]
<1>1. Len(q) \in Nat /\ DOMAIN q = 1..Len(q)
  OBVIOUS
<1>2. ASSUME NEW i \in 1..Len(q)
      PROVE  TakerReport(q, o, i) \in OutRec /\ MakerReport(q, o, i) \in OutRec
  <2>1. q[i].client_id \in Ids /\ q[i].price \in Prices /\ q[i].seq \in Int
    <3>1. q[i] \in RestRec
      OBVIOUS
    <3>2. QED
      BY <3>1 DEF RestRec
  <2>2. o.client_id \in Ids /\ o.side \in Side /\ o.seq \in Int /\ o.qty \in Nat
    BY DEF OrdRec, Ids
  <2>3. Traded(q, o, i) \in Nat
    <3>1. Traded(q, o, i) \in 0..o.qty
      BY <2>2, TradedBounds
    <3>2. QED
      BY <2>2, <3>1
  <2>4. OppSide(o.side) \in Side /\ "kSuccess" \in ResultType
    BY <2>2, Opposite DEF ResultType
  <2>5. QED
    BY <2>1, <2>2, <2>3, <2>4 DEF TakerReport, MakerReport, Result, OutRec
<1>3. \A i \in 1..Len(q) : (IF Traded(q, o, i) > 0
         THEN <<TakerReport(q, o, i), MakerReport(q, o, i)>> ELSE <<>>) \in Seq(OutRec)
  BY <1>2
<1>4. /\ rr \in Seq(Seq(OutRec)) /\ Len(rr) = Len(q)
      /\ \A i \in 1..Len(q) : rr[i] = IF Traded(q, o, i) > 0
                     THEN <<TakerReport(q, o, i), MakerReport(q, o, i)>> ELSE <<>>
  BY <1>1, <1>3
<1>5. TradeReports(q, o) = FlattenSeq(rr)
  BY Zenon DEF TradeReports
<1> HIDE DEF rr
<1>6. QED
  BY <1>2, <1>4, <1>5

\* A fill of n lots, as a process is told of it.
FillRec(n) == [type |-> "kSuccess", qty |-> n]

\* What process c is told, on side s, of the trade of o with q[i].
Receives(c, s, q, o, i) ==
    OneIf(Traded(q, o, i) > 0 /\ c = (IF s = o.side THEN o.client_id ELSE q[i].client_id),
          FillRec(Traded(q, o, i)))

(***************************************************************************)
(* Makers are told on the opposite side of what each of them trades, the   *)
(* taker on its own side of everything.                                    *)
(***************************************************************************)
LEMMA ToldOfTrade ==
    ASSUME NEW c, NEW s \in Side, NEW q \in Seq(RestRec), NEW o \in OrdRec
    PROVE  /\ TradeReports(q, o) \in Seq(OutRec)
           /\ \E vv \in Seq(Seq(TypeRec)) :
                /\ ToldTo(c, s, TradeReports(q, o)) = FlattenSeq(vv) /\ Len(vv) = Len(q)
                /\ \A i \in 1..Len(q) : vv[i] = Receives(c, s, q, o, i)
<1>1. PICK rr \in Seq(Seq(OutRec)) :
        /\ TradeReports(q, o) = FlattenSeq(rr) /\ Len(rr) = Len(q)
        /\ \A i \in 1..Len(q) : rr[i] = IF Traded(q, o, i) > 0
             THEN <<TakerReport(q, o, i), MakerReport(q, o, i)>> ELSE <<>>
  BY ReportParts
<1>2. TradeReports(q, o) \in Seq(OutRec)
  BY <1>1, FlattenTyped
<1> DEFINE vv == [i \in DOMAIN rr |-> Through(Told(c, s), rr[i])]
<1>3. vv \in Seq(Seq(TypeRec)) /\ Len(vv) = Len(q) /\ \A i \in 1..Len(q) : vv[i] = Through(Told(c, s), rr[i])
  <2>1. DOMAIN rr = 1..Len(q) /\ Len(q) \in Nat /\ \A i \in 1..Len(q) : rr[i] \in Seq(OutRec)
    BY <1>1
  <2>2. \A i \in 1..Len(q) : Through(Told(c, s), rr[i]) \in Seq(TypeRec)
    BY <2>1, ToldIs, ThroughTyped
  <2>3. QED
    BY <2>1, <2>2
<1>4. ToldTo(c, s, TradeReports(q, o)) = FlattenSeq(vv)
  <2>1. Through(Told(c, s), FlattenSeq(rr)) = FlattenSeq(vv)
    BY ToldIs, ThroughFlatten
  <2> HIDE DEF vv
  <2>2. QED
    BY <1>1, <1>2, <2>1, ToldIs
<1> HIDE DEF vv
<1>5. ASSUME NEW i \in 1..Len(q)
      PROVE  vv[i] = Receives(c, s, q, o, i)
  <2>1. CASE Traded(q, o, i) > 0
    <3>1. PICK x \in OutRec, y \in OutRec : x = TakerReport(q, o, i) /\ y = MakerReport(q, o, i)
      BY ReportParts
    <3>2. rr[i] = <<x, y>>
      BY <1>1, <2>1, <3>1
    <3>3. PICK a \in Seq(OutRec), b \in Seq(OutRec) : a = <<x>> /\ b = <<y>>
      <4>1. <<x>> \in Seq(OutRec) /\ <<y>> \in Seq(OutRec)
        OBVIOUS
      <4>2. QED
        BY <4>1, Zenon
    <3>4. <<x, y>> = Cat(a, b)
      BY <3>3, ConcatTwo DEF Cat
    <3>5. Through(Told(c, s), a) = Told(c, s)[x] /\ Through(Told(c, s), b) = Told(c, s)[y]
      BY <3>3, ToldIs, ThroughOne
    <3>6. vv[i] = Cat(Told(c, s)[x], Told(c, s)[y])
      <4>1. Through(Told(c, s), Cat(a, b)) = Cat(Through(Told(c, s), a), Through(Told(c, s), b))
        BY ToldIs, ThroughCat
      <4>2. rr[i] = Cat(a, b)
        BY <3>2, <3>4
      <4>3. vv[i] = Through(Told(c, s), rr[i])
        BY <1>3
      <4>4. QED
        BY <3>5, <4>1, <4>2, <4>3
    <3>7. /\ Told(c, s)[x] = OneIf(o.client_id = c /\ o.side = s, FillRec(Traded(q, o, i)))
          /\ Told(c, s)[y] = OneIf(q[i].client_id = c /\ OppSide(o.side) = s, FillRec(Traded(q, o, i)))
      BY <3>1 DEF Told, TakerReport, MakerReport, Result, FillRec
    <3>8. o.side \in Side
      BY DEF OrdRec
    <3>9. FillRec(Traded(q, o, i)) \in TypeRec
      <4>1. o.qty \in Nat
        BY DEF OrdRec
      <4>2. Traded(q, o, i) \in 0..o.qty
        BY <4>1, TradedBounds
      <4>3. QED
        BY <4>1, <4>2 DEF FillRec, TypeRec, ResultType
    <3>10. PICK f \in TypeRec : f = FillRec(Traded(q, o, i))
      BY <3>9
    <3>11. \A b1, b2 \in BOOLEAN : /\ ~b1 => Cat(OneIf(b1, f), OneIf(b2, f)) = OneIf(b2, f)
                                   /\ ~b2 => Cat(OneIf(b1, f), OneIf(b2, f)) = OneIf(b1, f)
      <4>1. \A w \in BOOLEAN : OneIf(w, f) \in Seq(TypeRec) /\ (~w => OneIf(w, f) = <<>>)
        BY OneIfSeq DEF OneIf
      <4>2. QED
        BY <4>1, CatSeq
    <3>12. CASE s = o.side
      <4>1. OppSide(o.side) # s
        BY <3>8, <3>12, Opposite
      <4>2. QED
        BY <2>1, <3>6, <3>7, <3>10, <3>11, <3>12, <4>1 DEF Receives
    <3>13. CASE s # o.side
      <4>1. OppSide(o.side) = s
        BY <3>8, <3>13, Opposite
      <4>2. QED
        BY <2>1, <3>6, <3>7, <3>10, <3>11, <3>13, <4>1 DEF Receives
    <3>14. QED
      BY <3>12, <3>13
  <2>2. CASE ~(Traded(q, o, i) > 0)
    <3>1. rr[i] = <<>>
      BY <1>1, <2>2
    <3>2. QED
      BY <1>3, <2>2, <3>1, ThroughEmpty DEF OneIf, Receives
  <2>3. QED
    BY <2>1, <2>2
<1>6. QED
  BY <1>2, <1>3, <1>4, <1>5

\* Nothing of process c is traded in q, and told is empty.
NotFilled(c, q, o, told) == RestingFor(c, AfterTrade(q, o)) = RestingFor(c, q) /\ told = <<>>

\* Lots of its order are traded, and told says how many.
Filled(c, q, o, told) ==
    \E b \in BookRec : \E n \in 1..b.qty :
        /\ RestingFor(c, q) = <<b>> /\ told = <<FillRec(n)>>
        /\ RestingFor(c, AfterTrade(q, o)) =
             OneIf(n < b.qty, [price |-> b.price, qty |-> b.qty - n])

(***************************************************************************)
(* A maker: its order is filled by what it trades, and it is told.         *)
(***************************************************************************)
LEMMA MakerLine ==
    ASSUME NEW c, NEW q \in Seq(RestRec), NEW o \in OrdRec, Len(RestingFor(c, q)) <= 1
    PROVE  \/ NotFilled(c, q, o, ToldTo(c, OppSide(o.side), TradeReports(q, o)))
           \/ Filled(c, q, o, ToldTo(c, OppSide(o.side), TradeReports(q, o)))
<1> DEFINE s == OppSide(o.side)
<1>1. o.side \in Side /\ o.qty \in Nat /\ s \in Side /\ s # o.side
  <2>1. o.side \in Side /\ o.qty \in Nat
    BY DEF OrdRec
  <2>2. QED
    BY <2>1, Opposite
<1> HIDE DEF s
<1>2. PICK vv \in Seq(Seq(TypeRec)) :
        /\ ToldTo(c, s, TradeReports(q, o)) = FlattenSeq(vv) /\ Len(vv) = Len(q)
        /\ \A i \in 1..Len(q) : vv[i] = Receives(c, s, q, o, i)
  BY <1>1, ToldOfTrade
<1>3. \A i \in 1..Len(q) :
        vv[i] = OneIf(Traded(q, o, i) > 0 /\ c = q[i].client_id, FillRec(Traded(q, o, i)))
  BY <1>1, <1>2 DEF Receives
<1>4. CASE Untouched(c, q, o)
  <2>1. \A i \in 1..Len(vv) : vv[i] = <<>>
    BY <1>2, <1>3, <1>4 DEF OneIf, Untouched
  <2>2. FlattenSeq(vv) = <<>>
    BY <2>1, FlattenNone
  <2>3. QED
    BY <1>2, <1>4, <2>2 DEF s, Untouched, NotFilled
<1>5. ASSUME NEW k \in 1..Len(q), MakerAt(c, q, o, k)
      PROVE  \/ NotFilled(c, q, o, ToldTo(c, s, TradeReports(q, o)))
             \/ Filled(c, q, o, ToldTo(c, s, TradeReports(q, o)))
  <2>1. FlattenSeq(vv) = vv[k]
    <3>1. k \in 1..Len(vv) /\ \A i \in 1..Len(vv) : i # k => vv[i] = <<>>
      BY <1>2, <1>3, <1>5 DEF OneIf, MakerAt
    <3>2. QED
      BY <3>1, FlattenOnly
  <2>2. q[k] \in RestRec
    OBVIOUS
  <2>3. PICK t \in 0..q[k].qty : t = Traded(q, o, k)
    BY <1>1, TradedBounds
  <2>4. PICK m \in Nat \ {0} : m = q[k].qty
    BY <2>2 DEF RestRec
  <2>5. PICK b \in BookRec : b = [price |-> q[k].price, qty |-> q[k].qty]
    BY <2>2 DEF RestRec, BookRec
  <2>6. b.qty = m /\ b.price = q[k].price
    BY <2>4, <2>5
  <2>7. CASE t = 0
    <3>1. vv[k] = <<>>
      <4>1. ~(Traded(q, o, k) > 0)
        BY <2>3, <2>7
      <4>2. QED
        BY <1>3, <4>1 DEF OneIf
    <3>2. RestingFor(c, AfterTrade(q, o)) = <<b>>
      <4>1. Traded(q, o, k) < q[k].qty /\ q[k].qty - Traded(q, o, k) = q[k].qty
        BY <2>3, <2>4, <2>7
      <4>2. QED
        BY <1>5, <2>5, <4>1 DEF OneIf, MakerAt
    <3>3. QED
      BY <1>2, <1>5, <2>1, <2>5, <3>1, <3>2 DEF MakerAt, NotFilled
  <2>8. CASE t # 0
    <3>1. t \in 1..b.qty /\ t > 0
      BY <2>3, <2>4, <2>6, <2>8
    <3>2. vv[k] = <<FillRec(t)>>
      BY <1>3, <1>5, <2>3, <3>1 DEF OneIf, MakerAt
    <3>3. RestingFor(c, AfterTrade(q, o)) = OneIf(t < b.qty, [price |-> b.price, qty |-> b.qty - t])
      BY <1>5, <2>3, <2>4, <2>6 DEF MakerAt
    <3>4. QED
      BY <1>2, <1>5, <2>1, <2>5, <3>1, <3>2, <3>3 DEF MakerAt, Filled
  <2>9. QED
    BY <2>7, <2>8
<1>6. Untouched(c, q, o) \/ \E k \in 1..Len(q) : MakerAt(c, q, o, k)
  BY <1>1, RestingAfterTrade
<1>7. QED
  BY <1>4, <1>5, <1>6 DEF s

(***************************************************************************)
(* Nobody but the taker is told on its side.                               *)
(***************************************************************************)
LEMMA BystanderLine ==
    ASSUME NEW c, NEW q \in Seq(RestRec), NEW o \in OrdRec, c # o.client_id
    PROVE  ToldTo(c, o.side, TradeReports(q, o)) = <<>>
<1>1. o.side \in Side
  BY DEF OrdRec
<1>2. PICK vv \in Seq(Seq(TypeRec)) :
        /\ ToldTo(c, o.side, TradeReports(q, o)) = FlattenSeq(vv) /\ Len(vv) = Len(q)
        /\ \A i \in 1..Len(q) : vv[i] = Receives(c, o.side, q, o, i)
  BY <1>1, ToldOfTrade
<1>3. \A i \in 1..Len(vv) : vv[i] = <<>>
  BY <1>2 DEF OneIf, Receives
<1>4. QED
  BY <1>2, <1>3, FlattenNone

\* What the instance calls a result is one.
LEMMA SameResults == P!ResultRec = TypeRec /\ \A n : P!ResultOf("kSuccess", n) = FillRec(n)
BY DEF P!ResultRec, P!ResultType, TypeRec, ResultType, P!ResultOf, FillRec

\* The fills of a taker.
FillRecs(n) == [type : {"kSuccess"}, qty : 1..n]

(***************************************************************************)
(* The taker is told of fills that add up to what it has traded.           *)
(***************************************************************************)
LEMMA TakerLine ==
    ASSUME NEW q \in Seq(RestRec), NEW o \in OrdRec
    PROVE  LET told == ToldTo(o.client_id, o.side, TradeReports(q, o))
           IN  /\ TotalTraded(q, o) \in 0..o.qty
               /\ told \in Seq(FillRecs(o.qty)) /\ Len(told) <= TotalTraded(q, o)
               /\ P!FilledBy(told) = TotalTraded(q, o)
<1>1. o.side \in Side /\ o.qty \in Nat /\ Len(q) \in Nat
  BY DEF OrdRec
<1>2. PICK vv \in Seq(Seq(TypeRec)) :
        /\ ToldTo(o.client_id, o.side, TradeReports(q, o)) = FlattenSeq(vv) /\ Len(vv) = Len(q)
        /\ \A i \in 1..Len(q) : vv[i] = Receives(o.client_id, o.side, q, o, i)
  BY <1>1, ToldOfTrade
<1>3. \A i \in 1..Len(q) : vv[i] = OneIf(Traded(q, o, i) > 0, FillRec(Traded(q, o, i)))
  BY <1>2 DEF Receives
<1>4. \A i \in 1..Len(q) : vv[i] \in Seq(FillRecs(o.qty))
  <2> TAKE i \in 1..Len(q)
  <2>1. Traded(q, o, i) \in 0..o.qty
    BY <1>1, TradedBounds
  <2>2. Traded(q, o, i) > 0 => FillRec(Traded(q, o, i)) \in FillRecs(o.qty)
    BY <1>1, <2>1 DEF FillRec, FillRecs
  <2>3. (Traded(q, o, i) > 0) \in BOOLEAN
    OBVIOUS
  <2>4. OneIf(Traded(q, o, i) > 0, FillRec(Traded(q, o, i))) \in Seq(FillRecs(o.qty))
    BY <2>2, <2>3, OneIfSeq
  <2>5. QED
    BY <1>3, <2>4
<1> DEFINE first(k) == SubSeq(vv, 1, k)
           G == {k \in 0..Len(q) : /\ P!FilledBy(FlattenSeq(first(k))) = TradedUpTo(q, o, k)
                                   /\ Len(FlattenSeq(first(k))) <= TradedUpTo(q, o, k)}
<1>5. 0 \in G
  <2>1. first(0) = <<>>
    OBVIOUS
  <2>2. TradedUpTo(q, o, 0) = 0
    BY TradedStep
  <2>3. P!FilledBy(<<>>) = 0
    <3>1. <<>> \in Seq(P!ResultRec) /\ Len(<<>>) = 0
      OBVIOUS
    <3>2. QED
      BY <3>1, P!FilledStep DEF P!FilledBy
  <2>4. Len(<<>>) = 0 /\ 0 \in 0..Len(q)
    BY <1>1
  <2>5. P!FilledBy(FlattenSeq(first(0))) = 0 /\ Len(FlattenSeq(first(0))) = 0
    BY <2>1, <2>3, <2>4, FlattenEmpty
  <2> HIDE DEF first
  <2>6. QED
    BY <2>2, <2>4, <2>5
<1>6. ASSUME NEW k \in 1..Len(q), k - 1 \in G
      PROVE  k \in G
  <2>1. first(k) = Append(first(k - 1), vv[k]) /\ first(k - 1) \in Seq(Seq(TypeRec))
    <3>1. first(k) = first(k - 1) \o <<vv[k]>> /\ first(k - 1) \in Seq(Seq(TypeRec))
      BY <1>2, SubSeqRecursiveSecond
    <3>2. vv[k] \in Seq(TypeRec)
      BY <1>2
    <3>3. QED
      BY <3>1, <3>2, AppendIsConcat
  <2>2. PICK a \in Seq(TypeRec) : a = FlattenSeq(first(k - 1))
    BY <2>1, FlattenTyped
  <2>3. vv[k] \in Seq(TypeRec)
    BY <1>2
  <2>4. FlattenSeq(first(k)) = Cat(a, vv[k])
    <3> HIDE DEF first
    <3>1. QED
      BY <2>1, <2>2, <2>3, FlattenAppend
  <2>5. /\ P!FilledBy(a) = TradedUpTo(q, o, k - 1) /\ Len(a) <= TradedUpTo(q, o, k - 1)
    BY <1>6, <2>2
  <2>6. /\ TradedUpTo(q, o, k - 1) \in 0..o.qty /\ Traded(q, o, k) \in 0..o.qty
        /\ TradedUpTo(q, o, k) = TradedUpTo(q, o, k - 1) + Traded(q, o, k)
    BY <1>1, TradedBounds
  <2>7. k \in 0..Len(q)
    OBVIOUS
  <2> HIDE DEF first
  <2>8. CASE Traded(q, o, k) > 0
    <3>1. PICK x \in TypeRec : x = FillRec(Traded(q, o, k))
      <4>1. Traded(q, o, k) \in Nat
        BY <1>1, <2>6
      <4>2. FillRec(Traded(q, o, k)) \in TypeRec
        BY <4>1 DEF FillRec, TypeRec, ResultType
      <4>3. QED
        BY <4>2
    <3>2. Cat(a, vv[k]) = Append(a, x)
      <4>1. vv[k] = <<x>>
        BY <1>3, <2>8, <3>1 DEF OneIf
      <4>2. QED
        BY <4>1, AppendIsConcat DEF Cat
    <3>3. P!FilledBy(Append(a, x)) = P!FilledBy(a) + P!FillOf(x)
      BY SameResults, P!FilledAppend
    <3>4. P!FillOf(x) = Traded(q, o, k)
      BY <3>1 DEF P!FillOf, FillRec
    <3>5. Len(Append(a, x)) = Len(a) + 1 /\ Len(a) \in Nat
      OBVIOUS
    <3>6. Len(a) + 1 <= TradedUpTo(q, o, k - 1) + Traded(q, o, k)
      BY <1>1, <2>5, <2>6, <2>8, <3>5
    <3>7. QED
      BY <2>4, <2>5, <2>6, <2>7, <3>2, <3>3, <3>4, <3>5, <3>6
  <2>9. CASE ~(Traded(q, o, k) > 0)
    <3>1. vv[k] = <<>>
      BY <1>3, <2>9 DEF OneIf
    <3>2. Cat(a, vv[k]) = a
      BY <3>1, CatSeq
    <3>3. TradedUpTo(q, o, k) = TradedUpTo(q, o, k - 1)
      BY <1>1, <2>6, <2>9
    <3>4. QED
      BY <2>4, <2>5, <2>7, <3>2, <3>3
  <2>10. QED
    BY <2>8, <2>9
<1>7. Len(q) \in G
  <2> HIDE DEF G
  <2>1. Len(q) \in 0..Len(q)
    BY <1>1
  <2>2. QED
    BY <1>1, <1>5, <1>6, <2>1, UpToInduction
<1>8. first(Len(q)) = vv
  BY <1>2, SubSeqFull
<1>9. vv \in Seq(Seq(FillRecs(o.qty)))
  <2>1. Len(vv) \in Nat /\ DOMAIN vv = 1..Len(vv)
    OBVIOUS
  <2>2. QED
    BY <1>2, <1>4, <2>1
<1>10. FlattenSeq(vv) \in Seq(FillRecs(o.qty))
  BY <1>9, FlattenTyped
<1>11. TotalTraded(q, o) \in 0..o.qty
  <2>1. Len(q) \in 0..Len(q)
    BY <1>1
  <2>2. QED
    BY <1>1, <2>1, TradedBounds DEF TotalTraded
<1>12. QED
  BY <1>2, <1>7, <1>8, <1>10, <1>11 DEF TotalTraded

-----------------------------------------------------------------------------
(* What PushOrder makes of order o on queues qs, seen from side s of        *)
(* process c.                                                               *)

\* Nothing happens to it.
LineUntouched(c, s, qs, out) ==
    RestingFor(c, out.queue[s]) = RestingFor(c, qs[s]) /\ ToldTo(c, s, out.out) = <<>>

\* n lots of the one order that rests are filled.
LineFilled(c, s, qs, out) ==
    \E b \in BookRec : \E n \in 1..b.qty :
        /\ RestingFor(c, qs[s]) = <<b>> /\ ToldTo(c, s, out.out) = <<FillRec(n)>>
        /\ RestingFor(c, out.queue[s]) =
             OneIf(n < b.qty, [price |-> b.price, qty |-> b.qty - n])

\* Its cancel finds the order that rests, or not.
LineCancelled(c, s, qs, o, out) ==
    LET rest  == RestingFor(c, qs[s])
        found == rest # <<>> /\ Head(rest).price = o.price
    IN  /\ RestingFor(c, out.queue[s]) = IF found THEN <<>> ELSE rest
        /\ ToldTo(c, s, out.out) =
             <<[type |-> IF found THEN "kCancelled" ELSE "kReject", qty |-> 0]>>

\* Its new order trades, and what is left of it rests.
LineExecuted(c, s, qs, o, out) ==
    \E told \in Seq(FillRecs(o.qty)) :
      LET left == o.qty - P!FilledBy(told)
      IN  /\ Len(told) <= o.qty
          /\ \/ /\ left = 0 /\ ToldTo(c, s, out.out) = told
                /\ RestingFor(c, out.queue[s]) = RestingFor(c, qs[s])
             \/ /\ left > 0
                /\ ToldTo(c, s, out.out) = Append(told, [type |-> "kAccepted", qty |-> left])
                /\ RestingFor(c, out.queue[s]) = <<[price |-> o.price, qty |-> left]>>

Queues == [Side -> Seq(RestRec)]

\* o is an order of the line.
Own(c, s, o) == c = o.client_id /\ s = o.side

(***************************************************************************)
(* One result tells its process, on its side.                              *)
(***************************************************************************)
LEMMA ToldOne ==
    ASSUME NEW c, NEW s \in Side, NEW r \in OutRec
    PROVE  /\ <<r>> \in Seq(OutRec)
           /\ ToldTo(c, s, <<r>>) =
                OneIf(r.client_id = c /\ r.side = s, [type |-> r.type, qty |-> r.qty])
<1>1. <<r>> \in Seq(OutRec)
  OBVIOUS
<1>2. Through(Told(c, s), <<r>>) = Told(c, s)[r]
  BY ToldIs, ThroughOne
<1>3. ToldTo(c, s, <<r>>) = Told(c, s)[r]
  BY <1>1, <1>2, ToldIs
<1>4. QED
  BY <1>1, <1>3 DEF Told

(***************************************************************************)
(* The engine's report about the order itself.                             *)
(***************************************************************************)
LEMMA ReportIs ==
    ASSUME NEW o \in OrdRec, NEW type \in ResultType, NEW n \in Nat
    PROVE  /\ Report(o, type, n) \in OutRec
           /\ Report(o, type, n).client_id = o.client_id /\ Report(o, type, n).side = o.side
           /\ Report(o, type, n).type = type /\ Report(o, type, n).qty = n
BY DEF Report, Result, OutRec, OrdRec, Ids, Prices

\* The order that a cancel finds.
Matches(q, o) == {i \in 1..Len(q) : q[i].client_id = o.client_id /\ q[i].price = o.price}

\* CancelOutcome finds an order of its process at its price, if there is one.
LEMMA CancelFinds ==
    ASSUME NEW qs \in Queues, NEW o \in OrdRec
    PROVE  \/ /\ Matches(qs[o.side], o) = {}
              /\ CancelOutcome(qs, o) = [queue |-> qs, out |-> <<Report(o, "kReject", 0)>>, dirty |-> FALSE]
           \/ \E i \in Matches(qs[o.side], o) :
                CancelOutcome(qs, o) = [queue |-> [qs EXCEPT ![o.side] = RemoveAt(@, i)],
                                        out |-> <<Report(o, "kCancelled", 0)>>, dirty |-> TRUE]
<1> DEFINE q == qs[o.side]
           i == SelectInSeq(q, LAMBDA r : r.client_id = o.client_id /\ r.price = o.price)
<1>1. i = IF Matches(q, o) # {} THEN Min(Matches(q, o)) ELSE 0
  BY DEF SelectInSeq, Matches
<1>2. CancelOutcome(qs, o) =
        IF i = 0
        THEN [queue |-> qs, out |-> <<Report(o, "kReject", 0)>>, dirty |-> FALSE]
        ELSE [queue |-> [qs EXCEPT ![o.side] = RemoveAt(@, i)],
              out |-> <<Report(o, "kCancelled", 0)>>, dirty |-> TRUE]
  BY Zenon DEF CancelOutcome
<1> HIDE DEF i
<1>3. CASE Matches(q, o) = {}
  BY <1>1, <1>2, <1>3
<1>4. CASE Matches(q, o) # {}
  <2>1. Matches(q, o) \subseteq Nat \ {0}
    BY DEF Matches
  <2>2. \E m \in Matches(q, o) : \A n \in Matches(q, o) : m <= n
    BY <1>4, <2>1, LeastNat
  <2>3. Min(Matches(q, o)) \in Matches(q, o)
    BY <2>2 DEF Min
  <2>4. i \in Matches(q, o) /\ i # 0
    BY <1>1, <1>4, <2>1, <2>3
  <2>5. QED
    BY <1>2, <2>4
<1>5. QED
  BY <1>3, <1>4

(***************************************************************************)
(* A cancel is answered to its process and touches nobody else.            *)
(***************************************************************************)
LEMMA CancelLine ==
    ASSUME NEW c, NEW s \in Side, NEW qs \in Queues, NEW o \in OrdRec,
           Len(RestingFor(c, qs[s])) <= 1
    PROVE  /\ CancelOutcome(qs, o).queue \in Queues
           /\ CancelOutcome(qs, o).out \in Seq(OutRec)
           /\ IF Own(c, s, o) THEN LineCancelled(c, s, qs, o, CancelOutcome(qs, o))
              ELSE LineUntouched(c, s, qs, CancelOutcome(qs, o))
<1>1. o.side \in Side /\ qs[o.side] \in Seq(RestRec) /\ qs[s] \in Seq(RestRec)
  BY DEF OrdRec, Queues
<1>2. "kReject" \in ResultType /\ "kCancelled" \in ResultType
  BY DEF ResultType
<1>3. ASSUME Matches(qs[o.side], o) = {},
             CancelOutcome(qs, o) = [queue |-> qs, out |-> <<Report(o, "kReject", 0)>>, dirty |-> FALSE]
      PROVE  /\ CancelOutcome(qs, o).queue \in Queues
             /\ CancelOutcome(qs, o).out \in Seq(OutRec)
             /\ IF Own(c, s, o) THEN LineCancelled(c, s, qs, o, CancelOutcome(qs, o))
                ELSE LineUntouched(c, s, qs, CancelOutcome(qs, o))
  <2>1. PICK r \in OutRec : /\ r = Report(o, "kReject", 0) /\ r.client_id = o.client_id
                            /\ r.side = o.side /\ r.type = "kReject" /\ r.qty = 0
    BY <1>2, ReportIs
  <2>2. CancelOutcome(qs, o).queue = qs /\ CancelOutcome(qs, o).out = <<r>>
    BY <1>3, <2>1
  <2>3. <<r>> \in Seq(OutRec) /\ ToldTo(c, s, <<r>>) = OneIf(Own(c, s, o), [type |-> "kReject", qty |-> 0])
    BY <2>1, ToldOne DEF Own
  <2>4. ASSUME Own(c, s, o), RestingFor(c, qs[s]) # <<>>
        PROVE  Head(RestingFor(c, qs[s])).price # o.price
    <3>1. PICK k \in 1..Len(qs[s]) :
            /\ qs[s][k].client_id = c
            /\ RestingFor(c, qs[s]) = <<[price |-> qs[s][k].price, qty |-> qs[s][k].qty]>>
      BY <1>1, <2>4, WhereItRests
    <3>2. qs[s][k].price # o.price
      BY <1>3, <2>4, <3>1 DEF Own, Matches
    <3>3. QED
      BY <3>1, <3>2
  <2>5. QED
    BY <2>2, <2>3, <2>4 DEF LineCancelled, LineUntouched, OneIf
<1>4. ASSUME NEW i \in Matches(qs[o.side], o),
             CancelOutcome(qs, o) = [queue |-> [qs EXCEPT ![o.side] = RemoveAt(@, i)],
                                     out |-> <<Report(o, "kCancelled", 0)>>, dirty |-> TRUE]
      PROVE  /\ CancelOutcome(qs, o).queue \in Queues
             /\ CancelOutcome(qs, o).out \in Seq(OutRec)
             /\ IF Own(c, s, o) THEN LineCancelled(c, s, qs, o, CancelOutcome(qs, o))
                ELSE LineUntouched(c, s, qs, CancelOutcome(qs, o))
  <2>1. PICK r \in OutRec : /\ r = Report(o, "kCancelled", 0) /\ r.client_id = o.client_id
                            /\ r.side = o.side /\ r.type = "kCancelled" /\ r.qty = 0
    BY <1>2, ReportIs
  <2>2. <<r>> \in Seq(OutRec)
        /\ ToldTo(c, s, <<r>>) = OneIf(Own(c, s, o), [type |-> "kCancelled", qty |-> 0])
    BY <2>1, ToldOne DEF Own
  <2>3. PICK q \in Seq(RestRec) : q = qs[o.side]
    BY <1>1
  <2>4. i \in 1..Len(q) /\ q[i].client_id = o.client_id /\ q[i].price = o.price
    BY <2>3 DEF Matches
  <2>5. PICK w \in Seq(RestRec) : w = RemoveAt(q, i)
    BY <2>4, RestingWithout
  <2>6. PICK left \in Queues : /\ left = [qs EXCEPT ![o.side] = w] /\ left[o.side] = w
                               /\ s # o.side => left[s] = qs[s]
    <3>1. [qs EXCEPT ![o.side] = w] \in Queues
      BY <1>1 DEF Queues
    <3>2. QED
      BY <1>1, <3>1 DEF Queues
  <2>7. CancelOutcome(qs, o).queue = left /\ CancelOutcome(qs, o).out = <<r>>
    BY <1>4, <2>1, <2>3, <2>5, <2>6
  <2>8. CASE Own(c, s, o)
    <3>1. /\ RestingFor(c, q) = <<[price |-> q[i].price, qty |-> q[i].qty]>>
          /\ RestingFor(c, w) = <<>>
      BY <2>3, <2>4, <2>5, <2>8, RestingWithout DEF Own
    <3>2. RestingFor(c, q) # <<>> /\ Head(RestingFor(c, q)).price = o.price
      <4>1. PICK b \in BookRec : b = [price |-> q[i].price, qty |-> q[i].qty] /\ b.price = o.price
        <5>1. q[i] \in RestRec
          BY <2>4
        <5>2. [price |-> q[i].price, qty |-> q[i].qty] \in BookRec
          BY <5>1 DEF RestRec, BookRec
        <5>3. QED
          BY <2>4, <5>2
      <4>2. RestingFor(c, q) = <<b>>
        BY <3>1, <4>1
      <4>3. <<b>> # <<>> /\ Head(<<b>>) = b
        OBVIOUS
      <4>4. QED
        BY <4>1, <4>2, <4>3
    <3>3. qs[s] = q /\ CancelOutcome(qs, o).queue[s] = w
      BY <2>3, <2>6, <2>7, <2>8 DEF Own
    <3>4. LineCancelled(c, s, qs, o, CancelOutcome(qs, o))
      <4>1. ToldTo(c, s, <<r>>) = <<[type |-> "kCancelled", qty |-> 0]>>
        BY <2>2, <2>8 DEF OneIf
      <4>2. QED
        BY <2>7, <3>1, <3>2, <3>3, <4>1 DEF LineCancelled
    <3>5. QED
      BY <2>2, <2>6, <2>7, <2>8, <3>4
  <2>9. CASE ~Own(c, s, o)
    <3>1. RestingFor(c, CancelOutcome(qs, o).queue[s]) = RestingFor(c, qs[s])
      <4>1. CASE s = o.side
        <5>1. q[i].client_id # c
          BY <2>4, <2>9, <4>1 DEF Own
        <5>2. RestingFor(c, w) = RestingFor(c, q)
          BY <2>4, <2>5, <5>1, RestingWithout
        <5>3. QED
          BY <2>3, <2>6, <2>7, <4>1, <5>2
      <4>2. CASE s # o.side
        BY <2>6, <2>7, <4>2
      <4>3. QED
        BY <4>1, <4>2
    <3>2. QED
      BY <2>2, <2>6, <2>7, <2>9, <3>1 DEF LineUntouched, OneIf
  <2>10. QED
    BY <2>8, <2>9
<1>5. QED
  BY <1>3, <1>4, CancelFinds

\* What is told last comes last.
LEMMA ToldAppend ==
    ASSUME NEW c, NEW s \in Side, NEW out \in Seq(OutRec), NEW r \in OutRec
    PROVE  /\ Append(out, r) \in Seq(OutRec)
           /\ ToldTo(c, s, out) \in Seq(TypeRec)
           /\ ToldTo(c, s, Append(out, r)) =
                Cat(ToldTo(c, s, out),
                    OneIf(r.client_id = c /\ r.side = s, [type |-> r.type, qty |-> r.qty]))
<1>1. Append(out, r) \in Seq(OutRec)
  OBVIOUS
<1>2. Maps(Told(c, s), OutRec, TypeRec) /\ ToldTo(c, s, out) = Through(Told(c, s), out)
  BY ToldIs
<1>3. /\ ToldTo(c, s, out) \in Seq(TypeRec)
      /\ Through(Told(c, s), Append(out, r)) = Cat(Through(Told(c, s), out), Told(c, s)[r])
  BY <1>2, ThroughTyped, ThroughAppend
<1>4. Told(c, s)[r] = OneIf(r.client_id = c /\ r.side = s, [type |-> r.type, qty |-> r.qty])
  BY DEF Told
<1>5. ToldTo(c, s, Append(out, r)) = Through(Told(c, s), Append(out, r))
  BY <1>1, ToldIs
<1>6. QED
  BY <1>1, <1>2, <1>3, <1>4, <1>5

\* The queues after a trade, where n lots are left of the order.
TradedQueues(qs, o) == [qs EXCEPT ![OppSide(o.side)] = AfterTrade(@, o)]

\* The rest of o, as it joins the book.
RestOf(o, n) == [client_id |-> o.client_id, price |-> o.price, qty |-> n, seq |-> o.seq]

\* How much of o is left.
LeftOf(qs, o) == o.qty - TotalTraded(qs[OppSide(o.side)], o)

(***************************************************************************)
(* The two outcomes of a trade: the order is used up, or the rest of it    *)
(* joins the book behind a kAccepted.                                      *)
(***************************************************************************)
LEMMA TradeParts ==
    ASSUME NEW qs \in Queues, NEW o \in OrdRec
    PROVE  LET opp   == OppSide(o.side)
               left  == LeftOf(qs, o)
               after == TradedQueues(qs, o)
               out   == TradeOutcome(qs, o)
           IN  /\ left \in 0..o.qty /\ after \in Queues
               /\ after[opp] = AfterTrade(qs[opp], o) /\ after[o.side] = qs[o.side]
               /\ left = 0 => out.queue = after /\ out.out = TradeReports(qs[opp], o)
               /\ left # 0 =>
                    /\ RestOf(o, left) \in RestRec /\ Report(o, "kAccepted", left) \in OutRec
                    /\ out.queue \in Queues
                    /\ out.queue[opp] = after[opp]
                    /\ out.queue[o.side] = Enqueue(qs[o.side], o.side, RestOf(o, left))
                    /\ out.out = Append(TradeReports(qs[opp], o), Report(o, "kAccepted", left))
<1> DEFINE opp   == OppSide(o.side)
           left  == LeftOf(qs, o)
           after == TradedQueues(qs, o)
           out   == TradeOutcome(qs, o)
<1>1. o.side \in Side /\ opp \in Side /\ opp # o.side /\ o.qty \in Nat
  <2>1. o.side \in Side /\ o.qty \in Nat
    BY DEF OrdRec
  <2>2. QED
    BY <2>1, Opposite
<1>2. qs[opp] \in Seq(RestRec) /\ qs[o.side] \in Seq(RestRec)
  BY <1>1 DEF Queues
<1>3. left \in 0..o.qty
  <2>1. TotalTraded(qs[opp], o) \in 0..o.qty
    BY <1>2, TakerLine
  <2>2. QED
    BY <1>1, <2>1 DEF LeftOf
<1>4. AfterTrade(qs[opp], o) \in Seq(RestRec)
  BY <1>1, <1>2, AfterTradeParts, FlattenTyped
<1>5. after \in Queues /\ after[opp] = AfterTrade(qs[opp], o) /\ after[o.side] = qs[o.side]
  BY <1>1, <1>4 DEF Queues, TradedQueues
<1>6. out = IF left = 0
        THEN [queue |-> after, out |-> TradeReports(qs[opp], o), dirty |-> TRUE]
        ELSE [queue |-> [after EXCEPT ![o.side] = Enqueue(@, o.side, RestOf(o, left))],
              out |-> Append(TradeReports(qs[opp], o), Report(o, "kAccepted", left)),
              dirty |-> TRUE]
  BY Zenon DEF TradeOutcome, LeftOf, TradedQueues, RestOf
<1> HIDE DEF opp, left, after, out
<1>7. CASE left = 0
  BY <1>1, <1>3, <1>5, <1>6, <1>7 DEF opp, left, after, out
<1>8. CASE left # 0
  <2>1. left \in Nat \ {0}
    BY <1>1, <1>3, <1>8
  <2>2. RestOf(o, left) \in RestRec
    BY <2>1 DEF RestOf, RestRec, OrdRec, Ids, Prices
  <2>3. "kAccepted" \in ResultType
    BY DEF ResultType
  <2>4. Report(o, "kAccepted", left) \in OutRec
    BY <2>1, <2>3, ReportIs
  <2>5. PICK w \in Seq(RestRec) : w = Enqueue(after[o.side], o.side, RestOf(o, left))
    BY <1>2, <1>5, <2>2, RestingEnqueued
  <2>6. PICK last \in Queues : /\ last = [after EXCEPT ![o.side] = w] /\ last[o.side] = w
                               /\ last[opp] = after[opp]
    <3>1. [after EXCEPT ![o.side] = w] \in Queues
      BY <1>1, <1>5 DEF Queues
    <3>2. QED
      BY <1>1, <1>5, <3>1 DEF Queues
  <2>7. out.queue = last /\ out.out = Append(TradeReports(qs[opp], o), Report(o, "kAccepted", left))
    BY <1>6, <1>8, <2>5, <2>6
  <2>8. QED
    BY <1>3, <1>5, <1>8, <2>2, <2>4, <2>5, <2>6, <2>7 DEF opp, left, after, out
<1>9. QED
  BY <1>7, <1>8

(***************************************************************************)
(* The other side of the book: a process's order is filled, or nothing     *)
(* happens to it.                                                          *)
(***************************************************************************)
LEMMA TradeOpposite ==
    ASSUME NEW c, NEW qs \in Queues, NEW o \in OrdRec,
           Len(RestingFor(c, qs[OppSide(o.side)])) <= 1
    PROVE  \/ LineUntouched(c, OppSide(o.side), qs, TradeOutcome(qs, o))
           \/ LineFilled(c, OppSide(o.side), qs, TradeOutcome(qs, o))
<1> DEFINE out == TradeOutcome(qs, o)
<1>1. PICK opp \in Side : opp = OppSide(o.side) /\ opp # o.side
  <2>1. o.side \in Side
    BY DEF OrdRec
  <2>2. QED
    BY <2>1, Opposite
<1>2. PICK q \in Seq(RestRec) : q = qs[opp]
  BY DEF Queues
<1>3. TradeReports(q, o) \in Seq(OutRec)
  BY <1>1, ToldOfTrade
<1>4. RestingFor(c, out.queue[opp]) = RestingFor(c, AfterTrade(q, o))
  BY <1>1, <1>2, TradeParts
<1>5. ToldTo(c, opp, out.out) = ToldTo(c, opp, TradeReports(q, o))
  <2>1. CASE LeftOf(qs, o) = 0
    BY <1>1, <1>2, <2>1, TradeParts
  <2>2. CASE LeftOf(qs, o) # 0
    <3>1. PICK r \in OutRec : r = Report(o, "kAccepted", LeftOf(qs, o))
      BY <2>2, TradeParts
    <3>2. r.side = o.side
      BY <3>1 DEF Report, Result
    <3>3. out.out = Append(TradeReports(q, o), r)
      BY <1>1, <1>2, <2>2, <3>1, TradeParts
    <3>4. /\ ToldTo(c, opp, Append(TradeReports(q, o), r)) =
               Cat(ToldTo(c, opp, TradeReports(q, o)),
                   OneIf(r.client_id = c /\ r.side = opp, [type |-> r.type, qty |-> r.qty]))
          /\ ToldTo(c, opp, TradeReports(q, o)) \in Seq(TypeRec)
      BY <1>3, ToldAppend
    <3>5. OneIf(r.client_id = c /\ r.side = opp, [type |-> r.type, qty |-> r.qty]) = <<>>
      BY <1>1, <3>2 DEF OneIf
    <3>6. QED
      BY <3>3, <3>4, <3>5, CatSeq
  <2>3. QED
    BY <2>1, <2>2
<1> HIDE DEF out
<1>6. Len(RestingFor(c, q)) <= 1
  BY <1>1, <1>2
<1>7. \/ NotFilled(c, q, o, ToldTo(c, opp, TradeReports(q, o)))
      \/ Filled(c, q, o, ToldTo(c, opp, TradeReports(q, o)))
  BY <1>1, <1>6, MakerLine
<1>8. LineUntouched(c, opp, qs, out) \/ LineFilled(c, opp, qs, out)
  BY <1>2, <1>4, <1>5, <1>7 DEF LineUntouched, LineFilled, NotFilled, Filled
<1>9. QED
  BY <1>1, <1>8 DEF out

(***************************************************************************)
(* The side of the order: nobody else notices.                             *)
(***************************************************************************)
LEMMA TradeBystander ==
    ASSUME NEW c, NEW qs \in Queues, NEW o \in OrdRec, c # o.client_id
    PROVE  LineUntouched(c, o.side, qs, TradeOutcome(qs, o))
<1> DEFINE out == TradeOutcome(qs, o)
           q   == qs[OppSide(o.side)]
<1>1. o.side \in Side /\ q \in Seq(RestRec) /\ qs[o.side] \in Seq(RestRec)
  <2>1. o.side \in Side
    BY DEF OrdRec
  <2>2. QED
    BY <2>1, Opposite DEF Queues
<1> HIDE DEF q
<1>2. TradeReports(q, o) \in Seq(OutRec) /\ ToldTo(c, o.side, TradeReports(q, o)) = <<>>
  BY <1>1, ToldOfTrade, BystanderLine
<1>3. CASE LeftOf(qs, o) = 0
  <2>1. out.queue[o.side] = qs[o.side] /\ out.out = TradeReports(q, o)
    BY <1>3, TradeParts DEF q
  <2>2. QED
    BY <1>2, <2>1 DEF LineUntouched
<1>4. CASE LeftOf(qs, o) # 0
  <2>1. PICK r \in OutRec : r = Report(o, "kAccepted", LeftOf(qs, o))
    BY <1>4, TradeParts
  <2>2. r.client_id # c
    BY <2>1 DEF Report, Result
  <2>3. PICK x \in RestRec : x = RestOf(o, LeftOf(qs, o)) /\ x.client_id # c
    <3>1. RestOf(o, LeftOf(qs, o)) \in RestRec
      BY <1>4, TradeParts
    <3>2. RestOf(o, LeftOf(qs, o)).client_id # c
      BY DEF RestOf
    <3>3. QED
      BY <3>1, <3>2
  <2>4. out.queue[o.side] = Enqueue(qs[o.side], o.side, x) /\ out.out = Append(TradeReports(q, o), r)
    BY <1>4, <2>1, <2>3, TradeParts DEF q
  <2>5. RestingFor(c, Enqueue(qs[o.side], o.side, x)) = RestingFor(c, qs[o.side])
    BY <1>1, <2>3, RestingEnqueued
  <2>6. ToldTo(c, o.side, Append(TradeReports(q, o), r)) =
          Cat(<<>>, OneIf(r.client_id = c /\ r.side = o.side, [type |-> r.type, qty |-> r.qty]))
    BY <1>1, <1>2, ToldAppend
  <2>7. OneIf(r.client_id = c /\ r.side = o.side, [type |-> r.type, qty |-> r.qty]) = <<>>
    BY <2>2 DEF OneIf
  <2>8. Cat(<<>>, <<>>) = <<>>
    <3>1. <<>> \in Seq(OutRec)
      OBVIOUS
    <3>2. QED
      BY <3>1, CatSeq
  <2>9. QED
    BY <2>4, <2>5, <2>6, <2>7, <2>8 DEF LineUntouched
<1>5. QED
  BY <1>3, <1>4

(***************************************************************************)
(* The order itself.                                                       *)
(***************************************************************************)
LEMMA TradeTaker ==
    ASSUME NEW qs \in Queues, NEW o \in OrdRec, RestingFor(o.client_id, qs[o.side]) = <<>>
    PROVE  LineExecuted(o.client_id, o.side, qs, o, TradeOutcome(qs, o))
<1> DEFINE out == TradeOutcome(qs, o)
           q   == qs[OppSide(o.side)]
           c   == o.client_id
<1>1. o.side \in Side /\ q \in Seq(RestRec) /\ qs[o.side] \in Seq(RestRec) /\ o.qty \in Nat
  <2>1. o.side \in Side /\ o.qty \in Nat
    BY DEF OrdRec
  <2>2. QED
    BY <2>1, Opposite DEF Queues
<1> HIDE DEF q
<1>2. TradeReports(q, o) \in Seq(OutRec)
  BY <1>1, ToldOfTrade
<1>3. PICK told \in Seq(FillRecs(o.qty)) :
        /\ told = ToldTo(c, o.side, TradeReports(q, o))
        /\ Len(told) <= TotalTraded(q, o) /\ P!FilledBy(told) = TotalTraded(q, o)
  BY <1>1, TakerLine
<1>4. TotalTraded(q, o) \in 0..o.qty /\ LeftOf(qs, o) = o.qty - P!FilledBy(told)
  BY <1>1, <1>3, TakerLine DEF LeftOf, q
<1>5. Len(told) <= o.qty
  <2>1. PICK n \in Nat : n = Len(told)
    OBVIOUS
  <2>2. QED
    BY <1>1, <1>3, <1>4, <2>1
<1>6. CASE LeftOf(qs, o) = 0
  <2>1. out.queue[o.side] = qs[o.side] /\ out.out = TradeReports(q, o)
    BY <1>6, TradeParts DEF q
  <2>2. QED
    BY <1>3, <1>4, <1>5, <1>6, <2>1 DEF LineExecuted
<1>7. CASE LeftOf(qs, o) # 0
  <2>0. LeftOf(qs, o) \in 0..o.qty
    BY TradeParts
  <2>1. PICK left \in Nat \ {0} : left = LeftOf(qs, o) /\ left > 0
    BY <1>1, <1>7, <2>0
  <2>2. PICK r \in OutRec : r = Report(o, "kAccepted", left)
    BY <1>7, <2>1, TradeParts
  <2>3. r.client_id = c /\ r.side = o.side /\ [type |-> r.type, qty |-> r.qty] = [type |-> "kAccepted", qty |-> left]
    BY <2>2 DEF Report, Result
  <2>4. PICK x \in RestRec : x = RestOf(o, left) /\ x.client_id = c /\ x.price = o.price /\ x.qty = left
    <3>1. RestOf(o, left) \in RestRec
      BY <1>7, <2>1, TradeParts
    <3>2. RestOf(o, left).client_id = c /\ RestOf(o, left).price = o.price /\ RestOf(o, left).qty = left
      BY DEF RestOf
    <3>3. QED
      BY <3>1, <3>2
  <2>5. out.queue[o.side] = Enqueue(qs[o.side], o.side, x) /\ out.out = Append(TradeReports(q, o), r)
    BY <1>7, <2>1, <2>2, <2>4, TradeParts DEF q
  <2>6. RestingFor(c, out.queue[o.side]) = <<[price |-> o.price, qty |-> left]>>
    BY <1>1, <2>4, <2>5, RestingEnqueued
  <2>7. PICK y \in TypeRec : y = [type |-> "kAccepted", qty |-> left]
    BY <2>1 DEF TypeRec, ResultType
  <2>8. ToldTo(c, o.side, out.out) = Append(told, y)
    <3>1. ToldTo(c, o.side, Append(TradeReports(q, o), r)) =
            Cat(told, OneIf(r.client_id = c /\ r.side = o.side, [type |-> r.type, qty |-> r.qty]))
          /\ told \in Seq(TypeRec)
      <4>1. PICK reports \in Seq(OutRec) : reports = TradeReports(q, o)
        BY <1>2
      <4>2. told = ToldTo(c, o.side, reports)
        BY <1>3, <4>1
      <4>3. PICK d \in Side : d = o.side
        BY <1>1
      <4> HIDE DEF c
      <4>4. /\ ToldTo(c, d, Append(reports, r)) =
                 Cat(ToldTo(c, d, reports),
                     OneIf(r.client_id = c /\ r.side = d, [type |-> r.type, qty |-> r.qty]))
            /\ ToldTo(c, d, reports) \in Seq(TypeRec)
        BY ToldAppend
      <4>5. QED
        BY <4>1, <4>2, <4>3, <4>4, Zenon
    <3>2. OneIf(r.client_id = c /\ r.side = o.side, [type |-> r.type, qty |-> r.qty]) = <<y>>
      BY <2>3, <2>7 DEF OneIf
    <3>3. Append(told, y) = Cat(told, <<y>>)
      BY <3>1, AppendIsConcat DEF Cat
    <3>4. QED
      BY <2>5, <3>1, <3>2, <3>3
  <2>9. QED
    BY <1>4, <1>5, <2>1, <2>6, <2>7, <2>8 DEF LineExecuted
<1>8. QED
  BY <1>6, <1>7

(***************************************************************************)
(* An order that Reconcile sends is cancelled or traded, never invalid.    *)
(***************************************************************************)
LEMMA OutcomeIs ==
    ASSUME NEW qs, NEW o \in OrdRec, o.qty > 0 => o.price > 0
    PROVE  /\ o.qty = 0 => Outcome(qs, o) = CancelOutcome(qs, o)
           /\ o.qty # 0 => Outcome(qs, o) = TradeOutcome(qs, o)
<1>1. o.qty \in Nat /\ o.price \in Int
  BY DEF OrdRec
<1>2. CASE o.qty = 0
  BY <1>2 DEF Outcome
<1>3. CASE o.qty # 0
  <2>1. ~(o.qty < 0 \/ (o.qty > 0 /\ o.price <= 0))
    BY <1>1, <1>3
  <2>2. QED
    BY <1>3, <2>1 DEF Outcome
<1>4. QED
  BY <1>2, <1>3

(***************************************************************************)
(* PushOrder leaves queues and results of the right types.                 *)
(***************************************************************************)
LEMMA OutcomeTyped ==
    ASSUME NEW qs \in Queues, NEW o \in OrdRec, o.qty > 0 => o.price > 0
    PROVE  Outcome(qs, o).queue \in Queues /\ Outcome(qs, o).out \in Seq(OutRec)
<1>1. o.side \in Side
  BY DEF OrdRec
<1>2. CASE o.qty = 0
  <2>1. \A type \in ResultType : <<Report(o, type, 0)>> \in Seq(OutRec)
    BY ReportIs
  <2>2. "kReject" \in ResultType /\ "kCancelled" \in ResultType
    BY DEF ResultType
  <2>3. ASSUME NEW i \in Matches(qs[o.side], o)
        PROVE  [qs EXCEPT ![o.side] = RemoveAt(@, i)] \in Queues
    <3>1. PICK q \in Seq(RestRec) : q = qs[o.side]
      BY <1>1 DEF Queues
    <3>2. i \in 1..Len(q)
      BY <3>1 DEF Matches
    <3>3. PICK w \in Seq(RestRec) : w = RemoveAt(q, i)
      BY <3>2, RestingWithout
    <3>4. QED
      BY <3>1, <3>3 DEF Queues
  <2>4. \/ CancelOutcome(qs, o) = [queue |-> qs, out |-> <<Report(o, "kReject", 0)>>, dirty |-> FALSE]
        \/ \E i \in Matches(qs[o.side], o) :
             CancelOutcome(qs, o) = [queue |-> [qs EXCEPT ![o.side] = RemoveAt(@, i)],
                                     out |-> <<Report(o, "kCancelled", 0)>>, dirty |-> TRUE]
    BY CancelFinds, Zenon
  <2>5. CancelOutcome(qs, o).queue \in Queues /\ CancelOutcome(qs, o).out \in Seq(OutRec)
    <3>1. CASE CancelOutcome(qs, o) = [queue |-> qs, out |-> <<Report(o, "kReject", 0)>>, dirty |-> FALSE]
      BY <2>1, <2>2, <3>1
    <3>2. ASSUME NEW i \in Matches(qs[o.side], o),
                 CancelOutcome(qs, o) = [queue |-> [qs EXCEPT ![o.side] = RemoveAt(@, i)],
                                         out |-> <<Report(o, "kCancelled", 0)>>, dirty |-> TRUE]
          PROVE  CancelOutcome(qs, o).queue \in Queues /\ CancelOutcome(qs, o).out \in Seq(OutRec)
      <4>1. PICK w \in Queues : w = [qs EXCEPT ![o.side] = RemoveAt(@, i)]
        BY <2>3
      <4>2. CancelOutcome(qs, o) = [queue |-> w, out |-> <<Report(o, "kCancelled", 0)>>, dirty |-> TRUE]
        BY <3>2, <4>1
      <4>3. QED
        BY <2>1, <2>2, <4>2
    <3>3. QED
      BY <2>4, <3>1, <3>2
  <2>6. QED
    BY <1>2, <2>5, OutcomeIs
<1>3. CASE o.qty # 0
  <2>1. TradeReports(qs[OppSide(o.side)], o) \in Seq(OutRec)
    <3>1. OppSide(o.side) \in Side
      BY <1>1, Opposite
    <3>2. qs[OppSide(o.side)] \in Seq(RestRec)
      BY <3>1 DEF Queues
    <3>3. QED
      BY <3>1, <3>2, ToldOfTrade
  <2>2. CASE LeftOf(qs, o) = 0
    BY <1>3, <2>1, <2>2, OutcomeIs, TradeParts
  <2>3. CASE LeftOf(qs, o) # 0
    <3>1. PICK r \in OutRec : r = Report(o, "kAccepted", LeftOf(qs, o))
      BY <2>3, TradeParts
    <3>2. /\ TradeOutcome(qs, o).queue \in Queues
          /\ TradeOutcome(qs, o).out = Append(TradeReports(qs[OppSide(o.side)], o), r)
      BY <2>3, <3>1, TradeParts
    <3>3. QED
      BY <1>3, <2>1, <3>2, OutcomeIs
  <2>4. QED
    BY <2>2, <2>3
<1>4. QED
  BY <1>2, <1>3

(***************************************************************************)
(* PushOrder, seen from one side of one process.                           *)
(***************************************************************************)
LEMMA OutcomeLine ==
    ASSUME NEW c, NEW s \in Side, NEW qs \in Queues, NEW o \in OrdRec,
           o.qty > 0 => o.price > 0,
           Len(RestingFor(c, qs[s])) <= 1,
           Own(c, s, o) /\ o.qty # 0 => RestingFor(c, qs[s]) = <<>>
    PROVE  /\ Own(c, s, o) /\ o.qty = 0 => LineCancelled(c, s, qs, o, Outcome(qs, o))
           /\ Own(c, s, o) /\ o.qty # 0 => LineExecuted(c, s, qs, o, Outcome(qs, o))
           /\ ~Own(c, s, o) =>
                LineUntouched(c, s, qs, Outcome(qs, o)) \/ LineFilled(c, s, qs, Outcome(qs, o))
<1>1. o.side \in Side
  BY DEF OrdRec
<1>2. CASE o.qty = 0
  BY <1>2, CancelLine, OutcomeIs
<1>3. CASE o.qty # 0
  <2>1. Outcome(qs, o) = TradeOutcome(qs, o)
    BY <1>3, OutcomeIs
  <2>2. CASE s = OppSide(o.side)
    <3>1. ~Own(c, s, o)
      BY <1>1, <2>2, Opposite DEF Own
    <3>2. QED
      BY <2>1, <2>2, <3>1, TradeOpposite
  <2>3. CASE s = o.side /\ c # o.client_id
    BY <2>1, <2>3, TradeBystander DEF Own
  <2>4. CASE Own(c, s, o)
    BY <1>3, <2>1, <2>4, TradeTaker DEF Own
  <2>5. QED
    BY <1>1, <2>2, <2>3, <2>4, Opposite DEF Own
<1>4. QED
  BY <1>2, <1>3

-----------------------------------------------------------------------------
(* The two instances of SideProtocol say the same.                         *)

\* Reconcile and HandleResult mean the same in both instances and in BaseClient.
LEMMA SameHandlers ==
    ASSUME NEW st, NEW s, NEW desired, NEW qty, NEW pack
    PROVE  /\ P!Reconcile(st, s, desired, qty) = Reconcile(st, s, desired, qty)
           /\ Protocol!Reconcile(st, s, desired, qty) = Reconcile(st, s, desired, qty)
           /\ P!HandleResult(st, s, pack, qty) = HandleResult(st, s, pack, qty)
           /\ Protocol!HandleResult(st, s, pack, qty) = HandleResult(st, s, pack, qty)
<1>1. \A d, u : /\ P!Reconcile(u, s, d, qty) = Reconcile(u, s, d, qty)
                /\ Protocol!Reconcile(u, s, d, qty) = Reconcile(u, s, d, qty)
  BY Zenon DEF P!Reconcile, Protocol!Reconcile, Reconcile, P!Effect, Protocol!Effect, Effect,
     P!Order, Protocol!Order, Order
<1>2. \A state : /\ P!EnterAndReconcile(st, state, s, qty) = EnterAndReconcile(st, state, s, qty)
                 /\ Protocol!EnterAndReconcile(st, state, s, qty) = EnterAndReconcile(st, state, s, qty)
  BY <1>1, Zenon DEF P!EnterAndReconcile, Protocol!EnterAndReconcile, EnterAndReconcile,
     P!Effect, Protocol!Effect, Effect
<1>3. QED
  BY <1>1, <1>2, Zenon DEF P!HandleResult, Protocol!HandleResult, HandleResult,
     P!Effect, Protocol!Effect, Effect, P!AfterFill, Protocol!AfterFill, AfterFill

\* A line starts, steps and stays the same in both instances.
LEMMA SameLineStep ==
    ASSUME NEW l
    PROVE  /\ P!LineStep(l) <=> Protocol!LineStep(l)
           /\ P!LineStays(l) <=> Protocol!LineStays(l)
           /\ P!LineInit(l) <=> Protocol!LineInit(l)
<1>1. P!LineStays(l) <=> Protocol!LineStays(l)
  BY DEF P!LineStays, Protocol!LineStays
<1>2. P!LineInit(l) <=> Protocol!LineInit(l)
  BY DEF P!LineInit, Protocol!LineInit, P!NoOrder, Protocol!NoOrder
<1>3. P!Disconnect(l) <=> Protocol!Disconnect(l)
  BY DEF P!Disconnect, Protocol!Disconnect, P!LineInit, Protocol!LineInit, P!NoOrder, Protocol!NoOrder
<1>4. ASSUME NEW desired, NEW qty
      PROVE  P!Target(l, desired, qty) <=> Protocol!Target(l, desired, qty)
  <2>1. \A st, s : P!Reconcile(st, s, desired, qty) = Protocol!Reconcile(st, s, desired, qty)
    BY SameHandlers
  <2>2. \A r : P!Send(l, r) <=> Protocol!Send(l, r)
    BY DEF P!Send, Protocol!Send
  <2>3. QED
    BY <2>1, <2>2 DEF P!Target, Protocol!Target
<1>5. ASSUME NEW qty
      PROVE  P!ReadResult(l, qty) <=> Protocol!ReadResult(l, qty)
  <2>1. \A st, s, x : P!HandleResult(st, s, x, qty) = Protocol!HandleResult(st, s, x, qty)
    BY SameHandlers
  <2>2. \A r : P!Send(l, r) <=> Protocol!Send(l, r)
    BY DEF P!Send, Protocol!Send
  <2>3. QED
    BY <2>1, <2>2 DEF P!ReadResult, Protocol!ReadResult
<1>6. P!Cancel(l) <=> Protocol!Cancel(l)
  BY Zenon DEF P!Cancel, Protocol!Cancel, P!Found, Protocol!Found, P!ResultOf, Protocol!ResultOf
<1>7. \A rs : P!FilledBy(rs) = Protocol!FilledBy(rs)
  BY Zenon DEF P!FilledBy, Protocol!FilledBy, P!Filled, Protocol!Filled, P!FillOf, Protocol!FillOf
<1>8. P!Execute(l) <=> Protocol!Execute(l)
  <2>1. \A S, n : P!BoundedSeq(S, n) = Protocol!BoundedSeq(S, n)
    BY Zenon DEF P!BoundedSeq, Protocol!BoundedSeq, P!SeqOf, Protocol!SeqOf
  <2>2. QED
    BY <1>7, <2>1, Zenon DEF P!Execute, Protocol!Execute, P!ResultOf, Protocol!ResultOf
<1>9. ASSUME NEW n
      PROVE  P!Fill(l, n) <=> Protocol!Fill(l, n)
  BY Zenon DEF P!Fill, Protocol!Fill, P!RestingQty, Protocol!RestingQty, P!ResultOf, Protocol!ResultOf
<1>10. P!RestingQty(l) = Protocol!RestingQty(l)
  BY DEF P!RestingQty, Protocol!RestingQty
<1>11. QED
  BY <1>1, <1>2, <1>3, <1>4, <1>5, <1>6, <1>8, <1>9, <1>10, Zenon DEF P!LineStep, Protocol!LineStep

-----------------------------------------------------------------------------
(* The lines of the system.                                                *)

\* What process c has sent and the engine not executed, what rests for it and what it has
\* not read, on side s.
Sent(c, s) == OrdersOn(s, OrdersFrom(c))

Rests(c, s) == RestingFor(c, queue[s])

Unread(c, s) == ResultsOn(s, ResultsTo(c))

\* A line while its process is connected.
LEMMA ReadyLine ==
    ASSUME NEW c \in Ready, NEW s \in Side
    PROVE  /\ <<c, s>> \in Lines /\ <<c, s>>[1] = c /\ <<c, s>>[2] = s
           /\ LineState[<<c, s>>] = slot[c][s] /\ LineOrders[<<c, s>>] = Sent(c, s)
           /\ LineResting[<<c, s>>] = Rests(c, s) /\ LineResults[<<c, s>>] = Unread(c, s)
<1> DEFINE l == <<c, s>>
<1>1. l \in Lines /\ l[1] = c /\ l[2] = s
  BY DEF Ready, Lines
<1> HIDE DEF l
<1>2. QED
  BY <1>1 DEF l, LineState, LineOrders, LineResting, LineResults, IfReady, Sent, Rests, Unread

\* The same after a step.
LEMMA ReadyLineNext ==
    ASSUME NEW c \in Ready', NEW s \in Side
    PROVE  /\ LineState'[<<c, s>>] = slot'[c][s] /\ LineOrders'[<<c, s>>] = Sent(c, s)'
           /\ LineResting'[<<c, s>>] = Rests(c, s)' /\ LineResults'[<<c, s>>] = Unread(c, s)'
<1> DEFINE l == <<c, s>>
<1>1. l \in Lines /\ l[1] = c /\ l[2] = s
  BY DEF Ready, Lines
<1> HIDE DEF l
<1>2. QED
  BY <1>1 DEF l, LineState, LineOrders, LineResting, LineResults, IfReady, Sent, Rests, Unread

\* A line while its process is not connected.
LEMMA IdleLine ==
    ASSUME NEW c \in Clients, c \notin Ready, NEW s \in Side
    PROVE  P!LineInit(<<c, s>>)
<1> DEFINE l == <<c, s>>
<1>1. l \in Lines /\ l[1] = c /\ l[2] = s
  BY DEF Lines
<1> HIDE DEF l
<1>2. QED
  BY <1>1 DEF l, LineState, LineOrders, LineResting, LineResults, IfReady, P!LineInit, P!NoOrder, NoOrder

\* The same after a step.
LEMMA IdleLineNext ==
    ASSUME NEW c \in Clients, c \notin Ready', NEW s \in Side
    PROVE  P!Disconnect(<<c, s>>)
<1> DEFINE l == <<c, s>>
<1>1. l \in Lines /\ l[1] = c /\ l[2] = s
  BY DEF Lines
<1> HIDE DEF l
<1>2. /\ LineState'[l] = NoOrder /\ LineOrders'[l] = <<>> /\ LineResting'[l] = <<>>
      /\ LineResults'[l] = <<>>
  BY <1>1 DEF l, LineState, LineOrders, LineResting, LineResults, IfReady
<1>3. QED
  BY <1>2 DEF l, P!Disconnect, P!LineInit, P!NoOrder, NoOrder

\* A process that has just connected.
LEMMA FreshLineNext ==
    ASSUME NEW c \in Ready', NEW s \in Side, slot'[c][s] = NoOrder, Sent(c, s)' = <<>>,
           Rests(c, s)' = <<>>, Unread(c, s)' = <<>>
    PROVE  P!Disconnect(<<c, s>>)
BY ReadyLineNext DEF P!Disconnect, P!LineInit, P!NoOrder, NoOrder

\* Nothing happens on the line of a process that stays connected.
LEMMA SameLine ==
    ASSUME NEW c \in Ready, c \in Ready', NEW s \in Side,
           slot'[c][s] = slot[c][s], Sent(c, s)' = Sent(c, s),
           Rests(c, s)' = Rests(c, s), Unread(c, s)' = Unread(c, s)
    PROVE  P!LineStays(<<c, s>>)
<1>1. /\ LineState[<<c, s>>] = slot[c][s] /\ LineOrders[<<c, s>>] = Sent(c, s)
      /\ LineResting[<<c, s>>] = Rests(c, s) /\ LineResults[<<c, s>>] = Unread(c, s)
  BY ReadyLine
<1>2. /\ LineState'[<<c, s>>] = slot'[c][s] /\ LineOrders'[<<c, s>>] = Sent(c, s)'
      /\ LineResting'[<<c, s>>] = Rests(c, s)' /\ LineResults'[<<c, s>>] = Unread(c, s)'
  BY ReadyLineNext
<1>3. QED
  BY <1>1, <1>2 DEF P!LineStays

\* A policy sets a target.
LEMMA TargetLine ==
    ASSUME NEW c \in Ready, c \in Ready', NEW s \in Side,
           NEW desired \in Targets, NEW qty \in OrderQty(c), desired \in Int, qty \in Nat \ {0},
           slot'[c][s] = Reconcile(slot[c][s], s, desired, qty).st,
           Sent(c, s)' = Sent(c, s) \o Reconcile(slot[c][s], s, desired, qty).sends,
           Rests(c, s)' = Rests(c, s), Unread(c, s)' = Unread(c, s)
    PROVE  P!LineStep(<<c, s>>)
<1> DEFINE l == <<c, s>>
<1>1. /\ l \in Lines /\ l[1] = c /\ l[2] = s
      /\ LineState[l] = slot[c][s] /\ LineOrders[l] = Sent(c, s)
      /\ LineResting[l] = Rests(c, s) /\ LineResults[l] = Unread(c, s)
  BY ReadyLine
<1>2. /\ LineState'[l] = slot'[c][s] /\ LineOrders'[l] = Sent(c, s)'
      /\ LineResting'[l] = Rests(c, s)' /\ LineResults'[l] = Unread(c, s)'
  BY ReadyLineNext
<1> HIDE DEF l
<1>3. P!Reconcile(slot[c][s], s, desired, qty) = Reconcile(slot[c][s], s, desired, qty)
  BY SameHandlers
<1>4. P!Target(l, desired, qty)
  BY <1>1, <1>2, <1>3 DEF P!Target, P!Send
<1>5. qty \in [x \in Lines |-> OrderQty(x[1])][l]
  BY <1>1
<1>6. P!LineStep(l)
  BY <1>4, <1>5, Zenon DEF P!LineStep
<1>7. QED
  BY <1>6 DEF l

\* OeReader reads a result of the line.
LEMMA ReadLine ==
    ASSUME NEW c \in Ready, c \in Ready', NEW s \in Side, NEW qty \in OrderQty(c), qty \in Nat \ {0},
           Unread(c, s) # <<>>,
           slot'[c][s] = HandleResult(slot[c][s], s, Head(Unread(c, s)), qty).st,
           Sent(c, s)' = Sent(c, s) \o HandleResult(slot[c][s], s, Head(Unread(c, s)), qty).sends,
           Rests(c, s)' = Rests(c, s), Unread(c, s)' = Tail(Unread(c, s))
    PROVE  P!LineStep(<<c, s>>)
<1> DEFINE l == <<c, s>>
           x == Head(Unread(c, s))
<1>1. /\ l \in Lines /\ l[1] = c /\ l[2] = s
      /\ LineState[l] = slot[c][s] /\ LineOrders[l] = Sent(c, s)
      /\ LineResting[l] = Rests(c, s) /\ LineResults[l] = Unread(c, s)
  BY ReadyLine
<1>2. /\ LineState'[l] = slot'[c][s] /\ LineOrders'[l] = Sent(c, s)'
      /\ LineResting'[l] = Rests(c, s)' /\ LineResults'[l] = Unread(c, s)'
  BY ReadyLineNext
<1> HIDE DEF l
<1>3. P!HandleResult(slot[c][s], s, x, qty) = HandleResult(slot[c][s], s, x, qty)
  BY SameHandlers
<1>4. P!ReadResult(l, qty)
  BY <1>1, <1>2, <1>3 DEF P!ReadResult, P!Send
<1>5. qty \in [y \in Lines |-> OrderQty(y[1])][l]
  BY <1>1
<1>6. P!LineStep(l)
  BY <1>4, <1>5, Zenon DEF P!LineStep
<1>7. QED
  BY <1>6 DEF l

(***************************************************************************)
(* The engine executes an order of the line, or one that trades with it.   *)
(***************************************************************************)
LEMMA CancelledLine ==
    ASSUME NEW c \in Ready, c \in Ready', NEW s \in Side, NEW o, NEW out,
           slot'[c][s] = slot[c][s],
           Sent(c, s) # <<>>, Head(Sent(c, s)) = Order(s, o.price, 0), Sent(c, s)' = Tail(Sent(c, s)),
           Rests(c, s) \in Seq(BookRec), Len(Rests(c, s)) <= 1, Unread(c, s) \in Seq(TypeRec),
           LineCancelled(c, s, queue, o, out), Rests(c, s)' = RestingFor(c, out.queue[s]),
           Unread(c, s)' = Cat(Unread(c, s), ToldTo(c, s, out.out))
    PROVE  P!LineStep(<<c, s>>)
<1> DEFINE l == <<c, s>>
<1>1. /\ LineState[l] = slot[c][s] /\ LineOrders[l] = Sent(c, s)
      /\ LineResting[l] = Rests(c, s) /\ LineResults[l] = Unread(c, s)
  BY ReadyLine
<1>2. /\ LineState'[l] = slot'[c][s] /\ LineOrders'[l] = Sent(c, s)'
      /\ LineResting'[l] = Rests(c, s)' /\ LineResults'[l] = Unread(c, s)'
  BY ReadyLineNext
<1> HIDE DEF l
<1> DEFINE found == Rests(c, s) # <<>> /\ Head(Rests(c, s)).price = o.price
           type  == IF found THEN "kCancelled" ELSE "kReject"
<1>3. Head(Sent(c, s)).qty = 0 /\ Head(Sent(c, s)).price = o.price
  BY DEF Order
<1>4. P!Found(l) <=> found
  BY <1>1, <1>3 DEF P!Found
<1>5. Rests(c, s)' = IF found THEN Tail(Rests(c, s)) ELSE Rests(c, s)
  <2>1. RestingFor(c, out.queue[s]) = IF found THEN <<>> ELSE Rests(c, s)
    BY Zenon DEF LineCancelled, Rests
  <2>2. ASSUME Rests(c, s) # <<>>
        PROVE  Tail(Rests(c, s)) = <<>>
    <3>1. PICK r \in Seq(BookRec) : r = Rests(c, s)
      OBVIOUS
    <3>2. Len(r) \in Nat /\ Len(r) # 0 /\ Len(r) <= 1
      BY <2>2, <3>1, EmptySeq
    <3>3. Tail(r) \in Seq(BookRec) /\ Len(Tail(r)) = 0
      <4>1. Tail(r) \in Seq(BookRec) /\ Len(Tail(r)) = Len(r) - 1
        BY <2>2, <3>1, HeadTailProperties
      <4>2. PICK n \in Nat : n = Len(r) /\ n # 0 /\ n <= 1
        BY <3>2
      <4>3. n - 1 = 0
        BY <4>2
      <4>4. QED
        BY <4>1, <4>2, <4>3
    <3>4. QED
      BY <3>1, <3>3, EmptySeq
  <2>3. QED
    BY <2>1, <2>2
<1>6. Unread(c, s)' = Append(Unread(c, s), P!ResultOf(type, 0))
  <2>1. ToldTo(c, s, out.out) = <<[type |-> type, qty |-> 0]>>
    BY Zenon DEF LineCancelled, Rests
  <2>2. type \in ResultType
    BY DEF ResultType
  <2> HIDE DEF type
  <2>3. PICK y \in TypeRec : y = [type |-> type, qty |-> 0]
    <3>1. [type |-> type, qty |-> 0] \in TypeRec
      BY <2>2 DEF TypeRec
    <3>2. QED
      BY <3>1
  <2>4. Append(Unread(c, s), y) = Cat(Unread(c, s), <<y>>)
    BY AppendIsConcat DEF Cat
  <2>5. QED
    BY <2>1, <2>3, <2>4 DEF P!ResultOf
<1>7. P!Cancel(l)
  BY <1>1, <1>2, <1>3, <1>4, <1>5, <1>6 DEF P!Cancel
<1>8. P!LineStep(l)
  BY <1>7 DEF P!LineStep
<1>9. QED
  BY <1>8 DEF l

\* Somebody trades with the order that rests: Fill.
LEMMA FilledLine ==
    ASSUME NEW c \in Ready, c \in Ready', NEW s \in Side, NEW out,
           slot'[c][s] = slot[c][s], Sent(c, s)' = Sent(c, s),
           Unread(c, s) \in Seq(TypeRec),
           LineFilled(c, s, queue, out), Rests(c, s)' = RestingFor(c, out.queue[s]),
           Unread(c, s)' = Cat(Unread(c, s), ToldTo(c, s, out.out))
    PROVE  P!LineStep(<<c, s>>)
<1> DEFINE l == <<c, s>>
<1>1. /\ LineState[l] = slot[c][s] /\ LineOrders[l] = Sent(c, s)
      /\ LineResting[l] = Rests(c, s) /\ LineResults[l] = Unread(c, s)
  BY ReadyLine
<1>2. /\ LineState'[l] = slot'[c][s] /\ LineOrders'[l] = Sent(c, s)'
      /\ LineResting'[l] = Rests(c, s)' /\ LineResults'[l] = Unread(c, s)'
  BY ReadyLineNext
<1> HIDE DEF l
<1>3. PICK b \in BookRec : \E n \in 1..b.qty :
        /\ Rests(c, s) = <<b>> /\ ToldTo(c, s, out.out) = <<FillRec(n)>>
        /\ RestingFor(c, out.queue[s]) = OneIf(n < b.qty, [price |-> b.price, qty |-> b.qty - n])
  BY Zenon DEF LineFilled, Rests
<1>4. PICK n \in 1..b.qty :
        /\ Rests(c, s) = <<b>> /\ ToldTo(c, s, out.out) = <<FillRec(n)>>
        /\ RestingFor(c, out.queue[s]) = OneIf(n < b.qty, [price |-> b.price, qty |-> b.qty - n])
  BY <1>3
<1>5. b.qty \in Nat /\ b.price \in Prices /\ n \in Nat
  BY DEF BookRec
<1>6. P!RestingQty(l) = b.qty
  <2>1. <<b>> # <<>> /\ Head(<<b>>) = b
    OBVIOUS
  <2>2. QED
    BY <1>1, <1>4, <2>1 DEF P!RestingQty
<1>7. Rests(c, s)' = IF n = b.qty THEN Tail(Rests(c, s)) ELSE [Rests(c, s) EXCEPT ![1].qty = @ - n]
  <2>1. CASE n = b.qty
    <3>1. Tail(<<b>>) = <<>>
      OBVIOUS
    <3>2. ~(n < b.qty)
      BY <1>5, <2>1
    <3>3. QED
      BY <1>4, <2>1, <3>1, <3>2 DEF OneIf
  <2>2. CASE n # b.qty
    <3>1. n < b.qty
      BY <1>5, <2>2
    <3>2. PICK m \in Nat : m = b.qty - n
      BY <1>5, <3>1
    <3>3. [<<b>> EXCEPT ![1].qty = m] = <<[price |-> b.price, qty |-> m]>>
      <4>1. [b EXCEPT !.qty = m] = [price |-> b.price, qty |-> m]
        BY DEF BookRec
      <4>2. [<<b>> EXCEPT ![1].qty = m] = <<[b EXCEPT !.qty = m]>>
        OBVIOUS
      <4>3. QED
        BY <4>1, <4>2
    <3>4. [<<b>> EXCEPT ![1].qty = @ - n] = [<<b>> EXCEPT ![1].qty = m]
      BY <3>2
    <3>5. QED
      BY <1>4, <2>2, <3>1, <3>2, <3>3, <3>4 DEF OneIf
  <2>3. QED
    BY <2>1, <2>2
<1>8. Unread(c, s)' = Append(Unread(c, s), P!ResultOf("kSuccess", n))
  <2>1. FillRec(n) \in TypeRec
    BY <1>5 DEF FillRec, TypeRec, ResultType
  <2>2. PICK y \in TypeRec : y = FillRec(n)
    BY <2>1
  <2>3. Append(Unread(c, s), y) = Cat(Unread(c, s), <<y>>)
    BY AppendIsConcat DEF Cat
  <2>4. P!ResultOf("kSuccess", n) = y
    BY <2>2, SameResults
  <2>5. QED
    BY <1>4, <2>2, <2>3, <2>4
<1>9. P!Fill(l, n)
  BY <1>1, <1>2, <1>6, <1>7, <1>8 DEF P!Fill
<1>10. n \in 1..P!RestingQty(l)
  BY <1>6
<1>11. P!LineStep(l)
  BY <1>9, <1>10, Zenon DEF P!LineStep
<1>12. QED
  BY <1>11 DEF l

\* The line's new order is executed: Execute.
LEMMA ExecutedLine ==
    ASSUME NEW c \in Ready, c \in Ready', NEW s \in Side, NEW o \in OrdRec, NEW out,
           slot'[c][s] = slot[c][s], o.qty # 0,
           Sent(c, s) # <<>>, Head(Sent(c, s)) = Order(s, o.price, o.qty),
           Sent(c, s)' = Tail(Sent(c, s)),
           Rests(c, s) = <<>>, Unread(c, s) \in Seq(TypeRec),
           LineExecuted(c, s, queue, o, out), Rests(c, s)' = RestingFor(c, out.queue[s]),
           Unread(c, s)' = Cat(Unread(c, s), ToldTo(c, s, out.out))
    PROVE  P!LineStep(<<c, s>>)
<1> DEFINE l == <<c, s>>
<1>1. /\ LineState[l] = slot[c][s] /\ LineOrders[l] = Sent(c, s)
      /\ LineResting[l] = Rests(c, s) /\ LineResults[l] = Unread(c, s)
  BY ReadyLine
<1>2. /\ LineState'[l] = slot'[c][s] /\ LineOrders'[l] = Sent(c, s)'
      /\ LineResting'[l] = Rests(c, s)' /\ LineResults'[l] = Unread(c, s)'
  BY ReadyLineNext
<1> HIDE DEF l
<1>3. Head(Sent(c, s)).qty = o.qty /\ Head(Sent(c, s)).price = o.price /\ o.qty \in Nat /\ o.qty > 0
  BY DEF Order, OrdRec
<1>4. PICK told \in Seq(FillRecs(o.qty)) :
        /\ Len(told) <= o.qty
        /\ \/ /\ o.qty - P!FilledBy(told) = 0 /\ ToldTo(c, s, out.out) = told
              /\ Rests(c, s)' = Rests(c, s)
           \/ /\ o.qty - P!FilledBy(told) > 0
              /\ ToldTo(c, s, out.out) = Append(told, [type |-> "kAccepted", qty |-> o.qty - P!FilledBy(told)])
              /\ Rests(c, s)' = <<[price |-> o.price, qty |-> o.qty - P!FilledBy(told)]>>
  BY Zenon DEF LineExecuted, Rests
<1> DEFINE fills   == [i \in 1..Len(told) |-> told[i].qty]
           reports == [i \in DOMAIN fills |-> P!ResultOf("kSuccess", fills[i])]
           left    == o.qty - P!FilledBy(told)
<1>5. Len(told) \in 0..o.qty /\ \A i \in 1..Len(told) : told[i] \in FillRecs(o.qty)
  BY <1>3, <1>4
<1>6. fills \in P!BoundedSeq(1..o.qty, o.qty)
  <2>1. fills \in [1..Len(told) -> 1..o.qty]
    BY <1>5 DEF FillRecs
  <2>2. QED
    BY <1>5, <2>1 DEF P!BoundedSeq, P!SeqOf
<1>7. reports = told
  <2>1. \A i \in 1..Len(told) : P!ResultOf("kSuccess", told[i].qty) = told[i]
    <3> TAKE i \in 1..Len(told)
    <3>1. told[i] \in FillRecs(o.qty)
      BY <1>5
    <3>2. QED
      BY <3>1 DEF FillRecs, P!ResultOf
  <2>2. told = [i \in 1..Len(told) |-> told[i]]
    OBVIOUS
  <2>3. QED
    BY <2>1, <2>2
<1>8. \/ /\ left = 0 /\ Unread(c, s)' = Unread(c, s) \o reports /\ Rests(c, s)' = Rests(c, s)
      \/ /\ left > 0
         /\ Unread(c, s)' = Unread(c, s) \o Append(reports, P!ResultOf("kAccepted", left))
         /\ Rests(c, s)' = Append(Rests(c, s), [price |-> o.price, qty |-> left])
  <2>1. \A x : <<x>> = Append(<<>>, x)
    OBVIOUS
  <2>2. P!ResultOf("kAccepted", left) = [type |-> "kAccepted", qty |-> left]
    BY DEF P!ResultOf
  <2> HIDE DEF left, reports
  <2>3. QED
    BY <1>4, <1>7, <2>1, <2>2, Zenon DEF Cat, left
<1>9. P!Execute(l)
  <2>1. /\ LineOrders[l] # <<>> /\ Head(LineOrders[l]).qty > 0 /\ LineOrders'[l] = Tail(LineOrders[l])
        /\ UNCHANGED LineState[l]
    BY <1>1, <1>2, <1>3
  <2>2. \/ /\ left = 0 /\ LineResults'[l] = LineResults[l] \o reports /\ UNCHANGED LineResting[l]
        \/ /\ left > 0
           /\ LineResults'[l] = LineResults[l] \o Append(reports, P!ResultOf("kAccepted", left))
           /\ LineResting'[l] = Append(LineResting[l], [price |-> o.price, qty |-> left])
    BY <1>1, <1>2, <1>8
  <2>3. P!FilledBy(reports) = P!FilledBy(told) /\ Head(LineOrders[l]).qty = o.qty
        /\ Head(LineOrders[l]).price = o.price
    BY <1>1, <1>3, <1>7
  <2> HIDE DEF fills
  <2>4. QED
    BY <1>6, <2>1, <2>2, <2>3, Zenon DEF P!Execute
<1>10. P!LineStep(l)
  BY <1>9, Zenon DEF P!LineStep
<1>11. QED
  BY <1>10 DEF l

-----------------------------------------------------------------------------
(* The views of sequences that grow and shrink.                            *)

\* Elementwise, as RestingFacts.
LEMMA QueuedFacts ==
    ASSUME NEW c
    PROVE  /\ \A p \in Seq(Item) : Queued(c, p) \in Seq(OrderPack)
           /\ Queued(c, <<>>) = <<>>
           /\ \A x \in Item : Queued(c, <<x>>) = OneIf(x.client_id = c, x.order)
           /\ \A a, b \in Seq(Item) : Queued(c, Cat(a, b)) = Cat(Queued(c, a), Queued(c, b))
<1>1. Maps(QueuedOf(c), Item, OrderPack)
  BY QueuedIs
<1>2. ASSUME NEW x \in Item
      PROVE  Queued(c, <<x>>) = OneIf(x.client_id = c, x.order)
  <2>1. <<x>> \in Seq(Item)
    OBVIOUS
  <2>2. Through(QueuedOf(c), <<x>>) = QueuedOf(c)[x]
    BY <1>1, ThroughOne
  <2>3. Queued(c, <<x>>) = QueuedOf(c)[x]
    BY <2>1, <2>2, QueuedIs
  <2>4. QED
    BY <2>3 DEF QueuedOf
<1>3. \A p \in Seq(Item) : Queued(c, p) \in Seq(OrderPack)
  BY <1>1, QueuedIs, ThroughTyped
<1>4. ASSUME NEW a \in Seq(Item), NEW b \in Seq(Item)
      PROVE  Queued(c, Cat(a, b)) = Cat(Queued(c, a), Queued(c, b))
  <2>1. Cat(a, b) \in Seq(Item)
    BY CatSeq
  <2>2. Through(QueuedOf(c), Cat(a, b)) = Cat(Through(QueuedOf(c), a), Through(QueuedOf(c), b))
    BY <1>1, ThroughCat
  <2>3. QED
    BY <2>1, <2>2, QueuedIs
<1>5. Queued(c, <<>>) = <<>>
  <2>1. <<>> \in Seq(Item)
    OBVIOUS
  <2>2. QED
    BY <2>1, QueuedIs, ThroughEmpty
<1>6. QED
  BY <1>2, <1>3, <1>4, <1>5

\* OrdersOn: its type, and what it makes of no, of one and of two lists of orders.
LEMMA OrdersFacts ==
    ASSUME NEW d \in Side
    PROVE  /\ \A p \in Seq(OrderPack) : OrdersOn(d, p) \in Seq(SentRec)
           /\ OrdersOn(d, <<>>) = <<>>
           /\ \A x \in OrderPack : OrdersOn(d, <<x>>) = OneIf(x.side = d, Order(d, x.price, x.qty))
           /\ \A a, b \in Seq(OrderPack) :
                OrdersOn(d, Cat(a, b)) = Cat(OrdersOn(d, a), OrdersOn(d, b))
<1>1. Maps(OrdersOf(d), OrderPack, SentRec)
  BY OrdersIs
<1>2. ASSUME NEW x \in OrderPack
      PROVE  OrdersOn(d, <<x>>) = OneIf(x.side = d, Order(d, x.price, x.qty))
  <2>1. <<x>> \in Seq(OrderPack)
    OBVIOUS
  <2>2. Through(OrdersOf(d), <<x>>) = OrdersOf(d)[x]
    BY <1>1, ThroughOne
  <2>3. OrdersOn(d, <<x>>) = OrdersOf(d)[x]
    BY <2>1, <2>2, OrdersIs
  <2>4. QED
    BY <2>3 DEF OrdersOf
<1>3. \A p \in Seq(OrderPack) : OrdersOn(d, p) \in Seq(SentRec)
  BY <1>1, OrdersIs, ThroughTyped
<1>4. ASSUME NEW a \in Seq(OrderPack), NEW b \in Seq(OrderPack)
      PROVE  OrdersOn(d, Cat(a, b)) = Cat(OrdersOn(d, a), OrdersOn(d, b))
  <2>1. Cat(a, b) \in Seq(OrderPack)
    BY CatSeq
  <2>2. Through(OrdersOf(d), Cat(a, b)) = Cat(Through(OrdersOf(d), a), Through(OrdersOf(d), b))
    BY <1>1, ThroughCat
  <2>3. QED
    BY <2>1, <2>2, OrdersIs
<1>5. OrdersOn(d, <<>>) = <<>>
  <2>1. <<>> \in Seq(OrderPack)
    OBVIOUS
  <2>2. QED
    BY <2>1, OrdersIs, ThroughEmpty
<1>6. QED
  BY <1>2, <1>3, <1>4, <1>5

\* ResultsOn likewise.
LEMMA ResultsFacts ==
    ASSUME NEW d \in Side
    PROVE  /\ \A p \in Seq(ResultPack) : ResultsOn(d, p) \in Seq(TypeRec)
           /\ ResultsOn(d, <<>>) = <<>>
           /\ \A x \in ResultPack :
                ResultsOn(d, <<x>>) = OneIf(x.side = d, [type |-> x.type, qty |-> x.qty])
           /\ \A a, b \in Seq(ResultPack) :
                ResultsOn(d, Cat(a, b)) = Cat(ResultsOn(d, a), ResultsOn(d, b))
<1>1. Maps(ResultsOf(d), ResultPack, TypeRec)
  BY ResultsIs
<1>2. ASSUME NEW x \in ResultPack
      PROVE  ResultsOn(d, <<x>>) = OneIf(x.side = d, [type |-> x.type, qty |-> x.qty])
  <2>1. <<x>> \in Seq(ResultPack)
    OBVIOUS
  <2>2. Through(ResultsOf(d), <<x>>) = ResultsOf(d)[x]
    BY <1>1, ThroughOne
  <2>3. ResultsOn(d, <<x>>) = ResultsOf(d)[x]
    BY <2>1, <2>2, ResultsIs
  <2>4. QED
    BY <2>3 DEF ResultsOf
<1>3. \A p \in Seq(ResultPack) : ResultsOn(d, p) \in Seq(TypeRec)
  BY <1>1, ResultsIs, ThroughTyped
<1>4. ASSUME NEW a \in Seq(ResultPack), NEW b \in Seq(ResultPack)
      PROVE  ResultsOn(d, Cat(a, b)) = Cat(ResultsOn(d, a), ResultsOn(d, b))
  <2>1. Cat(a, b) \in Seq(ResultPack)
    BY CatSeq
  <2>2. Through(ResultsOf(d), Cat(a, b)) = Cat(Through(ResultsOf(d), a), Through(ResultsOf(d), b))
    BY <1>1, ThroughCat
  <2>3. QED
    BY <2>1, <2>2, ResultsIs
<1>5. ResultsOn(d, <<>>) = <<>>
  <2>1. <<>> \in Seq(ResultPack)
    OBVIOUS
  <2>2. QED
    BY <2>1, ResultsIs, ThroughEmpty
<1>6. QED
  BY <1>2, <1>3, <1>4, <1>5

\* PacketsFor and ToldTo likewise.
LEMMA ToldFacts ==
    ASSUME NEW c, NEW d \in Side
    PROVE  /\ \A p \in Seq(OutRec) :
                PacketsFor(c, p) \in Seq(ResultPack) /\ ToldTo(c, d, p) \in Seq(TypeRec)
           /\ ToldTo(c, d, <<>>) = <<>>
           /\ \A a, b \in Seq(OutRec) :
                ToldTo(c, d, Cat(a, b)) = Cat(ToldTo(c, d, a), ToldTo(c, d, b))
<1>1. Maps(Told(c, d), OutRec, TypeRec)
  BY ToldIs
<1>2. \A p \in Seq(OutRec) : PacketsFor(c, p) \in Seq(ResultPack)
  BY PacketsIs, ThroughTyped
<1>3. \A p \in Seq(OutRec) : ToldTo(c, d, p) \in Seq(TypeRec)
  BY <1>1, ToldIs, ThroughTyped
<1>4. ASSUME NEW a \in Seq(OutRec), NEW b \in Seq(OutRec)
      PROVE  ToldTo(c, d, Cat(a, b)) = Cat(ToldTo(c, d, a), ToldTo(c, d, b))
  <2>1. Cat(a, b) \in Seq(OutRec)
    BY CatSeq
  <2>2. Through(Told(c, d), Cat(a, b)) = Cat(Through(Told(c, d), a), Through(Told(c, d), b))
    BY <1>1, ThroughCat
  <2>3. QED
    BY <2>1, <2>2, ToldIs
<1>5. ToldTo(c, d, <<>>) = <<>>
  <2>1. <<>> \in Seq(OutRec)
    OBVIOUS
  <2>2. QED
    BY <2>1, ToldIs, ThroughEmpty
<1>6. QED
  BY <1>2, <1>3, <1>4, <1>5

-----------------------------------------------------------------------------
(* The invariant.                                                          *)

SlotRec == [state : OeState, price : Int, qty : Int, pending : Int]

\* What the variables hold.  TypeOK says more of price, qty and pending; the proofs need it of
\* the lines of connected processes only, where the phases give it.
Types ==
    /\ slot \in [Clients -> [Side -> SlotRec]] /\ next_seq \in [Clients -> Int]
    /\ conn \in [Clients -> Connection]
    /\ up \in [Clients -> Seq(OrderPack)] /\ down \in [Clients -> Seq(ResultPack)]
    /\ listener \subseteq Clients /\ sessions \subseteq Clients
    /\ inbound \in Seq(Item) /\ posted \in Seq(Seq(OutRec)) /\ queue \in Queues

\* What is told of a side and not yet handed to SendOrderResults.
Posted(c, s) == ToldTo(c, s, FlattenSeq(posted))

\* The threads of the server hold nothing for c.
NoTrace(c) ==
    Queued(c, inbound) = <<>> /\ \A s \in Side : Rests(c, s) = <<>> /\ Posted(c, s) = <<>>

\* The process has neither sent nor received anything.
Blank(c) ==
    /\ slot[c] = [s \in Side |-> NoOrder] /\ up[c] = <<>>
    /\ \A s \in Side : ResultsOn(s, down[c]) = <<>>

\* Who is known to whom: only a lost server loses connections, a process that is not ready
\* has nothing anywhere, and a session is registered before its first order is read.
Connections(c) ==
    /\ conn[c] \in {"lost", "failed"} => server = "down"
    /\ conn[c] \in {"start", "assigned"} => Blank(c) /\ NoTrace(c)
    /\ c \notin sessions /\ conn[c] # "closed" => NoTrace(c)

(***************************************************************************)
(* A process that has not connected yet, or whose session is still to be   *)
(* registered, has left nothing in the server, and the lines of the others *)
(* are in the phases of SideProtocol.                                      *)
(***************************************************************************)
SysInv ==
    /\ Types
    /\ \A c \in Clients : Connections(c)
    /\ \A l \in Lines : P!IInv(l)

-----------------------------------------------------------------------------
(* Steps seen from a line.                                                 *)

\* The views, part by part: inbound_ and stream, stream and posted results.
PartsOf(c, s, items, u, d, pp) ==
    /\ OrdersOn(s, Queued(c, items)) \in Seq(SentRec) /\ OrdersOn(s, u) \in Seq(SentRec)
    /\ OrdersOn(s, Queued(c, items) \o u) = Cat(OrdersOn(s, Queued(c, items)), OrdersOn(s, u))
    /\ ResultsOn(s, d) \in Seq(TypeRec) /\ ToldTo(c, s, FlattenSeq(pp)) \in Seq(TypeRec)
    /\ ResultsOn(s, d \o PacketsFor(c, FlattenSeq(pp)))
         = Cat(ResultsOn(s, d), ToldTo(c, s, FlattenSeq(pp)))

(***************************************************************************)
(* A view is the concatenation of what its two queues hold of the line.    *)
(***************************************************************************)
LEMMA ViewParts ==
    ASSUME NEW c, NEW s \in Side, NEW items \in Seq(Item), NEW u \in Seq(OrderPack),
           NEW d \in Seq(ResultPack), NEW pp \in Seq(Seq(OutRec))
    PROVE  PartsOf(c, s, items, u, d, pp)
<1>1. Queued(c, items) \in Seq(OrderPack)
  BY QueuedFacts
<1>2. FlattenSeq(pp) \in Seq(OutRec)
  BY FlattenTyped
<1>3. PacketsFor(c, FlattenSeq(pp)) \in Seq(ResultPack)
  BY <1>2, ToldFacts
<1>4. Queued(c, items) \o u = Cat(Queued(c, items), u)
      /\ d \o PacketsFor(c, FlattenSeq(pp)) = Cat(d, PacketsFor(c, FlattenSeq(pp)))
  BY DEF Cat
<1>5. OrdersOn(s, Cat(Queued(c, items), u)) = Cat(OrdersOn(s, Queued(c, items)), OrdersOn(s, u))
      /\ OrdersOn(s, Queued(c, items)) \in Seq(SentRec) /\ OrdersOn(s, u) \in Seq(SentRec)
  BY <1>1, OrdersFacts
<1>6. ResultsOn(s, Cat(d, PacketsFor(c, FlattenSeq(pp))))
        = Cat(ResultsOn(s, d), ResultsOn(s, PacketsFor(c, FlattenSeq(pp))))
      /\ ResultsOn(s, d) \in Seq(TypeRec)
  BY <1>3, ResultsFacts
<1>7. ToldTo(c, s, FlattenSeq(pp)) \in Seq(TypeRec)
  BY <1>2, ToldFacts
<1>8. QED
  BY <1>4, <1>5, <1>6, <1>7, Zenon DEF ToldTo, PartsOf

\* The views of a line before a step.
LEMMA LineViews ==
    ASSUME Types, NEW c \in Clients, NEW s \in Side
    PROVE  /\ Sent(c, s) = Cat(OrdersOn(s, Queued(c, inbound)), OrdersOn(s, up[c]))
           /\ Unread(c, s) = Cat(ResultsOn(s, down[c]), Posted(c, s))
           /\ OrdersOn(s, Queued(c, inbound)) \in Seq(SentRec) /\ OrdersOn(s, up[c]) \in Seq(SentRec)
           /\ ResultsOn(s, down[c]) \in Seq(TypeRec) /\ Posted(c, s) \in Seq(TypeRec)
           /\ Sent(c, s) \in Seq(SentRec) /\ Unread(c, s) \in Seq(TypeRec)
           /\ Rests(c, s) \in Seq(BookRec)
<1>1. inbound \in Seq(Item) /\ up[c] \in Seq(OrderPack) /\ down[c] \in Seq(ResultPack)
      /\ posted \in Seq(Seq(OutRec)) /\ queue[s] \in Seq(RestRec)
  BY DEF Types, Queues
<1>2. /\ Sent(c, s) = Cat(OrdersOn(s, Queued(c, inbound)), OrdersOn(s, up[c]))
      /\ Unread(c, s) = Cat(ResultsOn(s, down[c]), Posted(c, s))
      /\ OrdersOn(s, Queued(c, inbound)) \in Seq(SentRec) /\ OrdersOn(s, up[c]) \in Seq(SentRec)
      /\ ResultsOn(s, down[c]) \in Seq(TypeRec) /\ Posted(c, s) \in Seq(TypeRec)
  <2>1. PartsOf(c, s, inbound, up[c], down[c], posted)
    BY <1>1, ViewParts
  <2>2. QED
    BY <2>1, Zenon DEF PartsOf, Sent, OrdersFrom, Unread, ResultsTo, Posted
<1>3. Rests(c, s) \in Seq(BookRec)
  BY <1>1, RestingFacts DEF Rests
<1>4. QED
  BY <1>2, <1>3, CatSeq

\* The views of a line after a step.
LEMMA LineViewsNext ==
    ASSUME Types', NEW c \in Clients, NEW s \in Side
    PROVE  /\ Sent(c, s)' = Cat(OrdersOn(s, Queued(c, inbound')), OrdersOn(s, up'[c]))
           /\ Unread(c, s)' = Cat(ResultsOn(s, down'[c]), Posted(c, s)')
<1>1. inbound' \in Seq(Item) /\ up'[c] \in Seq(OrderPack) /\ down'[c] \in Seq(ResultPack)
      /\ posted' \in Seq(Seq(OutRec))
  BY DEF Types
<1>2. PartsOf(c, s, inbound', up'[c], down'[c], posted')
  BY <1>1, ViewParts
<1>3. QED
  BY <1>2, Zenon DEF PartsOf, Sent, OrdersFrom, Unread, ResultsTo, Posted

\* A step of the protocol of line l, or none.
Follows(l) == P!LineStep(l) \/ P!LineStays(l)

(***************************************************************************)
(* A step that leaves the views of a connected process alone.              *)
(***************************************************************************)
LEMMA QuietLine ==
    ASSUME NEW c \in Clients, NEW s \in Side,
           c \in Ready' => /\ c \in Ready /\ slot'[c][s] = slot[c][s] /\ Sent(c, s)' = Sent(c, s)
                           /\ Rests(c, s)' = Rests(c, s) /\ Unread(c, s)' = Unread(c, s)
    PROVE  Follows(<<c, s>>)
<1>1. CASE c \in Ready'
  BY <1>1, SameLine DEF Follows
<1>2. CASE c \notin Ready'
  BY <1>2, IdleLineNext DEF Follows, P!LineStep
<1>3. QED
  BY <1>1, <1>2

\* A step of another process, or of the server for another process.
Elsewhere(c) ==
    /\ conn'[c] = conn[c] /\ slot'[c] = slot[c] /\ up'[c] = up[c] /\ down'[c] = down[c]
    /\ server' = server

\* The queues between the threads and the book stay as they are.
Apart == inbound' = inbound /\ queue' = queue /\ posted' = posted

\* It leaves the line as it is.
LEMMA ElsewhereLine ==
    ASSUME NEW c \in Clients, NEW s \in Side, Elsewhere(c), Apart
    PROVE  Follows(<<c, s>>)
<1>1. c \in Ready' <=> c \in Ready
  BY DEF Ready, Elsewhere
<1>2. /\ slot'[c][s] = slot[c][s] /\ Sent(c, s)' = Sent(c, s)
      /\ Rests(c, s)' = Rests(c, s) /\ Unread(c, s)' = Unread(c, s)
  BY Zenon DEF Elsewhere, Apart, Sent, OrdersFrom, Rests, Unread, ResultsTo
<1>3. QED
  BY <1>1, <1>2, QuietLine

-----------------------------------------------------------------------------
(* What a process sends.                                                   *)

\* A new order is sent at a positive price.
SendRec == {x \in SentRec : x.qty > 0 => x.price > 0}

\* SendOrder is called with nothing, or with an order of the side.
SendsOn(s, sends) == sends = <<>> \/ \E x \in SendRec : x.side = s /\ sends = <<x>>

\* The effect of a handler of side s.
EffectOn(s, r) == r.st \in SlotRec /\ SendsOn(s, r.sends)

\* Reconcile sends an order of its side, a new one at a positive price, or none.
LEMMA ReconcileEffect ==
    ASSUME NEW s \in Side, NEW sl \in SlotRec, NEW desired \in Int, NEW qty \in Nat \ {0}
    PROVE  EffectOn(s, Reconcile(sl, s, desired, qty))
<1> DEFINE r == Reconcile(sl, s, desired, qty)
<1>1. CASE desired <= 0
  <2>1. r = Effect(sl, <<>>)
    BY <1>1 DEF Reconcile
  <2>2. QED
    BY <2>1 DEF Effect, EffectOn, SendsOn
<1>2. CASE desired > 0 /\ sl.state = "kIdle"
  <2>1. r = Effect([state |-> "kWaitAccepted", price |-> desired, qty |-> qty, pending |-> 0],
                   <<Order(s, desired, qty)>>)
    BY <1>2 DEF Reconcile
  <2>2. Order(s, desired, qty) \in SendRec /\ Order(s, desired, qty).side = s
    BY <1>2 DEF Order, SendRec, SentRec
  <2>3. r.st \in SlotRec /\ r.sends = <<Order(s, desired, qty)>>
    BY <2>1 DEF Effect, SlotRec, OeState
  <2>4. QED
    BY <2>2, <2>3 DEF EffectOn, SendsOn
<1>3. CASE desired > 0 /\ sl.state = "kResting" /\ sl.price = desired
  <2>1. r = Effect(sl, <<>>)
    BY <1>3 DEF Reconcile
  <2>2. QED
    BY <2>1 DEF Effect, EffectOn, SendsOn
<1>4. CASE desired > 0 /\ sl.state = "kResting" /\ sl.price # desired
  <2>1. r = Effect([sl EXCEPT !.state = "kWaitCanceled", !.pending = desired],
                   <<Order(s, sl.price, 0)>>)
    BY <1>4 DEF Reconcile
  <2>2. Order(s, sl.price, 0) \in SendRec /\ Order(s, sl.price, 0).side = s
    BY DEF Order, SendRec, SentRec, SlotRec
  <2>3. r.st \in SlotRec /\ r.sends = <<Order(s, sl.price, 0)>>
    <3>1. /\ r.st = [sl EXCEPT !.state = "kWaitCanceled", !.pending = desired]
          /\ r.sends = <<Order(s, sl.price, 0)>>
      BY <2>1 DEF Effect
    <3>2. "kWaitCanceled" \in OeState
      BY DEF OeState
    <3>3. QED
      BY <3>1, <3>2 DEF SlotRec
  <2>4. QED
    BY <2>2, <2>3 DEF EffectOn, SendsOn
<1>5. CASE desired > 0 /\ sl.state \in {"kWaitAccepted", "kWaitCanceled"}
  <2>1. r = Effect([sl EXCEPT !.pending = desired], <<>>)
    BY <1>5 DEF Reconcile
  <2>2. QED
    BY <2>1 DEF Effect, EffectOn, SendsOn, SlotRec
<1>6. sl.state \in OeState
  BY DEF SlotRec
<1>7. QED
  BY <1>1, <1>2, <1>3, <1>4, <1>5, <1>6 DEF OeState

\* So do the handlers of kAccepted and kCancelled.
LEMMA EnterEffect ==
    ASSUME NEW s \in Side, NEW sl \in SlotRec, NEW state \in OeState, NEW qty \in Nat \ {0}
    PROVE  EffectOn(s, EnterAndReconcile(sl, state, s, qty))
<1> DEFINE e == [sl EXCEPT !.state = state]
           q == Reconcile(e, s, sl.pending, qty)
           r == EnterAndReconcile(sl, state, s, qty)
<1>1. e \in SlotRec /\ sl.pending \in Int
  BY DEF SlotRec
<1>2. EffectOn(s, q)
  <2> HIDE DEF e
  <2>1. QED
    BY <1>1, ReconcileEffect
<1>3. r = IF sl.pending # 0 THEN Effect([q.st EXCEPT !.pending = 0], q.sends) ELSE Effect(e, <<>>)
  BY Zenon DEF EnterAndReconcile
<1> HIDE DEF e, q, r
<1> SUFFICES EffectOn(s, r)
  BY DEF r
<1>4. CASE sl.pending = 0
  BY <1>1, <1>3, <1>4 DEF Effect, EffectOn, SendsOn
<1>5. CASE sl.pending # 0
  <2>1. r.st = [q.st EXCEPT !.pending = 0] /\ r.sends = q.sends
    BY <1>3, <1>5 DEF Effect
  <2>2. r.st \in SlotRec
    BY <1>2, <2>1 DEF EffectOn, SlotRec
  <2>3. QED
    BY <1>2, <2>1, <2>2 DEF EffectOn
<1>6. QED
  BY <1>1, <1>4, <1>5

\* And every handler of a result, which looks at its type and quantity only.
LEMMA HandleEffect ==
    ASSUME NEW s \in Side, NEW sl \in SlotRec, NEW x \in TypeRec, NEW qty \in Nat \ {0}
    PROVE  EffectOn(s, HandleResult(sl, s, x, qty))
<1> DEFINE r == HandleResult(sl, s, x, qty)
<1>1. CASE x.type = "kAccepted"
  <2>1. r = EnterAndReconcile(sl, "kResting", s, qty) /\ "kResting" \in OeState
    BY <1>1 DEF HandleResult, OeState
  <2>2. QED
    BY <2>1, EnterEffect
<1>2. CASE x.type = "kCancelled"
  <2>1. r = EnterAndReconcile(sl, "kIdle", s, qty) /\ "kIdle" \in OeState
    BY <1>2 DEF HandleResult, OeState
  <2>2. QED
    BY <2>1, EnterEffect
<1>3. CASE x.type = "kReject"
  <2>1. r = Effect(sl, <<>>)
    BY <1>3 DEF HandleResult
  <2>2. QED
    BY <2>1 DEF Effect, EffectOn, SendsOn
<1>4. CASE x.type = "kSuccess"
  <2>1. r = Effect(AfterFill(sl, x.qty), <<>>)
    BY <1>4 DEF HandleResult
  <2>2. x.qty \in Nat
    BY DEF TypeRec
  <2>3. AfterFill(sl, x.qty) \in SlotRec
    <3>1. sl.qty - x.qty \in Int /\ "kIdle" \in OeState /\ sl.state \in OeState
      BY <2>2 DEF SlotRec, OeState
    <3>2. QED
      BY <3>1 DEF AfterFill, SlotRec
  <2>4. QED
    BY <2>1, <2>3 DEF Effect, EffectOn, SendsOn
<1>5. x.type \in ResultType
  BY DEF TypeRec
<1>6. QED
  BY <1>1, <1>2, <1>3, <1>4, <1>5 DEF ResultType

\* Quantity and type are all that a handler reads of a result.
LEMMA HandleOf ==
    ASSUME NEW s, NEW sl, NEW pack \in ResultPack, NEW qty
    PROVE  /\ [type |-> pack.type, qty |-> pack.qty] \in TypeRec
           /\ HandleResult(sl, s, pack, qty)
                = HandleResult(sl, s, [type |-> pack.type, qty |-> pack.qty], qty)
<1> DEFINE x == [type |-> pack.type, qty |-> pack.qty]
<1>1. x \in TypeRec /\ x.type = pack.type /\ x.qty = pack.qty
  BY DEF ResultPack, TypeRec
<1> HIDE DEF x
<1>2. HandleResult(sl, s, pack, qty) = HandleResult(sl, s, x, qty)
  BY <1>1, Zenon DEF HandleResult
<1>3. QED
  BY <1>1, <1>2 DEF x

\* OrdersOn of what a handler sends.
SendsOf(s) == [x \in SentRec |-> OneIf(x.side = s, Order(s, x.price, x.qty))]

\* OrdersOn of the orders that SendOrder is called with.
LEMMA SendsIs ==
    ASSUME NEW s \in Side
    PROVE  /\ Maps(SendsOf(s), SentRec, SentRec)
           /\ \A sends \in Seq(SentRec) : OrdersOn(s, sends) = Through(SendsOf(s), sends)
<1>1. Maps(SendsOf(s), SentRec, SentRec)
  <2>1. ASSUME NEW x \in SentRec
        PROVE  OneIf(x.side = s, Order(s, x.price, x.qty)) \in Seq(SentRec)
    <3>1. Order(s, x.price, x.qty) \in SentRec
      BY DEF Order, SentRec
    <3>2. QED
      BY <3>1, OneIfSeq
  <2>2. QED
    BY <2>1 DEF Maps, SendsOf
<1>2. ASSUME NEW sends \in Seq(SentRec)
      PROVE  OrdersOn(s, sends) = Through(SendsOf(s), sends)
  <2>1. \A i \in DOMAIN sends : sends[i] \in SentRec
    OBVIOUS
  <2>2. [i \in DOMAIN sends |-> OneIf(sends[i].side = s, Order(s, sends[i].price, sends[i].qty))]
          = Each(SendsOf(s), sends)
    BY <2>1 DEF Each, SendsOf
  <2>3. QED
    BY <2>2, Zenon DEF OrdersOn, Through
<1>3. QED
  BY <1>1, <1>2

(***************************************************************************)
(* A side sends to itself only.                                            *)
(***************************************************************************)
LEMMA SendsOnSide ==
    ASSUME NEW d \in Side, NEW sends, SendsOn(d, sends)
    PROVE  /\ sends \in Seq(SendRec) /\ sends \in Seq(SentRec)
           /\ OrdersOn(d, sends) = sends
           /\ \A s \in Side : s # d => OrdersOn(s, sends) = <<>>
<1>1. CASE sends = <<>>
  <2>1. sends \in Seq(SendRec) /\ sends \in Seq(SentRec)
    BY <1>1
  <2>2. \A s \in Side : OrdersOn(s, sends) = <<>>
    BY <1>1, <2>1, SendsIs, ThroughEmpty
  <2>3. QED
    BY <1>1, <2>1, <2>2
<1>2. CASE \E x \in SendRec : x.side = d /\ sends = <<x>>
  <2>1. PICK x \in SendRec : x.side = d /\ sends = <<x>>
    BY <1>2
  <2>2. x \in SentRec /\ Order(d, x.price, x.qty) = x
    BY <2>1 DEF SendRec, SentRec, Order
  <2>3. sends \in Seq(SendRec) /\ sends \in Seq(SentRec)
    BY <2>1, <2>2
  <2>4. ASSUME NEW s \in Side
        PROVE  OrdersOn(s, sends) = OneIf(x.side = s, Order(s, x.price, x.qty))
    <3>1. OrdersOn(s, sends) = Through(SendsOf(s), <<x>>)
      BY <2>1, <2>3, SendsIs
    <3>2. Through(SendsOf(s), <<x>>) = SendsOf(s)[x]
      BY <2>2, SendsIs, ThroughOne
    <3>3. QED
      BY <2>2, <3>1, <3>2 DEF SendsOf
  <2>5. QED
    BY <2>1, <2>2, <2>3, <2>4 DEF OneIf
<1>3. QED
  BY <1>1, <1>2 DEF SendsOn

\* The orders of both sides, one behind the other.
LEMMA SendsOnBoth ==
    ASSUME NEW b, NEW a, SendsOn("kBuy", b), SendsOn("kSell", a)
    PROVE  /\ b \o a \in Seq(SendRec)
           /\ OrdersOn("kBuy", b \o a) = b /\ OrdersOn("kSell", b \o a) = a
<1>1. "kBuy" \in Side /\ "kSell" \in Side /\ "kBuy" # "kSell"
  BY DEF Side
<1>2. /\ b \in Seq(SendRec) /\ a \in Seq(SendRec) /\ b \in Seq(SentRec) /\ a \in Seq(SentRec)
      /\ OrdersOn("kBuy", b) = b /\ OrdersOn("kSell", b) = <<>>
      /\ OrdersOn("kBuy", a) = <<>> /\ OrdersOn("kSell", a) = a
  BY <1>1, SendsOnSide
<1>3. b \o a = Cat(b, a) /\ Cat(b, a) \in Seq(SendRec) /\ Cat(b, a) \in Seq(SentRec)
  BY <1>2, CatSeq DEF Cat
<1>4. ASSUME NEW s \in Side
      PROVE  OrdersOn(s, Cat(b, a)) = Cat(OrdersOn(s, b), OrdersOn(s, a))
  <2>1. Through(SendsOf(s), Cat(b, a)) = Cat(Through(SendsOf(s), b), Through(SendsOf(s), a))
    BY <1>2, SendsIs, ThroughCat
  <2>2. QED
    BY <1>2, <1>3, <2>1, SendsIs
<1>5. QED
  BY <1>1, <1>2, <1>3, <1>4, CatSeq

\* SendOrder numbers the orders from n on.
Packs(n, sends) ==
    [i \in DOMAIN sends |-> [side |-> sends[i].side, price |-> sends[i].price,
                             qty |-> sends[i].qty, seq |-> Seqno(n, i)]]

\* A sequence number is an integer, also after it has wrapped.
LEMMA SeqnoFacts ==
    ASSUME NEW n \in Int, NEW i \in Int
    PROVE  Seqno(n, i) \in Int
<1>1. SeqRange \in Nat \ {0} /\ n + i - 1 \in Int
  BY ClientAssumption
<1>2. QED
  BY <1>1 DEF Seqno

\* Numbering the orders leaves them as they are.
LEMMA PacksFacts ==
    ASSUME NEW n \in Int, NEW sends \in Seq(SendRec)
    PROVE  /\ Packs(n, sends) \in Seq(OrderPack)
           /\ \A s \in Side : OrdersOn(s, Packs(n, sends)) = OrdersOn(s, sends)
<1>1. DOMAIN sends = 1..Len(sends) /\ Len(sends) \in Nat
  OBVIOUS
<1>2. ASSUME NEW i \in DOMAIN sends
      PROVE  [side |-> sends[i].side, price |-> sends[i].price, qty |-> sends[i].qty,
              seq |-> Seqno(n, i)] \in OrderPack
  <2>1. sends[i] \in SendRec /\ Seqno(n, i) \in Int
    BY <1>1, SeqnoFacts
  <2>2. QED
    BY <2>1 DEF SendRec, SentRec, OrderPack
<1>3. Packs(n, sends) \in Seq(OrderPack)
  BY <1>1, <1>2, IsASeq DEF Packs
<1>4. /\ DOMAIN Packs(n, sends) = DOMAIN sends
      /\ \A i \in DOMAIN sends : /\ Packs(n, sends)[i].side = sends[i].side
                                 /\ Packs(n, sends)[i].price = sends[i].price
                                 /\ Packs(n, sends)[i].qty = sends[i].qty
  BY DEF Packs
<1>5. ASSUME NEW s \in Side
      PROVE  OrdersOn(s, Packs(n, sends)) = OrdersOn(s, sends)
  <2> DEFINE packs == Packs(n, sends)
             f == [i \in DOMAIN packs |-> OneIf(packs[i].side = s, Order(s, packs[i].price, packs[i].qty))]
             g == [i \in DOMAIN sends |-> OneIf(sends[i].side = s, Order(s, sends[i].price, sends[i].qty))]
  <2>1. f = g
    <3> HIDE DEF packs
    <3>1. DOMAIN packs = DOMAIN sends
      BY <1>4 DEF packs
    <3>2. \A i \in DOMAIN sends : /\ packs[i].side = sends[i].side /\ packs[i].price = sends[i].price
                                  /\ packs[i].qty = sends[i].qty
      BY <1>4 DEF packs
    <3>3. QED
      BY <3>1, <3>2
  <2>2. QED
    BY <2>1, Zenon DEF OrdersOn
<1>6. QED
  BY <1>3, <1>5

(***************************************************************************)
(* SendOrders writes the orders behind those under way, unless the server  *)
(* has gone.                                                               *)
(***************************************************************************)
LEMMA Sending ==
    ASSUME Types, NEW d \in Clients, NEW sends \in Seq(SendRec), SendOrders(d, sends)
    PROVE  /\ up' \in [Clients -> Seq(OrderPack)] /\ next_seq' \in [Clients -> Int]
           /\ \A c \in Clients : c # d => up'[c] = up[c]
           /\ server = "up" /\ inbound' = inbound =>
                \A s \in Side : Sent(d, s)' = Sent(d, s) \o OrdersOn(s, sends)
<1>1. /\ next_seq \in [Clients -> Int] /\ next_seq[d] \in Int /\ up \in [Clients -> Seq(OrderPack)]
      /\ up[d] \in Seq(OrderPack) /\ inbound \in Seq(Item)
  BY DEF Types
<1>2. Len(sends) \in Nat
  OBVIOUS
<1>3. next_seq' \in [Clients -> Int]
  <2>1. Seqno(next_seq[d], Len(sends) + 1) \in Int
    BY <1>1, <1>2, SeqnoFacts
  <2>2. QED
    BY <1>1, <2>1 DEF SendOrders
<1>4. PICK packs \in Seq(OrderPack) : packs = Packs(next_seq[d], sends)
  BY <1>1, PacksFacts
<1>5. up' = [up EXCEPT ![d] = IF server = "down" THEN @ ELSE @ \o packs]
  BY <1>4, Zenon DEF SendOrders, Packs
<1>6. Cat(up[d], packs) \in Seq(OrderPack) /\ up[d] \o packs = Cat(up[d], packs)
  BY <1>1, CatSeq DEF Cat
<1>7. up' \in [Clients -> Seq(OrderPack)] /\ \A c \in Clients : c # d => up'[c] = up[c]
  BY <1>1, <1>5, <1>6
<1>8. ASSUME server = "up", inbound' = inbound, NEW s \in Side
      PROVE  Sent(d, s)' = Sent(d, s) \o OrdersOn(s, sends)
  <2>1. up'[d] = Cat(up[d], packs)
    BY <1>1, <1>5, <1>6, <1>8
  <2> DEFINE q == OrdersOn(s, Queued(d, inbound))
             u == OrdersOn(s, up[d])
             n == OrdersOn(s, sends)
  <2>2. OrdersOn(s, packs) = n
    BY <1>1, <1>4, PacksFacts
  <2>3. u \in Seq(SentRec) /\ n \in Seq(SentRec) /\ OrdersOn(s, Cat(up[d], packs)) = Cat(u, n)
    BY <1>1, <2>2, OrdersFacts
  <2>4. q \in Seq(SentRec) /\ Sent(d, s) = Cat(q, u)
    BY LineViews
  <2>5. OrdersOn(s, Queued(d, inbound) \o Cat(up[d], packs)) = Cat(q, OrdersOn(s, Cat(up[d], packs)))
    <3>1. <<>> \in Seq(ResultPack) /\ <<>> \in Seq(Seq(OutRec))
      OBVIOUS
    <3>2. PartsOf(d, s, inbound, Cat(up[d], packs), <<>>, <<>>)
      BY <1>1, <1>6, <3>1, ViewParts
    <3>3. QED
      BY <3>2, Zenon DEF PartsOf
  <2>6. Sent(d, s)' = Cat(q, Cat(u, n))
    BY <1>8, <2>1, <2>3, <2>5 DEF Sent, OrdersFrom
  <2> HIDE DEF q, u, n
  <2>7. Cat(Cat(q, u), n) = Cat(q, Cat(u, n))
    BY <2>3, <2>4, CatAssociative
  <2>8. Sent(d, s)' = Cat(Sent(d, s), n)
    BY <2>4, <2>6, <2>7
  <2>9. QED
    BY <2>8 DEF Cat, n
<1>9. QED
  BY <1>3, <1>7, <1>8

\* Quantities are positive.
LEMMA QtyFacts ==
    ASSUME NEW c \in Clients
    PROVE  /\ \A qty \in OrderQty(c) : qty \in Nat \ {0}
           /\ c \in Quoters => kOrderQty \in OrderQty(c)
BY ClientAssumption DEF OrderQty

-----------------------------------------------------------------------------
(* Targets.                                                                *)

\* A step of the process d only.
ProcessStep(d) ==
    /\ Apart /\ server' = server /\ listener' = listener /\ sessions' = sessions
    /\ OeReady(d) /\ conn'[d] = conn[d]
    /\ \A c \in Clients : c # d => Elsewhere(c)

\* Client::OnOrderBook.
LEMMA BookStep ==
    ASSUME Types, NEW d \in Clients, NEW bid \in Targets, NEW ask \in Targets,
           OnOrderBook(d, bid, ask), UNCHANGED serverVars
    PROVE  /\ Types' /\ ProcessStep(d)
           /\ \A s \in Side : d \in Ready => Follows(<<d, s>>)
<1> DEFINE b == Reconcile(slot[d]["kBuy"], "kBuy", bid, kOrderQty)
           a == Reconcile(slot[d]["kSell"], "kSell", ask, kOrderQty)
<1>1. bid \in Int /\ ask \in Int /\ kOrderQty \in Nat \ {0} /\ "kBuy" \in Side /\ "kSell" \in Side
  BY SystemAssumption, ClientAssumption DEF Side
<1>2. slot \in [Clients -> [Side -> SlotRec]] /\ slot[d]["kBuy"] \in SlotRec /\ slot[d]["kSell"] \in SlotRec
  BY <1>1 DEF Types
<1>3. EffectOn("kBuy", b) /\ EffectOn("kSell", a)
  BY <1>1, <1>2, ReconcileEffect
<1>4. /\ slot' = [slot EXCEPT ![d] = [kBuy |-> b.st, kSell |-> a.st]]
      /\ SendOrders(d, b.sends \o a.sends) /\ d \in Quoters
      /\ server' = server /\ conn' = conn /\ down' = down
      /\ listener' = listener /\ sessions' = sessions /\ inbound' = inbound
      /\ queue' = queue /\ posted' = posted
  BY DEF OnOrderBook, serverVars
<1> HIDE DEF b, a
<1>5. /\ b.sends \o a.sends \in Seq(SendRec)
      /\ OrdersOn("kBuy", b.sends \o a.sends) = b.sends
      /\ OrdersOn("kSell", b.sends \o a.sends) = a.sends
  BY <1>3, SendsOnBoth DEF EffectOn
<1>6. /\ up' \in [Clients -> Seq(OrderPack)] /\ next_seq' \in [Clients -> Int]
      /\ \A c \in Clients : c # d => up'[c] = up[c]
      /\ server = "up" /\ inbound' = inbound =>
           \A s \in Side : Sent(d, s)' = Sent(d, s) \o OrdersOn(s, b.sends \o a.sends)
  BY <1>4, <1>5, Sending
<1>7. [kBuy |-> b.st, kSell |-> a.st] \in [Side -> SlotRec]
  BY <1>3 DEF EffectOn, Side
<1>8. /\ slot' \in [Clients -> [Side -> SlotRec]]
      /\ slot'[d]["kBuy"] = b.st /\ slot'[d]["kSell"] = a.st
      /\ \A c \in Clients : c # d => slot'[c] = slot[c]
  BY <1>2, <1>4, <1>7
<1>9. Types'
  BY <1>4, <1>6, <1>8 DEF Types
<1>10. ProcessStep(d)
  BY <1>4, <1>6, <1>8 DEF ProcessStep, Apart, Elsewhere, OnOrderBook
<1>11. ASSUME NEW s \in Side, d \in Ready
       PROVE  Follows(<<d, s>>)
  <2>1. d \in Ready' /\ server = "up"
    BY <1>4, <1>11 DEF Ready
  <2>2. Rests(d, s)' = Rests(d, s) /\ Unread(d, s)' = Unread(d, s)
    BY <1>4, Zenon DEF Rests, Unread, ResultsTo
  <2>3. kOrderQty \in OrderQty(d)
    BY <1>4, QtyFacts
  <2>4. Sent(d, s)' = Sent(d, s) \o OrdersOn(s, b.sends \o a.sends)
    BY <1>4, <1>6, <2>1
  <2>5. CASE s = "kBuy"
    BY <1>1, <1>5, <1>8, <1>11, <2>1, <2>2, <2>3, <2>4, <2>5, TargetLine DEF b, Follows
  <2>6. CASE s = "kSell"
    BY <1>1, <1>5, <1>8, <1>11, <2>1, <2>2, <2>3, <2>4, <2>6, TargetLine DEF a, Follows
  <2>7. QED
    BY <2>5, <2>6 DEF Side
<1>12. QED
  BY <1>9, <1>10, <1>11

(***************************************************************************)
(* A handler of one side writes its effect to the slot and the stream.     *)
(***************************************************************************)
LEMMA SideStep ==
    ASSUME Types, NEW d \in Clients, NEW s \in Side, NEW r, EffectOn(s, r),
           slot' = [slot EXCEPT ![d][s] = r.st], SendOrders(d, r.sends)
    PROVE  /\ slot' \in [Clients -> [Side -> SlotRec]] /\ slot'[d][s] = r.st
           /\ \A t \in Side : t # s => slot'[d][t] = slot[d][t]
           /\ \A c \in Clients : c # d => slot'[c] = slot[c] /\ up'[c] = up[c]
           /\ up' \in [Clients -> Seq(OrderPack)] /\ next_seq' \in [Clients -> Int]
           /\ server = "up" /\ inbound' = inbound =>
                /\ Sent(d, s)' = Sent(d, s) \o r.sends
                /\ \A t \in Side : t # s => Sent(d, t)' = Sent(d, t)
<1>1. slot \in [Clients -> [Side -> SlotRec]] /\ slot[d] \in [Side -> SlotRec]
  BY DEF Types
<1>2. r.st \in SlotRec /\ SendsOn(s, r.sends)
  BY DEF EffectOn
<1>3. /\ slot' \in [Clients -> [Side -> SlotRec]] /\ slot'[d][s] = r.st
      /\ \A t \in Side : t # s => slot'[d][t] = slot[d][t]
      /\ \A c \in Clients : c # d => slot'[c] = slot[c]
  <2>1. PICK x \in SlotRec : x = r.st
    BY <1>2
  <2>2. PICK y \in [Side -> SlotRec] : y = [slot[d] EXCEPT ![s] = x]
    BY <1>1
  <2>3. slot' = [slot EXCEPT ![d] = y]
    BY <2>1, <2>2
  <2>4. y[s] = x /\ \A t \in Side : t # s => y[t] = slot[d][t]
    BY <1>1, <2>2
  <2>5. slot' \in [Clients -> [Side -> SlotRec]] /\ slot'[d] = y
        /\ \A c \in Clients : c # d => slot'[c] = slot[c]
    BY <1>1, <2>3
  <2>6. QED
    BY <2>1, <2>4, <2>5
<1>4. /\ r.sends \in Seq(SendRec) /\ OrdersOn(s, r.sends) = r.sends
      /\ \A t \in Side : t # s => OrdersOn(t, r.sends) = <<>>
  BY <1>2, SendsOnSide
<1>5. /\ up' \in [Clients -> Seq(OrderPack)] /\ next_seq' \in [Clients -> Int]
      /\ \A c \in Clients : c # d => up'[c] = up[c]
      /\ server = "up" /\ inbound' = inbound =>
           \A t \in Side : Sent(d, t)' = Sent(d, t) \o OrdersOn(t, r.sends)
  BY <1>4, Sending
<1>6. ASSUME NEW t \in Side
      PROVE  Sent(d, t) \o <<>> = Sent(d, t)
  <2>1. Sent(d, t) \in Seq(SentRec)
    BY LineViews
  <2>2. QED
    BY <2>1, CatSeq DEF Cat
<1>7. ASSUME server = "up", inbound' = inbound
      PROVE  /\ Sent(d, s)' = Sent(d, s) \o r.sends
             /\ \A t \in Side : t # s => Sent(d, t)' = Sent(d, t)
  <2>1. \A t \in Side : Sent(d, t)' = Sent(d, t) \o OrdersOn(t, r.sends)
    BY <1>5, <1>7
  <2>2. QED
    BY <1>4, <1>6, <2>1
<1>8. QED
  BY <1>3, <1>5, <1>7

\* Consumer::TickLoop.
LEMMA TickStep ==
    ASSUME Types, NEW d \in Clients, NEW t \in Side, NEW price \in Targets, NEW qty \in OrderQty(d),
           Tick(d, t, price, qty), UNCHANGED serverVars
    PROVE  /\ Types' /\ ProcessStep(d)
           /\ \A s \in Side : d \in Ready => Follows(<<d, s>>)
<1> DEFINE r == Reconcile(slot[d][t], t, price, qty)
<1>1. price \in Int /\ qty \in Nat \ {0}
  BY SystemAssumption, QtyFacts
<1>2. slot[d][t] \in SlotRec
  BY DEF Types
<1>3. EffectOn(t, r)
  BY <1>1, <1>2, ReconcileEffect
<1>4. /\ slot' = [slot EXCEPT ![d][t] = r.st] /\ SendOrders(d, r.sends)
      /\ server' = server /\ conn' = conn /\ down' = down
      /\ listener' = listener /\ sessions' = sessions /\ inbound' = inbound
      /\ queue' = queue /\ posted' = posted
  BY DEF Tick, serverVars
<1> HIDE DEF r
<1>5. /\ slot' \in [Clients -> [Side -> SlotRec]] /\ slot'[d][t] = r.st
      /\ \A s \in Side : s # t => slot'[d][s] = slot[d][s]
      /\ \A c \in Clients : c # d => slot'[c] = slot[c] /\ up'[c] = up[c]
      /\ up' \in [Clients -> Seq(OrderPack)] /\ next_seq' \in [Clients -> Int]
      /\ server = "up" /\ inbound' = inbound =>
           /\ Sent(d, t)' = Sent(d, t) \o r.sends
           /\ \A s \in Side : s # t => Sent(d, s)' = Sent(d, s)
  BY <1>3, <1>4, SideStep
<1>6. Types'
  BY <1>4, <1>5 DEF Types
<1>7. ProcessStep(d)
  BY <1>4, <1>5 DEF ProcessStep, Apart, Elsewhere, Tick
<1>8. ASSUME NEW s \in Side, d \in Ready
      PROVE  Follows(<<d, s>>)
  <2>1. d \in Ready' /\ server = "up"
    BY <1>4, <1>8 DEF Ready
  <2>2. Rests(d, s)' = Rests(d, s) /\ Unread(d, s)' = Unread(d, s)
    BY <1>4, Zenon DEF Rests, Unread, ResultsTo
  <2>3. CASE s = t
    BY <1>1, <1>4, <1>5, <1>8, <2>1, <2>2, <2>3, TargetLine DEF r, Follows
  <2>4. CASE s # t
    BY <1>4, <1>5, <1>8, <2>1, <2>2, <2>4, SameLine DEF Follows
  <2>5. QED
    BY <2>3, <2>4
<1>9. QED
  BY <1>6, <1>7, <1>8

\* A policy of process d computes a target.
LEMMA TargetSteps ==
    ASSUME Types, NEW d \in Clients, Retarget(d)
    PROVE  /\ Types' /\ ProcessStep(d)
           /\ \A s \in Side : d \in Ready => Follows(<<d, s>>)
<1>1. CASE \E bid, ask \in Targets : OnOrderBook(d, bid, ask)
  <2>1. PICK bid \in Targets, ask \in Targets : OnOrderBook(d, bid, ask)
    BY <1>1
  <2>2. UNCHANGED serverVars
    BY DEF Retarget
  <2>3. QED
    BY <2>1, <2>2, BookStep
<1>2. CASE \E side \in Side, price \in Targets, qty \in OrderQty(d) :
             price >= 1 /\ Tick(d, side, price, qty)
  BY <1>2, TickStep DEF Retarget
<1>3. \/ \E bid, ask \in Targets : OnOrderBook(d, bid, ask)
      \/ \E side \in Side, price \in Targets, qty \in OrderQty(d) :
           price >= 1 /\ Tick(d, side, price, qty)
  BY Zenon DEF Retarget
<1>4. QED
  BY <1>1, <1>2, <1>3

-----------------------------------------------------------------------------
(* Results.                                                                *)

(***************************************************************************)
(* Reading a packet takes the first result from the view of its side.      *)
(***************************************************************************)
LEMMA ReadPacket ==
    ASSUME Types, NEW d \in Clients, down[d] # <<>>,
           down' = [down EXCEPT ![d] = Tail(@)], posted' = posted,
           NEW pack, NEW t, NEW x,
           pack = Head(down[d]), t = pack.side, x = [type |-> pack.type, qty |-> pack.qty]
    PROVE  /\ pack \in ResultPack /\ t \in Side /\ x \in TypeRec
           /\ down' \in [Clients -> Seq(ResultPack)]
           /\ Unread(d, t) # <<>> /\ Head(Unread(d, t)) = x
           /\ Unread(d, t)' = Tail(Unread(d, t))
           /\ \A s \in Side : s # t => Unread(d, s)' = Unread(d, s)
<1>1. down \in [Clients -> Seq(ResultPack)] /\ down[d] \in Seq(ResultPack) /\ inbound \in Seq(Item)
      /\ posted \in Seq(Seq(OutRec)) /\ up[d] \in Seq(OrderPack)
  BY DEF Types
<1>2. PICK one \in Seq(ResultPack), rest \in Seq(ResultPack) :
        /\ one = <<pack>> /\ rest = Tail(down[d]) /\ down[d] = Cat(one, rest) /\ pack \in ResultPack
  BY <1>1, HeadFirst
<1>3. down'[d] = rest /\ down' \in [Clients -> Seq(ResultPack)]
  BY <1>1, <1>2
<1>4. x \in TypeRec /\ t \in Side
  BY <1>2 DEF ResultPack, TypeRec
<1>5. ASSUME NEW s \in Side
      PROVE  /\ Unread(d, s)' = Cat(ResultsOn(s, rest), Posted(d, s))
             /\ Unread(d, s) = Cat(Cat(OneIf(t = s, x), ResultsOn(s, rest)), Posted(d, s))
             /\ ResultsOn(s, rest) \in Seq(TypeRec) /\ Posted(d, s) \in Seq(TypeRec)
  <2>1. PartsOf(d, s, inbound, up[d], rest, posted)
    BY <1>1, <1>2, ViewParts
  <2>2. /\ ResultsOn(s, rest) \in Seq(TypeRec) /\ Unread(d, s)' = Cat(ResultsOn(s, rest), Posted(d, s))
    BY <1>3, <2>1, Zenon DEF PartsOf, Posted, Unread, ResultsTo
  <2>3. ResultsOn(s, one) = OneIf(t = s, x)
    BY <1>2, ResultsFacts
  <2>4. ResultsOn(s, down[d]) = Cat(ResultsOn(s, one), ResultsOn(s, rest))
    <3>1. ResultsOn(s, Cat(one, rest)) = Cat(ResultsOn(s, one), ResultsOn(s, rest))
      BY ResultsFacts
    <3>2. QED
      BY <1>2, <3>1
  <2>5. Unread(d, s) = Cat(ResultsOn(s, down[d]), Posted(d, s)) /\ Posted(d, s) \in Seq(TypeRec)
    BY LineViews
  <2>6. QED
    BY <2>2, <2>3, <2>4, <2>5
<1>6. ASSUME NEW s \in Side, s # t
      PROVE  Unread(d, s)' = Unread(d, s)
  BY <1>5, <1>6, CatSeq DEF OneIf
<1>7. /\ Unread(d, t) # <<>> /\ Head(Unread(d, t)) = x
      /\ Unread(d, t)' = Tail(Unread(d, t))
  <2>1. PICK y \in Seq(TypeRec) : y = <<x>>
    <3>1. <<x>> \in Seq(TypeRec)
      BY <1>4
    <3>2. QED
      BY <3>1
  <2>2. PICK a \in Seq(TypeRec), b \in Seq(TypeRec) : a = ResultsOn(t, rest) /\ b = Posted(d, t)
    BY <1>4, <1>5
  <2>3. OneIf(t = t, x) = y
    BY <2>1 DEF OneIf
  <2>4. Unread(d, t)' = Cat(a, b) /\ Unread(d, t) = Cat(Cat(y, a), b)
    <3>1. /\ Unread(d, t)' = Cat(ResultsOn(t, rest), Posted(d, t))
          /\ Unread(d, t) = Cat(Cat(OneIf(t = t, x), ResultsOn(t, rest)), Posted(d, t))
      BY <1>4, <1>5, Zenon
    <3>2. QED
      BY <2>2, <2>3, <3>1, Zenon
  <2>5. Cat(Cat(y, a), b) = Cat(y, Cat(a, b)) /\ Cat(a, b) \in Seq(TypeRec)
    BY CatAssociative, CatSeq
  <2>6. Cat(<<x>>, Cat(a, b)) # <<>> /\ Head(Cat(<<x>>, Cat(a, b))) = x
        /\ Tail(Cat(<<x>>, Cat(a, b))) = Cat(a, b)
    BY <1>4, <2>5, AfterFirst
  <2>7. QED
    BY <2>1, <2>4, <2>5, <2>6
<1>8. QED
  BY <1>2, <1>3, <1>4, <1>6, <1>7

\* One round of OeReader.
LEMMA ReadStep ==
    ASSUME Types, NEW d \in Clients, ReadResult(d)
    PROVE  /\ Types' /\ ProcessStep(d)
           /\ \A s \in Side : d \in Ready => Follows(<<d, s>>)
<1>1. PICK qty \in OrderQty(d) : OeReader(d, qty) /\ UNCHANGED <<targets, serverVars>>
  BY DEF ReadResult
<1>2. qty \in Nat \ {0}
  BY QtyFacts
<1>3. /\ server' = server /\ conn' = conn /\ down[d] # <<>> /\ conn[d] = "ready"
      /\ down' = [down EXCEPT ![d] = Tail(@)]
      /\ listener' = listener /\ sessions' = sessions /\ inbound' = inbound
      /\ queue' = queue /\ posted' = posted
  BY <1>1 DEF OeReader, serverVars
<1>4. PICK pack : pack = Head(down[d])
  OBVIOUS
<1>5. PICK t : t = pack.side
  OBVIOUS
<1>6. PICK x : x = [type |-> pack.type, qty |-> pack.qty]
  OBVIOUS
<1>7. /\ pack \in ResultPack /\ t \in Side /\ x \in TypeRec
      /\ down' \in [Clients -> Seq(ResultPack)]
      /\ Unread(d, t) # <<>> /\ Head(Unread(d, t)) = x
      /\ Unread(d, t)' = Tail(Unread(d, t))
      /\ \A s \in Side : s # t => Unread(d, s)' = Unread(d, s)
  <2>1. posted' = posted /\ down[d] # <<>> /\ down' = [down EXCEPT ![d] = Tail(@)]
    BY <1>3
  <2>2. QED
    BY <1>4, <1>5, <1>6, <2>1, ReadPacket, Zenon
<1>8. PICK r : r = HandleResult(slot[d][t], t, x, qty)
  OBVIOUS
<1>9. slot' = [slot EXCEPT ![d][t] = r.st] /\ SendOrders(d, r.sends)
  <2>1. HandleResult(slot[d][t], t, pack, qty) = r
    BY <1>4, <1>5, <1>6, <1>8, <1>7, HandleOf
  <2>2. QED
    BY <1>1, <1>4, <1>5, <2>1, Zenon DEF OeReader
<1>10. slot[d][t] \in SlotRec
  BY <1>7 DEF Types
<1>11. EffectOn(t, r)
  BY <1>2, <1>8, <1>10, <1>7, HandleEffect
<1>12. /\ slot' \in [Clients -> [Side -> SlotRec]] /\ slot'[d][t] = r.st
       /\ \A s \in Side : s # t => slot'[d][s] = slot[d][s]
       /\ \A c \in Clients : c # d => slot'[c] = slot[c] /\ up'[c] = up[c]
       /\ up' \in [Clients -> Seq(OrderPack)] /\ next_seq' \in [Clients -> Int]
       /\ server = "up" /\ inbound' = inbound =>
            /\ Sent(d, t)' = Sent(d, t) \o r.sends
            /\ \A s \in Side : s # t => Sent(d, s)' = Sent(d, s)
  BY <1>9, <1>11, <1>7, SideStep
<1>13. Types'
  BY <1>3, <1>12, <1>7 DEF Types
<1>14. ProcessStep(d)
  <2>1. \A c \in Clients : c # d => down'[c] = down[c]
    BY <1>3 DEF Types
  <2>2. QED
    BY <1>3, <1>12, <2>1 DEF ProcessStep, Apart, Elsewhere, OeReady
<1>15. ASSUME NEW s \in Side, d \in Ready
       PROVE  Follows(<<d, s>>)
  <2>1. d \in Ready' /\ server = "up"
    BY <1>3, <1>15 DEF Ready
  <2>2. Rests(d, s)' = Rests(d, s)
    BY <1>3, Zenon DEF Rests
  <2>3. CASE s = t
    <3>1. slot'[d][t] = HandleResult(slot[d][t], t, Head(Unread(d, t)), qty).st
          /\ Sent(d, t)' = Sent(d, t) \o HandleResult(slot[d][t], t, Head(Unread(d, t)), qty).sends
      BY <1>3, <1>8, <1>12, <1>7, <2>1, Zenon
    <3>2. P!LineStep(<<d, t>>)
      BY <1>2, <1>15, <1>7, <2>1, <2>2, <2>3, <3>1, ReadLine
    <3>3. QED
      BY <2>3, <3>2 DEF Follows
  <2>4. CASE s # t
    BY <1>3, <1>12, <1>15, <1>7, <2>1, <2>2, <2>4, SameLine DEF Follows
  <2>5. QED
    BY <2>3, <2>4
<1>16. QED
  BY <1>13, <1>14, <1>15

-----------------------------------------------------------------------------
(* Connections.                                                            *)

\* The queues of the server and the book are as before.
LEMMA SameTrace ==
    ASSUME NEW c, Apart
    PROVE  NoTrace(c)' <=> NoTrace(c)
BY Zenon DEF NoTrace, Apart, Rests, Posted

\* A step elsewhere leaves a connection as it is.
LEMMA ElsewhereConnection ==
    ASSUME NEW c \in Clients, Connections(c), Elsewhere(c), Apart, c \in sessions' <=> c \in sessions
    PROVE  Connections(c)'
<1>1. NoTrace(c)' <=> NoTrace(c)
  BY SameTrace
<1>2. Blank(c)' <=> Blank(c)
  BY Zenon DEF Blank, Elsewhere
<1>3. QED
  BY <1>1, <1>2 DEF Connections, Elsewhere

\* What the invariant says of the connections and the lines, after a step.
Kept == (\A c \in Clients : Connections(c)') /\ \A c \in Clients, s \in Side : Follows(<<c, s>>)

\* A step of one connected process.
LEMMA ProcessKeeps ==
    ASSUME \A c \in Clients : Connections(c), NEW d \in Clients, ProcessStep(d),
           \A s \in Side : d \in Ready => Follows(<<d, s>>)
    PROVE  Kept
<1>1. ASSUME NEW c \in Clients, c # d
      PROVE  Connections(c)' /\ \A s \in Side : Follows(<<c, s>>)
  BY <1>1, ElsewhereConnection, ElsewhereLine DEF ProcessStep
<1>2. Connections(d)'
  <2>1. NoTrace(d)' <=> NoTrace(d)
    BY SameTrace DEF ProcessStep
  <2>2. QED
    BY <2>1 DEF ProcessStep, Connections, OeReady
<1>3. ASSUME NEW s \in Side, d \notin Ready
      PROVE  Follows(<<d, s>>)
  <2>1. d \notin Ready'
    BY <1>3 DEF Ready, ProcessStep
  <2>2. QED
    BY <2>1, QuietLine
<1>4. QED
  BY <1>1, <1>2, <1>3 DEF Kept

\* A step that changes the connection of d only.
LEMMA ConnectionKeeps ==
    ASSUME \A c \in Clients : Connections(c), NEW d \in Clients, Apart,
           \A c \in Clients : c # d => Elsewhere(c) /\ (c \in sessions' <=> c \in sessions),
           Connections(d)', \A s \in Side : Follows(<<d, s>>)
    PROVE  Kept
<1>1. ASSUME NEW c \in Clients, c # d
      PROVE  Connections(c)' /\ \A s \in Side : Follows(<<c, s>>)
  BY <1>1, ElsewhereConnection, ElsewhereLine
<1>2. QED
  BY <1>1 DEF Kept

\* OeListener accepts, or registers a session.
LEMMA AcceptStep ==
    ASSUME Types, \A c \in Clients : Connections(c), NEW d \in Clients, OeAccept(d) \/ OeRegister(d)
    PROVE  Types' /\ Kept
<1>1. CASE OeAccept(d)
  <2>1. /\ server' = server /\ slot' = slot /\ next_seq' = next_seq /\ up' = up /\ down' = down
        /\ sessions' = sessions /\ inbound' = inbound /\ queue' = queue /\ posted' = posted
        /\ conn[d] = "start" /\ listener' = {d} /\ conn' = [conn EXCEPT ![d] = "assigned"]
    BY <1>1 DEF OeAccept
  <2>2. Types' /\ conn'[d] = "assigned" /\ \A c \in Clients : c # d => conn'[c] = conn[c]
    BY <2>1 DEF Types, Connection
  <2>3. Apart /\ \A c \in Clients : c # d => Elsewhere(c) /\ (c \in sessions' <=> c \in sessions)
    BY <2>1, <2>2 DEF Apart, Elsewhere
  <2>4. Connections(d)'
    <3>1. NoTrace(d)' <=> NoTrace(d)
      BY <2>3, SameTrace
    <3>2. Blank(d)' <=> Blank(d)
      BY <2>1, Zenon DEF Blank
    <3>3. QED
      BY <2>1, <2>2, <3>1, <3>2 DEF Connections
  <2>5. d \notin Ready'
    BY <2>2 DEF Ready
  <2>6. QED
    BY <2>2, <2>3, <2>4, <2>5, QuietLine, ConnectionKeeps
<1>2. CASE OeRegister(d)
  <2>1. /\ server' = server /\ slot' = slot /\ next_seq' = next_seq /\ up' = up /\ down' = down
        /\ sessions' = sessions \cup {d} /\ inbound' = inbound /\ queue' = queue /\ posted' = posted
        /\ listener' = {} /\ conn' = conn
    BY <1>2 DEF OeRegister, clientVars
  <2>2. Types' /\ Apart /\ \A c \in Clients : Elsewhere(c)
    BY <2>1 DEF Types, Apart, Elsewhere
  <2>3. \A c \in Clients : c # d => (c \in sessions' <=> c \in sessions)
    BY <2>1
  <2>4. Connections(d)'
    <3>1. NoTrace(d)' <=> NoTrace(d)
      BY <2>2, SameTrace
    <3>2. Blank(d)' <=> Blank(d)
      BY <2>1, Zenon DEF Blank
    <3>3. QED
      BY <2>1, <3>1, <3>2 DEF Connections
  <2>5. QED
    BY <2>2, <2>3, <2>4, ElsewhereLine, ConnectionKeeps
<1>3. QED
  BY <1>1, <1>2

\* The server finds a process gone.
LEMMA GoneStep ==
    ASSUME Types, \A c \in Clients : Connections(c), NEW d \in Clients,
           OeHandshakeFails(d) \/ ServerOeReaderEnds(d)
    PROVE  Types' /\ Kept
<1>1. /\ server' = server /\ slot' = slot /\ next_seq' = next_seq /\ down' = down /\ conn' = conn
      /\ inbound' = inbound /\ queue' = queue /\ posted' = posted
      /\ conn[d] = "closed" /\ up' = [up EXCEPT ![d] = <<>>]
      /\ listener' = {} \/ listener' = listener
      /\ sessions' = sessions \/ sessions' = sessions \ {d}
  BY DEF OeHandshakeFails, ServerOeReaderEnds
<1>2. Types' /\ \A c \in Clients : c # d => up'[c] = up[c]
  BY <1>1 DEF Types
<1>3. Apart /\ \A c \in Clients : c # d => Elsewhere(c) /\ (c \in sessions' <=> c \in sessions)
  BY <1>1, <1>2 DEF Apart, Elsewhere
<1>4. Connections(d)' /\ d \notin Ready'
  BY <1>1 DEF Connections, Ready
<1>5. QED
  BY <1>2, <1>3, <1>4, QuietLine, ConnectionKeeps

\* The process loses the server, or ends.
LEMMA EndStep ==
    ASSUME Types, \A c \in Clients : Connections(c), NEW d \in Clients,
           OeReaderEnds(d) \/ Stop(d), UNCHANGED serverVars
    PROVE  Types' /\ Kept
<1>1. /\ server' = server /\ next_seq' = next_seq /\ up' = up
      /\ inbound' = inbound /\ queue' = queue /\ posted' = posted
      /\ listener' = listener /\ sessions' = sessions
      /\ down' = [down EXCEPT ![d] = <<>>]
      /\ \/ conn' = [conn EXCEPT ![d] = "lost"] /\ server = "down" /\ slot' = slot
         \/ conn' = [conn EXCEPT ![d] = "closed"]
            /\ slot' = [slot EXCEPT ![d] = [s \in Side |-> NoOrder]]
  BY DEF OeReaderEnds, Stop, serverVars
<1>2. [s \in Side |-> NoOrder] \in [Side -> SlotRec] /\ {"lost", "closed"} \subseteq Connection
  BY DEF NoOrder, SlotRec, OeState, Connection
<1>3. /\ slot \in [Clients -> [Side -> SlotRec]] /\ conn \in [Clients -> Connection]
      /\ down \in [Clients -> Seq(ResultPack)]
  BY DEF Types
<1>4. /\ slot' \in [Clients -> [Side -> SlotRec]] /\ conn' \in [Clients -> Connection]
      /\ \A c \in Clients : c # d => slot'[c] = slot[c] /\ conn'[c] = conn[c]
  BY <1>1, <1>2, <1>3
<1>5. /\ down' \in [Clients -> Seq(ResultPack)] /\ \A c \in Clients : c # d => down'[c] = down[c]
      /\ conn'[d] = "closed" \/ (conn'[d] = "lost" /\ server' = "down")
  BY <1>1, <1>3
<1>6. Types'
  BY <1>1, <1>4, <1>5 DEF Types
<1>7. Apart /\ \A c \in Clients : c # d => Elsewhere(c) /\ (c \in sessions' <=> c \in sessions)
  BY <1>1, <1>4, <1>5 DEF Apart, Elsewhere
<1>8. d \notin Ready'
  BY <1>5 DEF Ready
<1>9. Connections(d)'
  <2>1. NoTrace(d)' <=> NoTrace(d)
    BY <1>7, SameTrace
  <2>2. conn'[d] = "lost" => conn[d] = "ready"
    BY <1>3 DEF OeReaderEnds, Stop
  <2>3. QED
    BY <1>1, <1>5, <2>1, <2>2 DEF Connections
<1>10. QED
  BY <1>6, <1>7, <1>8, <1>9, QuietLine, ConnectionKeeps

\* The assigned id arrives: the process starts with nothing under way.
LEMMA ReadIdStep ==
    ASSUME Types, \A c \in Clients : Connections(c), NEW d \in Clients,
           ReadId(d), UNCHANGED serverVars
    PROVE  Types' /\ Kept
<1>1. /\ server' = server /\ slot' = slot /\ next_seq' = next_seq /\ up' = up /\ down' = down
      /\ inbound' = inbound /\ queue' = queue /\ posted' = posted
      /\ listener' = listener /\ sessions' = sessions /\ conn[d] = "assigned"
      /\ \/ conn' = [conn EXCEPT ![d] = "ready"]
         \/ conn' = [conn EXCEPT ![d] = "failed"] /\ server = "down"
  BY DEF ReadId, serverVars
<1>2. conn \in [Clients -> Connection] /\ {"ready", "failed"} \subseteq Connection
  BY DEF Types, Connection
<1>3. /\ conn' \in [Clients -> Connection] /\ \A c \in Clients : c # d => conn'[c] = conn[c]
      /\ conn'[d] = "ready" \/ (conn'[d] = "failed" /\ server' = "down")
  BY <1>1, <1>2
<1>4. Types'
  BY <1>1, <1>3 DEF Types
<1>5. Apart /\ \A c \in Clients : c # d => Elsewhere(c) /\ (c \in sessions' <=> c \in sessions)
  BY <1>1, <1>3 DEF Apart, Elsewhere
<1>6. Blank(d) /\ NoTrace(d)
  BY <1>1 DEF Connections
<1>7. Connections(d)'
  <2>1. NoTrace(d)'
    BY <1>5, <1>6, SameTrace
  <2>2. QED
    BY <1>3, <2>1 DEF Connections
<1>8. ASSUME NEW s \in Side, d \in Ready'
      PROVE  Follows(<<d, s>>)
  <2>1. slot'[d][s] = NoOrder /\ up[d] = <<>> /\ ResultsOn(s, down[d]) = <<>>
        /\ Queued(d, inbound) = <<>> /\ Rests(d, s) = <<>> /\ Posted(d, s) = <<>>
    BY <1>1, <1>6 DEF Blank, NoTrace
  <2>2. <<>> \in Seq(OrderPack) /\ <<>> \in Seq(TypeRec) /\ <<>> \in Seq(SentRec)
    OBVIOUS
  <2>3. OrdersOn(s, Queued(d, inbound)) = <<>> /\ OrdersOn(s, up[d]) = <<>>
    BY <2>1, <2>2, OrdersFacts
  <2>4. /\ Sent(d, s) = Cat(OrdersOn(s, Queued(d, inbound)), OrdersOn(s, up[d]))
        /\ Unread(d, s) = Cat(ResultsOn(s, down[d]), Posted(d, s))
    BY LineViews
  <2>5. Sent(d, s) = <<>> /\ Unread(d, s) = <<>>
    BY <2>1, <2>2, <2>3, <2>4, CatSeq
  <2>6. Sent(d, s)' = Sent(d, s) /\ Unread(d, s)' = Unread(d, s) /\ Rests(d, s)' = Rests(d, s)
    BY <1>1, Zenon DEF Sent, OrdersFrom, Unread, ResultsTo, Rests
  <2>7. P!Disconnect(<<d, s>>)
    BY <1>8, <2>1, <2>5, <2>6, FreshLineNext
  <2>8. QED
    BY <2>7, Zenon DEF Follows, P!LineStep
<1>9. ASSUME NEW s \in Side, d \notin Ready'
      PROVE  Follows(<<d, s>>)
  BY <1>9, QuietLine
<1>10. QED
  BY <1>4, <1>5, <1>7, <1>8, <1>9, ConnectionKeeps

-----------------------------------------------------------------------------
(* The server hands on orders and results.                                 *)

\* One round of the server's OeReader: the order moves from the stream to the queue.
LEMMA ServerReadStep ==
    ASSUME Types, \A c \in Clients : Connections(c), NEW d \in Clients, ServerOeReader(d)
    PROVE  Types' /\ Kept
<1>1. /\ server' = server /\ slot' = slot /\ next_seq' = next_seq /\ down' = down /\ conn' = conn
      /\ queue' = queue /\ posted' = posted /\ listener' = listener /\ sessions' = sessions
      /\ d \in sessions /\ up[d] # <<>> /\ up' = [up EXCEPT ![d] = Tail(@)]
      /\ inbound' = Append(inbound, [client_id |-> d, order |-> Head(up[d])])
  BY DEF ServerOeReader
<1>2. up \in [Clients -> Seq(OrderPack)] /\ up[d] \in Seq(OrderPack) /\ inbound \in Seq(Item)
  BY DEF Types
<1>3. PICK p \in OrderPack, rest \in Seq(OrderPack) : p = Head(up[d]) /\ rest = Tail(up[d])
  BY <1>1, <1>2, HeadFirst
<1>4. PICK x \in Item : x = [client_id |-> d, order |-> p]
  BY DEF Item
<1>5. /\ inbound' = Append(inbound, x) /\ inbound' \in Seq(Item)
      /\ up' \in [Clients -> Seq(OrderPack)] /\ up'[d] = rest /\ \A c \in Clients : c # d => up'[c] = up[c]
  BY <1>1, <1>2, <1>3, <1>4, AppendProperties
<1>6. Types'
  BY <1>1, <1>5 DEF Types
<1>7. PICK one \in Seq(Item) : one = <<x>> /\ inbound' = Cat(inbound, one)
  <2>1. <<x>> \in Seq(Item) /\ Append(inbound, x) = Cat(inbound, <<x>>)
    BY <1>2, AppendIsConcat DEF Cat
  <2>2. QED
    BY <1>5, <2>1
<1>8. ASSUME NEW c \in Clients
      PROVE  Queued(c, inbound') = Cat(Queued(c, inbound), OneIf(c = d, p))
             /\ Queued(c, inbound) \in Seq(OrderPack)
  <2>1. Queued(c, one) = OneIf(x.client_id = c, x.order)
    BY <1>7, QueuedFacts
  <2>2. x.order = p /\ x.client_id = d
    BY <1>4
  <2>3. OneIf(x.client_id = c, x.order) = OneIf(c = d, p)
    BY <2>2 DEF OneIf
  <2>4. \A a, b \in Seq(Item) : Queued(c, Cat(a, b)) = Cat(Queued(c, a), Queued(c, b))
    BY QueuedFacts
  <2>5. Queued(c, Cat(inbound, one)) = Cat(Queued(c, inbound), Queued(c, one))
    BY <1>2, <1>7, <2>4
  <2>6. Queued(c, inbound) \in Seq(OrderPack)
    BY <1>2, QueuedFacts
  <2>7. QED
    BY <1>7, <2>1, <2>3, <2>5, <2>6
<1>9. ASSUME NEW c \in Clients, c # d
      PROVE  Queued(c, inbound') = Queued(c, inbound)
  BY <1>8, <1>9, CatSeq DEF OneIf
<1>10. ASSUME NEW c \in Clients, NEW s \in Side
       PROVE  Sent(c, s)' = Sent(c, s)
  <2>1. CASE c # d
    <3>1. OrdersFrom(c)' = OrdersFrom(c)
      BY <1>5, <1>9, <2>1 DEF OrdersFrom
    <3>2. QED
      BY <3>1, Zenon DEF Sent
  <2>2. CASE c = d
    <3>1. PICK q \in Seq(OrderPack) : q = Queued(d, inbound)
      BY <1>8
    <3>2. Queued(d, inbound') = Append(q, p)
      <4>1. Queued(d, inbound') = Cat(q, <<p>>)
        BY <1>8, <3>1 DEF OneIf
      <4>2. Append(q, p) = Cat(q, <<p>>)
        BY AppendIsConcat DEF Cat
      <4>3. QED
        BY <4>1, <4>2
    <3>3. Cat(Append(q, p), rest) = Cat(q, up[d])
      BY <1>1, <1>2, <1>3, HandOver
    <3>4. OrdersFrom(d)' = OrdersFrom(d)
      BY <1>5, <3>1, <3>2, <3>3 DEF OrdersFrom, Cat
    <3>5. QED
      BY <2>2, <3>4, Zenon DEF Sent
  <2>3. QED
    BY <2>1, <2>2
<1>11. ASSUME NEW c \in Clients, NEW s \in Side
       PROVE  Follows(<<c, s>>)
  <2>1. c \in Ready' <=> c \in Ready
    BY <1>1 DEF Ready
  <2>2. slot'[c][s] = slot[c][s] /\ Rests(c, s)' = Rests(c, s) /\ Unread(c, s)' = Unread(c, s)
    BY <1>1, Zenon DEF Rests, Unread, ResultsTo
  <2>3. QED
    BY <1>10, <2>1, <2>2, QuietLine
<1>12. ASSUME NEW c \in Clients
       PROVE  Connections(c)'
  <2>1. c # d => (NoTrace(c)' <=> NoTrace(c)) /\ (Blank(c)' <=> Blank(c))
    BY <1>1, <1>5, <1>9 DEF NoTrace, Blank, Rests, Posted
  <2>2. c = d => conn[c] \notin {"start", "assigned"}
    BY <1>1 DEF Connections, Blank
  <2>3. QED
    BY <1>1, <2>1, <2>2 DEF Connections
<1>13. QED
  BY <1>6, <1>11, <1>12 DEF Kept

(***************************************************************************)
(* SendOrderResults: results move from the vector to the session of their  *)
(* client.  A client without a session that is still there has none.       *)
(***************************************************************************)
LEMMA SendStep ==
    ASSUME Types, \A c \in Clients : Connections(c), SendOrderResults
    PROVE  Types' /\ Kept
<1>1. /\ server' = server /\ slot' = slot /\ next_seq' = next_seq /\ up' = up /\ conn' = conn
      /\ inbound' = inbound /\ queue' = queue /\ listener' = listener /\ sessions' = sessions
      /\ posted # <<>> /\ posted' = Tail(posted)
  BY DEF SendOrderResults
<1>2. /\ posted \in Seq(Seq(OutRec)) /\ down \in [Clients -> Seq(ResultPack)]
      /\ \A c \in Clients : down[c] \in Seq(ResultPack)
  BY DEF Types
<1>3. PICK h \in Seq(OutRec), rest \in Seq(Seq(OutRec)) : h = Head(posted) /\ rest = Tail(posted)
  BY <1>1, <1>2, HeadFirst
<1>4. PICK tail \in Seq(OutRec) : tail = FlattenSeq(rest)
  BY FlattenTyped
<1>5. FlattenSeq(posted) = Cat(h, tail)
  BY <1>1, <1>2, <1>3, <1>4, FlattenHeadTail
<1>6. down' = [c \in Clients |-> IF c \in sessions /\ conn[c] # "closed"
                                 THEN Cat(down[c], PacketsFor(c, h)) ELSE down[c]]
  BY <1>3 DEF SendOrderResults, Cat
<1>7. ASSUME NEW c \in Clients
      PROVE  PacketsFor(c, h) \in Seq(ResultPack) /\ Cat(down[c], PacketsFor(c, h)) \in Seq(ResultPack)
  <2>1. PacketsFor(c, h) \in Seq(ResultPack)
    BY ToldFacts DEF Side
  <2>2. QED
    BY <1>2, <2>1, CatSeq
<1>8. down' \in [Clients -> Seq(ResultPack)]
  BY <1>2, <1>6, <1>7
<1>9. Types'
  BY <1>1, <1>3, <1>8 DEF Types
<1>10. ASSUME NEW c \in Clients, NEW s \in Side
       PROVE  /\ Posted(c, s) = Cat(ToldTo(c, s, h), Posted(c, s)')
              /\ ToldTo(c, s, h) \in Seq(TypeRec) /\ Posted(c, s)' \in Seq(TypeRec)
              /\ c \in sessions /\ conn[c] # "closed" =>
                   ResultsOn(s, down'[c]) = Cat(ResultsOn(s, down[c]), ToldTo(c, s, h))
              /\ ~(c \in sessions /\ conn[c] # "closed") => down'[c] = down[c]
  <2>1. ToldTo(c, s, Cat(h, tail)) = Cat(ToldTo(c, s, h), ToldTo(c, s, tail))
        /\ ToldTo(c, s, h) \in Seq(TypeRec) /\ ToldTo(c, s, tail) \in Seq(TypeRec)
    BY ToldFacts
  <2>2. Posted(c, s)' = ToldTo(c, s, tail) /\ Posted(c, s) = ToldTo(c, s, Cat(h, tail))
    BY <1>1, <1>3, <1>4, <1>5, Zenon DEF Posted
  <2>3. ResultsOn(s, Cat(down[c], PacketsFor(c, h)))
          = Cat(ResultsOn(s, down[c]), ResultsOn(s, PacketsFor(c, h)))
    BY <1>2, <1>7, ResultsFacts
  <2>4. ResultsOn(s, PacketsFor(c, h)) = ToldTo(c, s, h)
    BY Zenon DEF ToldTo
  <2>5. down'[c] = IF c \in sessions /\ conn[c] # "closed"
                   THEN Cat(down[c], PacketsFor(c, h)) ELSE down[c]
    BY <1>6
  <2>6. QED
    BY <2>1, <2>2, <2>3, <2>4, <2>5
<1>11. ASSUME NEW c \in Clients, NEW s \in Side, Posted(c, s) = <<>>
       PROVE  ToldTo(c, s, h) = <<>> /\ Posted(c, s)' = <<>>
  BY <1>10, <1>11, NothingInside
<1>12. ASSUME NEW c \in Clients, NEW s \in Side, c \in Ready'
       PROVE  Unread(c, s)' = Unread(c, s)
  <2> DEFINE a == ResultsOn(s, down[c])
             t == ToldTo(c, s, h)
  <2>1. conn[c] = "ready"
    BY <1>1, <1>12 DEF Ready
  <2>2. PICK p : p = Posted(c, s)'
    OBVIOUS
  <2>3. a \in Seq(TypeRec) /\ t \in Seq(TypeRec) /\ p \in Seq(TypeRec)
        /\ Unread(c, s) = Cat(a, Cat(t, p))
    BY <1>10, <2>2, LineViews
  <2>4. Unread(c, s)' = Cat(ResultsOn(s, down'[c]), p)
    BY <1>9, <2>2, LineViewsNext
  <2>5. CASE c \in sessions
    <3>1. ResultsOn(s, down'[c]) = Cat(a, t)
      BY <1>10, <2>1, <2>5
    <3> HIDE DEF a, t
    <3>2. Cat(Cat(a, t), p) = Cat(a, Cat(t, p))
      BY <2>3, CatAssociative
    <3>3. QED
      BY <2>3, <2>4, <3>1, <3>2
  <2>6. CASE c \notin sessions
    <3>1. Posted(c, s) = <<>>
      BY <2>1, <2>6 DEF Connections, NoTrace
    <3>2. t = <<>> /\ p = <<>>
      BY <1>11, <2>2, <3>1
    <3>3. down'[c] = down[c]
      BY <1>10, <2>6
    <3>4. Cat(t, p) = p
      BY <2>3, <3>2, CatSeq
    <3>5. QED
      BY <2>3, <2>4, <3>3, <3>4
  <2>7. QED
    BY <2>5, <2>6
<1>13. ASSUME NEW c \in Clients, NEW s \in Side
       PROVE  Follows(<<c, s>>)
  <2>1. c \in Ready' => c \in Ready
    BY <1>1 DEF Ready
  <2>2. slot'[c][s] = slot[c][s] /\ Rests(c, s)' = Rests(c, s) /\ Sent(c, s)' = Sent(c, s)
    BY <1>1, Zenon DEF Rests, Sent, OrdersFrom
  <2>3. QED
    BY <1>12, <2>1, <2>2, QuietLine
<1>14. ASSUME NEW c \in Clients
       PROVE  Connections(c)'
  <2>1. NoTrace(c) => NoTrace(c)'
    <3>1. Queued(c, inbound') = Queued(c, inbound) /\ \A s \in Side : Rests(c, s)' = Rests(c, s)
      BY <1>1, Zenon DEF Rests
    <3>2. QED
      BY <1>11, <3>1 DEF NoTrace
  <2>2. Blank(c) /\ NoTrace(c) => Blank(c)'
    <3>1. ASSUME Blank(c), NoTrace(c), NEW s \in Side
          PROVE  ResultsOn(s, down'[c]) = <<>>
      <4>1. ResultsOn(s, down[c]) = <<>> /\ ToldTo(c, s, h) = <<>>
        BY <1>11, <3>1 DEF Blank, NoTrace
      <4>2. Cat(ResultsOn(s, down[c]), ToldTo(c, s, h)) = <<>>
        BY <1>10, <4>1, CatSeq
      <4>3. QED
        BY <1>10, <4>1, <4>2
    <3>2. QED
      BY <1>1, <3>1 DEF Blank
  <2>3. QED
    BY <1>1, <2>1, <2>2 DEF Connections
<1>15. QED
  BY <1>9, <1>13, <1>14 DEF Kept

\* The server ends: every line is as at the start.
LEMMA StopStep ==
    ASSUME Types, \A c \in Clients : Connections(c), ServerStops
    PROVE  Types' /\ Kept
<1>1. /\ server' = "down" /\ slot' = slot /\ next_seq' = next_seq /\ conn' = conn /\ down' = down
      /\ up' = [c \in Clients |-> <<>>] /\ listener' = {} /\ sessions' = {}
      /\ inbound' = <<>> /\ posted' = <<>> /\ queue' = [s \in Side |-> <<>>]
  BY DEF ServerStops
<1>2. /\ <<>> \in Seq(OrderPack) /\ <<>> \in Seq(Item) /\ <<>> \in Seq(Seq(OutRec))
      /\ <<>> \in Seq(RestRec) /\ <<>> \in Seq(OutRec)
  OBVIOUS
<1>3. Types'
  BY <1>1, <1>2 DEF Types, Queues
<1>4. ASSUME NEW c \in Clients
      PROVE  NoTrace(c)'
  <2>1. Queued(c, <<>>) = <<>>
    BY QueuedFacts
  <2>2. RestingFor(c, <<>>) = <<>>
    BY <1>2, RestingIs, ThroughEmpty
  <2>3. \A s \in Side : ToldTo(c, s, <<>>) = <<>>
    BY ToldFacts
  <2>4. \A s \in Side : Rests(c, s)' = <<>> /\ Posted(c, s)' = <<>>
    BY <1>1, <2>2, <2>3, FlattenEmpty DEF Rests, Posted
  <2>5. QED
    BY <1>1, <2>1, <2>4 DEF NoTrace
<1>5. ASSUME NEW c \in Clients
      PROVE  Connections(c)'
  <2>1. Blank(c) => Blank(c)'
    BY <1>1 DEF Blank
  <2>2. QED
    BY <1>1, <1>4, <2>1 DEF Connections
<1>6. ASSUME NEW c \in Clients, NEW s \in Side
      PROVE  Follows(<<c, s>>)
  <2>1. c \notin Ready'
    BY <1>1 DEF Ready
  <2>2. QED
    BY <2>1, QuietLine
<1>7. QED
  BY <1>3, <1>5, <1>6 DEF Kept

-----------------------------------------------------------------------------
(* The engine executes an order.                                           *)

\* The order that EngineLoop executes, its outcome, and the items left.
Executes(x, o, rest, out) ==
    /\ x \in Item /\ rest \in Seq(Item) /\ o \in OrdRec /\ (o.qty > 0 => o.price > 0)
    /\ o.client_id = x.client_id /\ o.side = x.order.side
    /\ o.price = x.order.price /\ o.qty = x.order.qty
    /\ out = Outcome(queue, o) /\ out.queue \in Queues /\ out.out \in Seq(OutRec)
    /\ inbound # <<>> /\ x = Head(inbound) /\ rest = Tail(inbound)
    /\ inbound' = rest /\ queue' = out.queue /\ posted' = Append(posted, out.out)
    /\ server' = server /\ conn' = conn /\ slot' = slot /\ next_seq' = next_seq
    /\ up' = up /\ down' = down /\ listener' = listener /\ sessions' = sessions

\* EngineLoop executes a well-formed order.
LEMMA EngineExecutes ==
    ASSUME Types, EngineLoop
    PROVE  \E x, o, rest, out : Executes(x, o, rest, out)
<1>1. inbound \in Seq(Item) /\ inbound # <<>> /\ queue \in Queues
  BY DEF Types, EngineLoop
<1>2. PICK x \in Item, rest \in Seq(Item) : x = Head(inbound) /\ rest = Tail(inbound)
  BY <1>1, HeadFirst
<1>3. PICK o : o = [client_id |-> x.client_id, side |-> x.order.side, price |-> x.order.price,
                    qty |-> x.order.qty, seq |-> x.order.seq]
  OBVIOUS
<1>4. x.order \in OrderPack /\ x.client_id \in Clients
  BY DEF Item
<1>5. o \in OrdRec /\ (o.qty > 0 => o.price > 0)
  BY <1>3, <1>4 DEF OrdRec, OrderPack
<1>6. PICK out : out = Outcome(queue, o)
  OBVIOUS
<1>7. out.queue \in Queues /\ out.out \in Seq(OutRec)
  BY <1>1, <1>5, <1>6, OutcomeTyped
<1>8. Popped = out
  BY <1>2, <1>3, <1>6, Zenon DEF Popped
<1>9. /\ inbound' = rest /\ queue' = out.queue /\ posted' = Append(posted, out.out)
      /\ server' = server /\ conn' = conn /\ slot' = slot /\ next_seq' = next_seq
      /\ up' = up /\ down' = down /\ listener' = listener /\ sessions' = sessions
  BY <1>2, <1>8 DEF EngineLoop, clientVars
<1>10. /\ o.client_id = x.client_id /\ o.side = x.order.side
       /\ o.price = x.order.price /\ o.qty = x.order.qty
  BY <1>3
<1>11. Executes(x, o, rest, out)
  BY <1>1, <1>2, <1>5, <1>6, <1>7, <1>9, <1>10 DEF Executes
<1>12. QED
  BY <1>11

(***************************************************************************)
(* What EngineLoop does to the views: the order leaves the line that sent  *)
(* it, and every line is told its part of the outcome.                     *)
(***************************************************************************)
LEMMA EngineViews ==
    ASSUME Types, NEW x, NEW o, NEW rest, NEW out, Executes(x, o, rest, out)
    PROVE  /\ Types'
           /\ \A c \in Clients :
                /\ c = o.client_id => Queued(c, inbound) # <<>>
                /\ c # o.client_id => Queued(c, inbound') = Queued(c, inbound)
           /\ \A c \in Clients, s \in Side :
                /\ Rests(c, s)' = RestingFor(c, out.queue[s])
                /\ Posted(c, s)' = Cat(Posted(c, s), ToldTo(c, s, out.out))
                /\ Unread(c, s)' = Cat(Unread(c, s), ToldTo(c, s, out.out))
                /\ ~Own(c, s, o) => Sent(c, s)' = Sent(c, s)
                /\ Own(c, s, o) => /\ Sent(c, s) # <<>> /\ Sent(c, s)' = Tail(Sent(c, s))
                                   /\ Head(Sent(c, s)) = Order(s, o.price, o.qty)
<1>1. inbound \in Seq(Item) /\ posted \in Seq(Seq(OutRec)) /\ inbound # <<>>
      /\ x \in Item /\ rest \in Seq(Item) /\ out.out \in Seq(OutRec) /\ x.order \in OrderPack
  BY DEF Types, Executes, Item
<1>2. Types'
  <2>1. Append(posted, out.out) \in Seq(Seq(OutRec))
    BY <1>1
  <2>2. QED
    BY <2>1 DEF Types, Executes
<1>3. PICK one \in Seq(Item) : one = <<x>> /\ inbound = Cat(one, rest)
  BY <1>1, HeadFirst DEF Executes
<1>4. ASSUME NEW c \in Clients
      PROVE  /\ Queued(c, inbound) = Cat(OneIf(c = o.client_id, x.order), Queued(c, rest))
             /\ Queued(c, rest) \in Seq(OrderPack) /\ inbound' = rest
  <2>1. Queued(c, one) = OneIf(x.client_id = c, x.order)
    BY <1>1, <1>3, QueuedFacts
  <2>2. OneIf(x.client_id = c, x.order) = OneIf(c = o.client_id, x.order)
    BY DEF OneIf, Executes
  <2>3. \A a, b \in Seq(Item) : Queued(c, Cat(a, b)) = Cat(Queued(c, a), Queued(c, b))
    BY QueuedFacts
  <2>4. Queued(c, Cat(one, rest)) = Cat(Queued(c, one), Queued(c, rest))
    BY <1>1, <1>3, <2>3
  <2>5. Queued(c, rest) \in Seq(OrderPack)
    BY <1>1, QueuedFacts
  <2>6. QED
    BY <1>3, <2>1, <2>2, <2>4, <2>5 DEF Executes
<1>5. ASSUME NEW c \in Clients
      PROVE  /\ c = o.client_id => Queued(c, inbound) # <<>>
             /\ c # o.client_id => Queued(c, inbound') = Queued(c, inbound)
  <2>1. CASE c = o.client_id
    <3>1. Queued(c, inbound) = Cat(<<x.order>>, Queued(c, rest))
      BY <1>4, <2>1 DEF OneIf
    <3>2. QED
      BY <1>1, <1>4, <2>1, <3>1, AfterFirst
  <2>2. CASE c # o.client_id
    <3>1. Queued(c, inbound) = Cat(<<>>, Queued(c, rest))
      BY <1>4, <2>2 DEF OneIf
    <3>2. QED
      BY <1>4, <2>2, <3>1, CatSeq
  <2>3. QED
    BY <2>1, <2>2
<1>6. ASSUME NEW c \in Clients, NEW s \in Side
      PROVE  /\ Rests(c, s)' = RestingFor(c, out.queue[s])
             /\ Posted(c, s)' = Cat(Posted(c, s), ToldTo(c, s, out.out))
             /\ Unread(c, s)' = Cat(Unread(c, s), ToldTo(c, s, out.out))
  <2>1. Rests(c, s)' = RestingFor(c, out.queue[s])
    BY Zenon DEF Rests, Executes
  <2>2. PICK all \in Seq(OutRec) : all = FlattenSeq(posted)
    BY <1>1, FlattenTyped
  <2>3. FlattenSeq(Append(posted, out.out)) = Cat(all, out.out)
    BY <1>1, <2>2, FlattenAppend
  <2>4. ToldTo(c, s, Cat(all, out.out)) = Cat(ToldTo(c, s, all), ToldTo(c, s, out.out))
        /\ ToldTo(c, s, out.out) \in Seq(TypeRec)
    BY <1>1, ToldFacts
  <2>5. Posted(c, s) = ToldTo(c, s, all) /\ Posted(c, s)' = ToldTo(c, s, FlattenSeq(Append(posted, out.out)))
    BY <2>2, Zenon DEF Posted, Executes
  <2>6. Posted(c, s)' = Cat(Posted(c, s), ToldTo(c, s, out.out))
    BY <2>3, <2>4, <2>5
  <2>7. /\ Unread(c, s) = Cat(ResultsOn(s, down[c]), Posted(c, s))
        /\ ResultsOn(s, down[c]) \in Seq(TypeRec) /\ Posted(c, s) \in Seq(TypeRec)
    BY LineViews
  <2>8. Unread(c, s)' = Cat(ResultsOn(s, down[c]), Posted(c, s)')
    BY <1>2, LineViewsNext DEF Executes
  <2>9. Cat(Cat(ResultsOn(s, down[c]), Posted(c, s)), ToldTo(c, s, out.out))
          = Cat(ResultsOn(s, down[c]), Cat(Posted(c, s), ToldTo(c, s, out.out)))
    BY <2>4, <2>7, CatAssociative
  <2>10. QED
    BY <2>1, <2>6, <2>7, <2>8, <2>9
<1>7. ASSUME NEW c \in Clients, NEW s \in Side
      PROVE  /\ ~Own(c, s, o) => Sent(c, s)' = Sent(c, s)
             /\ Own(c, s, o) => /\ Sent(c, s) # <<>> /\ Sent(c, s)' = Tail(Sent(c, s))
                                /\ Head(Sent(c, s)) = Order(s, o.price, o.qty)
  <2>1. PICK q \in Seq(OrderPack) : q = Queued(c, rest)
    BY <1>4
  <2>2. PICK a \in Seq(SentRec), u \in Seq(SentRec) : a = OrdersOn(s, q) /\ u = OrdersOn(s, up[c])
    BY OrdersFacts DEF Types
  <2>3. Sent(c, s)' = Cat(a, u)
    BY <1>2, <1>4, <2>1, <2>2, LineViewsNext DEF Executes
  <2>4. Sent(c, s) = Cat(OrdersOn(s, Queued(c, inbound)), u)
    BY <2>2, LineViews
  <2>5. CASE c # o.client_id
    <3>1. Queued(c, inbound) = q
      BY <1>4, <1>5, <2>1, <2>5
    <3>2. QED
      BY <2>2, <2>3, <2>4, <2>5, <3>1 DEF Own
  <2>6. CASE c = o.client_id
    <3>1. PICK w \in Seq(OrderPack) : w = <<x.order>>
      <4>1. <<x.order>> \in Seq(OrderPack)
        BY <1>1
      <4>2. QED
        BY <4>1
    <3>2. Queued(c, inbound) = Cat(w, q)
      BY <1>4, <2>1, <2>6, <3>1 DEF OneIf
    <3>3. OrdersOn(s, Cat(w, q)) = Cat(OrdersOn(s, w), a)
      BY <2>2, OrdersFacts
    <3>4. OrdersOn(s, w) = OneIf(x.order.side = s, Order(s, x.order.price, x.order.qty))
      BY <1>1, <3>1, OrdersFacts
    <3>5. o.side = x.order.side /\ o.price = x.order.price /\ o.qty = x.order.qty
      BY DEF Executes
    <3>6. CASE s # o.side
      <4>1. OrdersOn(s, w) = <<>>
        BY <3>4, <3>5, <3>6 DEF OneIf
      <4>2. Cat(<<>>, a) = a
        BY CatSeq
      <4>3. QED
        BY <2>3, <2>4, <3>2, <3>3, <3>6, <4>1, <4>2 DEF Own
    <3>7. CASE s = o.side
      <4>1. PICK p \in SentRec : p = Order(s, o.price, o.qty)
        BY DEF Order, SentRec, Executes, OrdRec
      <4>2. PICK v \in Seq(SentRec) : v = <<p>>
        <5>1. <<p>> \in Seq(SentRec)
          OBVIOUS
        <5>2. QED
          BY <5>1
      <4>3. OrdersOn(s, w) = v
        BY <3>4, <3>5, <3>7, <4>1, <4>2 DEF OneIf
      <4>4. Sent(c, s) = Cat(Cat(v, a), u)
        BY <2>4, <3>2, <3>3, <4>3
      <4>5. Cat(Cat(v, a), u) = Cat(v, Cat(a, u)) /\ Cat(a, u) \in Seq(SentRec)
        BY CatAssociative, CatSeq
      <4>6. Cat(<<p>>, Cat(a, u)) # <<>> /\ Head(Cat(<<p>>, Cat(a, u))) = p
            /\ Tail(Cat(<<p>>, Cat(a, u))) = Cat(a, u)
        BY <4>5, AfterFirst
      <4>7. QED
        BY <2>3, <2>6, <3>7, <4>1, <4>2, <4>4, <4>5, <4>6 DEF Own
    <3>8. QED
      BY <3>6, <3>7
  <2>7. QED
    BY <2>5, <2>6
<1>8. QED
  BY <1>2, <1>5, <1>6, <1>7

(***************************************************************************)
(* What the phases say of a connected line: at most one order rests, and   *)
(* none when a new order is the next to be executed.                       *)
(***************************************************************************)
LEMMA OneAtATime ==
    ASSUME Types, NEW c \in Ready, NEW s \in Side, P!IInv(<<c, s>>)
    PROVE  /\ Len(Rests(c, s)) <= 1
           /\ Sent(c, s) # <<>> /\ Head(Sent(c, s)).qty > 0 => Rests(c, s) = <<>>
<1>1. PICK l : l = <<c, s>>
  OBVIOUS
<1>2. P!OneOrder(l)
  BY <1>1, P!PhasesGiveOneOrder
<1>3. LineResting[l] = Rests(c, s) /\ LineOrders[l] = Sent(c, s)
  BY <1>1, ReadyLine
<1>4. /\ Len(Rests(c, s)) <= 1
      /\ \A i \in 1..Len(Sent(c, s)) : Sent(c, s)[i].qty > 0 => Rests(c, s) = <<>>
  BY <1>2, <1>3 DEF P!OneOrder
<1>5. PICK sent \in Seq(SentRec) : sent = Sent(c, s)
  <2>1. c \in Clients
    BY DEF Ready
  <2>2. QED
    BY <2>1, LineViews
<1>6. sent # <<>> => 1 \in 1..Len(sent) /\ Head(sent) = sent[1]
  OBVIOUS
<1>7. QED
  BY <1>4, <1>5, <1>6

\* The line of a connected process when the engine executes an order.
LEMMA EngineLine ==
    ASSUME Types, NEW x, NEW o, NEW rest, NEW out, Executes(x, o, rest, out),
           NEW c \in Ready, NEW s \in Side, P!IInv(<<c, s>>)
    PROVE  Follows(<<c, s>>)
<1>1. c \in Clients /\ c \in Ready' /\ slot'[c][s] = slot[c][s]
  BY DEF Ready, Executes
<1>2. o \in OrdRec /\ (o.qty > 0 => o.price > 0) /\ queue \in Queues /\ o.qty \in Nat
      /\ out = Outcome(queue, o)
  BY DEF Executes, Types, OrdRec
<1>3. /\ Rests(c, s)' = RestingFor(c, out.queue[s])
      /\ Unread(c, s)' = Cat(Unread(c, s), ToldTo(c, s, out.out))
      /\ ~Own(c, s, o) => Sent(c, s)' = Sent(c, s)
      /\ Own(c, s, o) => /\ Sent(c, s) # <<>> /\ Sent(c, s)' = Tail(Sent(c, s))
                         /\ Head(Sent(c, s)) = Order(s, o.price, o.qty)
  BY <1>1, EngineViews
<1>4. /\ Unread(c, s) \in Seq(TypeRec) /\ Rests(c, s) \in Seq(BookRec)
      /\ Rests(c, s) = RestingFor(c, queue[s])
  BY <1>1, LineViews DEF Rests
<1>5. Order(s, o.price, o.qty).qty = o.qty
  BY DEF Order
<1>6. /\ Len(Rests(c, s)) <= 1
      /\ Own(c, s, o) /\ o.qty # 0 => Rests(c, s) = <<>>
  BY <1>2, <1>3, <1>5, OneAtATime
<1>7. /\ Own(c, s, o) /\ o.qty = 0 => LineCancelled(c, s, queue, o, out)
      /\ Own(c, s, o) /\ o.qty # 0 => LineExecuted(c, s, queue, o, out)
      /\ ~Own(c, s, o) => LineUntouched(c, s, queue, out) \/ LineFilled(c, s, queue, out)
  BY <1>2, <1>4, <1>6, OutcomeLine
<1>8. CASE Own(c, s, o) /\ o.qty = 0
  <2>1. Head(Sent(c, s)) = Order(s, o.price, 0)
    BY <1>3, <1>8
  <2>2. QED
    BY <1>1, <1>3, <1>4, <1>6, <1>7, <1>8, <2>1, CancelledLine DEF Follows
<1>9. CASE Own(c, s, o) /\ o.qty # 0
  BY <1>1, <1>2, <1>3, <1>4, <1>6, <1>7, <1>9, ExecutedLine DEF Follows
<1>10. CASE ~Own(c, s, o) /\ LineFilled(c, s, queue, out)
  BY <1>1, <1>3, <1>4, <1>10, FilledLine DEF Follows
<1>11. CASE ~Own(c, s, o) /\ LineUntouched(c, s, queue, out)
  <2>1. Rests(c, s)' = Rests(c, s) /\ ToldTo(c, s, out.out) = <<>>
    BY <1>3, <1>4, <1>11 DEF LineUntouched
  <2>2. Unread(c, s)' = Unread(c, s)
    BY <1>3, <1>4, <2>1, CatSeq
  <2>3. QED
    BY <1>1, <1>3, <1>11, <2>1, <2>2, SameLine DEF Follows
<1>12. QED
  BY <1>7, <1>8, <1>9, <1>10, <1>11

\* A process without a trace in the server gets none.
LEMMA EngineTrace ==
    ASSUME Types, NEW x, NEW o, NEW rest, NEW out, Executes(x, o, rest, out),
           NEW c \in Clients, NoTrace(c)
    PROVE  NoTrace(c)'
<1>1. c # o.client_id /\ Queued(c, inbound') = <<>>
  BY EngineViews DEF NoTrace
<1>2. o \in OrdRec /\ (o.qty > 0 => o.price > 0) /\ queue \in Queues /\ out = Outcome(queue, o)
  BY DEF Executes, Types
<1>3. ASSUME NEW s \in Side
      PROVE  Rests(c, s)' = <<>> /\ Posted(c, s)' = <<>>
  <2>1. /\ Rests(c, s)' = RestingFor(c, out.queue[s])
        /\ Posted(c, s)' = Cat(Posted(c, s), ToldTo(c, s, out.out))
    BY EngineViews
  <2>2. RestingFor(c, queue[s]) = <<>> /\ Posted(c, s) = <<>>
    BY DEF NoTrace, Rests
  <2>3. ~Own(c, s, o) /\ Len(RestingFor(c, queue[s])) <= 1
    <3>1. Len(RestingFor(c, queue[s])) = 0
      BY <2>2
    <3>2. QED
      BY <1>1, <3>1 DEF Own
  <2>4. LineUntouched(c, s, queue, out) \/ LineFilled(c, s, queue, out)
    BY <1>2, <2>3, OutcomeLine
  <2>5. ~LineFilled(c, s, queue, out)
    BY <2>2 DEF LineFilled
  <2>6. RestingFor(c, out.queue[s]) = <<>> /\ ToldTo(c, s, out.out) = <<>>
    BY <2>2, <2>4, <2>5 DEF LineUntouched
  <2>7. Cat(<<>>, ToldTo(c, s, out.out)) = ToldTo(c, s, out.out)
    <3>1. ToldTo(c, s, out.out) \in Seq(TypeRec)
      BY ToldFacts DEF Executes
    <3>2. QED
      BY <3>1, CatSeq
  <2>8. QED
    BY <2>1, <2>2, <2>6, <2>7
<1>4. QED
  BY <1>1, <1>3 DEF NoTrace

\* EngineLoop.
LEMMA EngineStep ==
    ASSUME Types, \A c \in Clients : Connections(c), \A l \in Lines : P!IInv(l), EngineLoop
    PROVE  Types' /\ Kept
<1>1. PICK x, o, rest, out : Executes(x, o, rest, out)
  BY EngineExecutes
<1>2. Types'
  BY <1>1, EngineViews
<1>3. ASSUME NEW c \in Clients
      PROVE  Connections(c)'
  <2>1. /\ conn' = conn /\ server' = server /\ sessions' = sessions /\ slot' = slot
        /\ up' = up /\ down' = down
    BY <1>1 DEF Executes
  <2>2. NoTrace(c) => NoTrace(c)'
    BY <1>1, EngineTrace
  <2>3. Blank(c) => Blank(c)'
    BY <2>1 DEF Blank
  <2>4. QED
    BY <2>1, <2>2, <2>3 DEF Connections
<1>4. ASSUME NEW c \in Clients, NEW s \in Side
      PROVE  Follows(<<c, s>>)
  <2>1. CASE c \in Ready
    <3>1. P!IInv(<<c, s>>)
      BY <2>1, ReadyLine
    <3>2. QED
      BY <1>1, <2>1, <3>1, EngineLine
  <2>2. CASE c \notin Ready
    <3>1. c \notin Ready'
      BY <1>1, <2>2 DEF Ready, Executes
    <3>2. QED
      BY <3>1, QuietLine
  <2>3. QED
    BY <2>1, <2>2
<1>5. QED
  BY <1>2, <1>3, <1>4 DEF Kept

-----------------------------------------------------------------------------
(* Every step.                                                             *)

\* InitBook's orders are well-formed, and no process's.
LEMMA SeedsTyped ==
    ASSUME NEW s \in Side, NEW prices, IsFiniteSet(prices),
           \A i \in 1..Cardinality(prices) : NthBest(s, prices, i) \in Prices
    PROVE  /\ InitBook(s, prices, kSeedClientId, kSeedQty) \in Seq(RestRec)
           /\ \A c \in Clients : RestingFor(c, InitBook(s, prices, kSeedClientId, kSeedQty)) = <<>>
<1>1. PICK n \in Nat : n = Cardinality(prices)
  BY FS_CardinalityType
<1> DEFINE book == InitBook(s, prices, kSeedClientId, kSeedQty)
           seed(i) == [client_id |-> kSeedClientId, price |-> NthBest(s, prices, i),
                       qty |-> kSeedQty, seq |-> 0]
<1>2. book = [i \in 1..n |-> seed(i)]
  BY <1>1, Zenon DEF InitBook
<1>3. \A i \in 1..n : seed(i) \in RestRec /\ seed(i).client_id = kSeedClientId
  BY <1>1, SystemAssumption DEF RestRec, Ids
<1> HIDE DEF book, seed
<1>4. book \in Seq(RestRec) /\ Len(book) = n /\ \A i \in 1..n : book[i] = seed(i)
  <2>1. \A i \in 1..n : book[i] = seed(i)
    BY <1>2
  <2>2. book \in [1..n -> RestRec]
    BY <1>2, <1>3
  <2>3. book \in Seq(RestRec) /\ Len(book) = n
    BY <2>2
  <2>4. QED
    BY <2>1, <2>3
<1>5. ASSUME NEW c \in Clients
      PROVE  RestingFor(c, book) = <<>>
  <2>1. Maps(RestingOf(c), RestRec, BookRec) /\ RestingFor(c, book) = Through(RestingOf(c), book)
    BY <1>4, RestingIs
  <2>2. kSeedClientId # c
    BY SystemAssumption
  <2>3. \A i \in 1..Len(book) : RestingOf(c)[book[i]] = <<>>
    <3>1. SUFFICES ASSUME NEW i \in 1..Len(book)
                   PROVE  RestingOf(c)[book[i]] = <<>>
      OBVIOUS
    <3>2. book[i] \in RestRec /\ book[i].client_id # c
      BY <1>3, <1>4, <2>2
    <3>3. QED
      BY <3>2 DEF RestingOf, OneIf
  <2>4. QED
    BY <1>4, <2>1, <2>3, ThroughNone
<1>6. QED
  BY <1>4, <1>5 DEF book

\* A process starts with nothing anywhere.
LEMMA InitKept == Init => SysInv /\ \A l \in Lines : P!LineInit(l)
<1> SUFFICES ASSUME Init
             PROVE  SysInv /\ \A l \in Lines : P!LineInit(l)
  OBVIOUS
<1> DEFINE bids == InitBook("kBuy", SeedBids, kSeedClientId, kSeedQty)
           asks == InitBook("kSell", SeedAsks, kSeedClientId, kSeedQty)
<1>1. /\ server = "up" /\ conn = [c \in Clients |-> "start"]
      /\ slot = [c \in Clients |-> [s \in Side |-> NoOrder]]
      /\ next_seq = [c \in Clients |-> 1]
      /\ up = [c \in Clients |-> <<>>] /\ down = [c \in Clients |-> <<>>]
      /\ listener = {} /\ sessions = {} /\ inbound = <<>> /\ posted = <<>>
      /\ queue = [kBuy |-> bids, kSell |-> asks]
  BY DEF Init, ClientInit
<1>2. /\ bids \in Seq(RestRec) /\ \A c \in Clients : RestingFor(c, bids) = <<>>
      /\ asks \in Seq(RestRec) /\ \A c \in Clients : RestingFor(c, asks) = <<>>
  <2>1. /\ \A i \in 1..Cardinality(SeedBids) : NthBest("kBuy", SeedBids, i) \in Prices
        /\ \A i \in 1..Cardinality(SeedAsks) : NthBest("kSell", SeedAsks, i) \in Prices
    BY DEF Prices
  <2>2. "kBuy" \in Side /\ "kSell" \in Side /\ IsFiniteSet(SeedBids) /\ IsFiniteSet(SeedAsks)
    BY SystemAssumption DEF Side
  <2>3. QED
    BY <2>1, <2>2, SeedsTyped
<1> HIDE DEF bids, asks
<1>3. /\ queue \in Queues
      /\ \A c \in Clients, s \in Side : RestingFor(c, queue[s]) = <<>>
  BY <1>1, <1>2 DEF Queues, Side
<1>4. /\ <<>> \in Seq(OrderPack) /\ <<>> \in Seq(Item) /\ <<>> \in Seq(Seq(OutRec))
      /\ <<>> \in Seq(ResultPack) /\ <<>> \in Seq(OutRec) /\ NoOrder \in SlotRec
  BY DEF NoOrder, SlotRec, OeState
<1>5. Types
  BY <1>1, <1>3, <1>4 DEF Types, Connection
<1>6. ASSUME NEW c \in Clients
      PROVE  Connections(c)
  <2>1. /\ Queued(c, <<>>) = <<>>
        /\ \A s \in Side : ToldTo(c, s, <<>>) = <<>> /\ ResultsOn(s, <<>>) = <<>>
    BY QueuedFacts, ToldFacts, ResultsFacts
  <2>2. \A s \in Side : Rests(c, s) = <<>> /\ Posted(c, s) = <<>>
    BY <1>1, <1>3, <2>1, FlattenEmpty DEF Rests, Posted
  <2>3. NoTrace(c) /\ Blank(c)
    BY <1>1, <2>1, <2>2 DEF NoTrace, Blank
  <2>4. conn[c] = "start"
    BY <1>1
  <2>5. QED
    BY <2>3, <2>4 DEF Connections
<1>7. ASSUME NEW c \in Clients, NEW s \in Side
      PROVE  P!LineInit(<<c, s>>)
  <2>1. c \notin Ready
    BY <1>1 DEF Ready
  <2>2. QED
    BY <2>1, IdleLine
<1>8. \A l \in Lines : P!LineInit(l)
  BY <1>7 DEF Lines
<1>9. QED
  BY <1>5, <1>6, <1>8, P!Start DEF SysInv

\* Every step keeps the invariant's first two parts and moves each line as its protocol allows.
LEMMA NextKept ==
    ASSUME SysInv, [Next]_vars
    PROVE  Types' /\ Kept
<1>1. /\ Types /\ \A c \in Clients : Connections(c)
      /\ \A l \in Lines : P!IInv(l)
  BY DEF SysInv
<1>2. CASE \E d \in Clients : NewTarget(d) \/ ReadResult(d)
  <2>1. PICK d \in Clients : Retarget(d) \/ ReadResult(d)
    BY <1>2 DEF NewTarget
  <2>2. Types' /\ ProcessStep(d) /\ \A s \in Side : d \in Ready => Follows(<<d, s>>)
    BY <1>1, <2>1, TargetSteps, ReadStep
  <2>3. QED
    BY <1>1, <2>2, ProcessKeeps
<1>3. CASE \E d \in Clients : ConnectionStep(d)
  BY <1>1, <1>3, ReadIdStep, EndStep DEF ConnectionStep, serverVars
<1>4. CASE \E d \in Clients : ServerStep(d)
  BY <1>1, <1>4, AcceptStep, GoneStep, ServerReadStep DEF ServerStep
<1>5. CASE SendOrderResults
  BY <1>1, <1>5, SendStep
<1>6. CASE EngineLoop
  BY <1>1, <1>6, EngineStep
<1>7. CASE ServerStops
  BY <1>1, <1>7, StopStep
<1>8. CASE UNCHANGED vars
  <2>1. /\ server' = server /\ conn' = conn /\ slot' = slot /\ next_seq' = next_seq
        /\ up' = up /\ down' = down /\ listener' = listener /\ sessions' = sessions
        /\ inbound' = inbound /\ queue' = queue /\ posted' = posted
    BY <1>8 DEF vars, clientVars, serverVars
  <2>2. Types'
    BY <1>1, <2>1 DEF Types
  <2>3. Apart /\ \A c \in Clients : Elsewhere(c) /\ (c \in sessions' <=> c \in sessions)
    BY <2>1 DEF Apart, Elsewhere
  <2>4. QED
    BY <1>1, <2>2, <2>3, ElsewhereConnection, ElsewhereLine DEF Kept
<1>9. QED
  BY <1>2, <1>3, <1>4, <1>5, <1>6, <1>7, <1>8 DEF Next, ServiceStep

(***************************************************************************)
(* The inductive invariant of the whole path.                              *)
(***************************************************************************)
THEOREM SystemInductive == Spec => []SysInv
<1>1. Init => SysInv
  BY InitKept
<1>2. SysInv /\ [Next]_vars => SysInv'
  <2> SUFFICES ASSUME SysInv, [Next]_vars
               PROVE  SysInv'
    OBVIOUS
  <2>1. Types' /\ Kept
    BY NextKept
  <2>2. ASSUME NEW l \in Lines
        PROVE  P!IInv(l)'
    <3>1. PICK c \in Clients, s \in Side : l = <<c, s>>
      BY DEF Lines
    <3>2. P!LineStep(l) \/ P!LineStays(l)
      BY <2>1, <3>1 DEF Kept, Follows
    <3>3. P!IInv(l)
      BY DEF SysInv
    <3>4. QED
      BY <3>2, <3>3, P!PhaseStep
  <2>3. QED
    BY <2>1, <2>2 DEF SysInv, Kept, Lines
<1>3. QED
  BY <1>1, <1>2, PTL DEF Spec

(***************************************************************************)
(* TradingSystem implements SideProtocol: initial states are initial       *)
(* states of every line, every step is a step of the lines or a stutter.   *)
(***************************************************************************)
THEOREM ImplementsProtocol == Spec => FollowsProtocol
<1>1. Init => Protocol!Init
  BY InitKept, SameLineStep DEF Protocol!Init
<1>2. SysInv /\ [Next]_vars => [Protocol!Next]_(Protocol!vars)
  <2> SUFFICES ASSUME SysInv, [Next]_vars
               PROVE  Protocol!Next
    OBVIOUS
  <2>1. Kept
    BY NextKept
  <2>2. ASSUME NEW l \in Lines
        PROVE  Protocol!LineStep(l) \/ Protocol!LineStays(l)
    <3>1. PICK c \in Clients, s \in Side : l = <<c, s>>
      BY DEF Lines
    <3>2. P!LineStep(l) \/ P!LineStays(l)
      BY <2>1, <3>1 DEF Kept, Follows
    <3>3. QED
      BY <3>2, SameLineStep
  <2>3. QED
    BY <2>2 DEF Protocol!Next
<1>3. QED
  BY <1>1, <1>2, SystemInductive, PTL DEF Spec, FollowsProtocol, Protocol!Spec

(***************************************************************************)
(* A process has at most one order per side in the system, at the price it *)
(* believes.                                                               *)
(***************************************************************************)
THEOREM OneOrderOnEachSide == Spec => []OneOrderPerSide
<1>1. SysInv => OneOrderPerSide
  <2> SUFFICES ASSUME SysInv, NEW l \in Lines
               PROVE  Protocol!OneOrder(l)
    BY DEF OneOrderPerSide
  <2>1. P!OneOrder(l)
    BY P!PhasesGiveOneOrder DEF SysInv
  <2>2. QED
    BY <2>1, Zenon DEF P!OneOrder, Protocol!OneOrder
<1>2. QED
  BY <1>1, SystemInductive, PTL

(***************************************************************************)
(* The process's count of its remaining quantity is exact up to what is on *)
(* its way.                                                                *)
(***************************************************************************)
THEOREM CountsAreExact == Spec => []ExposureExact
<1>1. SysInv => ExposureExact
  <2> SUFFICES ASSUME SysInv, NEW l \in Lines
               PROVE  Protocol!Exact(l)
    BY DEF ExposureExact
  <2>1. P!Exact(l)
    BY P!PhasesGiveExact DEF SysInv
  <2>2. \A r : P!FillOf(r) = Protocol!FillOf(r)
    BY Zenon DEF P!FillOf, Protocol!FillOf
  <2>3. \A rs, k : P!Filled(rs, k) = Protocol!Filled(rs, k)
    BY <2>2, Zenon DEF P!Filled, Protocol!Filled
  <2>4. \A rs : P!FilledBy(rs) = Protocol!FilledBy(rs)
    BY <2>3, Zenon DEF P!FilledBy, Protocol!FilledBy
  <2>5. P!RestingQty(l) = Protocol!RestingQty(l)
    BY Zenon DEF P!RestingQty, Protocol!RestingQty
  <2>6. QED
    BY <2>1, <2>4, <2>5 DEF P!Exact, Protocol!Exact
<1>2. QED
  BY <1>1, SystemInductive, PTL

(***************************************************************************)
(* The result queue of a session stays small.                              *)
(***************************************************************************)
THEOREM BacklogsAreBounded == Spec => []BacklogBounded
<1>1. SysInv => BacklogBounded
  <2> SUFFICES ASSUME SysInv, NEW l \in Lines
               PROVE  Protocol!Backlog(l)
    BY DEF BacklogBounded
  <2>1. P!Backlog(l)
    BY P!PhasesGiveBacklog DEF SysInv
  <2>2. QED
    BY <2>1, Zenon DEF P!Backlog, Protocol!Backlog
<1>2. QED
  BY <1>1, SystemInductive, PTL

=============================================================================
