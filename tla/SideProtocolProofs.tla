------------------------- MODULE SideProtocolProofs -------------------------
(***************************************************************************)
(* Machine-checked proofs about SideProtocol, for any sides of processes,  *)
(* target prices, quantities and number of orders.                         *)
(***************************************************************************)
EXTENDS SideProtocol, SequenceLemmas

ResultRec == [type : ResultType, qty : Nat]

-----------------------------------------------------------------------------
(* Sums of fills. *)

\* The running sums of rs up to n.
Sums(f, rs, n) == f = [i \in 0..n |-> IF i = 0 THEN 0 ELSE f[i - 1] + FillOf(rs[i])]

(***************************************************************************)
(* A result reports a fill of a natural quantity, or none.                 *)
(***************************************************************************)
LEMMA FillOfNat ==
    ASSUME NEW rs \in Seq(ResultRec), NEW i \in 1..Len(rs)
    PROVE  FillOf(rs[i]) \in Nat
<1>1. rs[i] \in ResultRec
  OBVIOUS
<1>2. rs[i].qty \in Nat
  BY <1>1 DEF ResultRec
<1>3. QED
  BY <1>2 DEF FillOf

(***************************************************************************)
(* Running sums exist.                                                     *)
(***************************************************************************)
LEMMA SumsExist ==
    ASSUME NEW rs, NEW n \in Nat
    PROVE  \E f : Sums(f, rs, n)
<1> DEFINE Bad == {k \in Nat : ~ \E f : Sums(f, rs, k)}
<1> SUFFICES ASSUME Bad # {}
             PROVE  FALSE
  OBVIOUS
<1>1. PICK k \in Bad : \A j \in Bad : k <= j
  <2>1. Bad \subseteq Nat
    OBVIOUS
  <2> HIDE DEF Bad
  <2>2. QED
    BY <2>1, LeastNat
<1>2. CASE k = 0
  <2> DEFINE g == [i \in 0..k |-> 0]
  <2>1. g = [i \in 0..k |-> IF i = 0 THEN 0 ELSE g[i - 1] + FillOf(rs[i])]
    BY <1>2
  <2>2. Sums(g, rs, k)
    BY <2>1, Zenon DEF Sums
  <2>3. QED
    BY <2>2
<1>3. CASE k # 0
  <2>1. k - 1 \in Nat /\ k - 1 \notin Bad
    BY <1>1, <1>3
  <2>2. PICK f : Sums(f, rs, k - 1)
    BY <2>1
  <2> DEFINE g == [i \in 0..k |-> IF i = k THEN f[k - 1] + FillOf(rs[k]) ELSE f[i]]
  <2>3. ASSUME NEW i \in 0..k
        PROVE  g[i] = IF i = 0 THEN 0 ELSE g[i - 1] + FillOf(rs[i])
    <3>1. CASE i = k
      <4>1. i - 1 \in 0..(k - 1) /\ i # 0 /\ i - 1 # k
        BY <2>1, <3>1, <1>3
      <4>2. QED
        BY <3>1, <4>1
    <3>2. CASE i # k /\ i = 0
      BY <2>1, <2>2, <3>2 DEF Sums
    <3>3. CASE i # k /\ i # 0
      <4>1. i \in 0..(k - 1) /\ i - 1 \in 0..(k - 1) /\ i - 1 # k
        BY <2>1, <3>3
      <4>2. f[i] = f[i - 1] + FillOf(rs[i])
        BY <2>2, <3>3, <4>1 DEF Sums
      <4>3. QED
        BY <3>3, <4>1, <4>2
    <3>4. QED
      BY <3>1, <3>2, <3>3
  <2>4. g = [i \in 0..k |-> g[i]]
    OBVIOUS
  <2>5. Sums(g, rs, k)
    <3> HIDE DEF g
    <3>1. QED
      BY <2>3, <2>4 DEF Sums
  <2>6. QED
    BY <2>5
<1>4. QED
  BY <1>2, <1>3

(***************************************************************************)
(* The recursion of Filled.                                                *)
(***************************************************************************)
LEMMA FilledStep ==
    ASSUME NEW rs \in Seq(ResultRec)
    PROVE  /\ Filled(rs, 0) = 0
           /\ \A k \in 1..Len(rs) : Filled(rs, k) = Filled(rs, k - 1) + FillOf(rs[k])
<1> DEFINE F == CHOOSE f : f = [i \in 0..Len(rs) |-> IF i = 0 THEN 0 ELSE f[i - 1] + FillOf(rs[i])]
<1>1. Len(rs) \in Nat
  OBVIOUS
<1>2. \A k : Filled(rs, k) = F[k]
  BY Zenon DEF Filled
<1>3. \E f : f = [i \in 0..Len(rs) |-> IF i = 0 THEN 0 ELSE f[i - 1] + FillOf(rs[i])]
  <2>1. PICK f : Sums(f, rs, Len(rs))
    BY <1>1, SumsExist
  <2>2. QED
    BY <2>1, Zenon DEF Sums
<1>4. F = [i \in 0..Len(rs) |-> IF i = 0 THEN 0 ELSE F[i - 1] + FillOf(rs[i])]
  BY <1>3, Zenon
<1> HIDE DEF F
<1>5. F[0] = 0 /\ \A k \in 1..Len(rs) : F[k] = F[k - 1] + FillOf(rs[k])
  BY <1>1, <1>4
<1>6. QED
  BY <1>2, <1>5

(***************************************************************************)
(* Sums are natural numbers and grow.                                      *)
(***************************************************************************)
LEMMA FilledNat ==
    ASSUME NEW rs \in Seq(ResultRec), NEW k \in 0..Len(rs)
    PROVE  Filled(rs, k) \in Nat
<1> DEFINE Bad == {j \in 0..Len(rs) : Filled(rs, j) \notin Nat}
<1> SUFFICES ASSUME Bad # {}
             PROVE  FALSE
  OBVIOUS
<1>1. PICK j \in Bad : \A i \in Bad : j <= i
  <2>1. Bad \subseteq Nat
    OBVIOUS
  <2> HIDE DEF Bad
  <2>2. QED
    BY <2>1, LeastNat
<1>2. j # 0
  BY FilledStep
<1>3. j \in 1..Len(rs) /\ j - 1 \in 0..Len(rs) /\ j - 1 \notin Bad
  BY <1>1, <1>2
<1>4. Filled(rs, j) = Filled(rs, j - 1) + FillOf(rs[j]) /\ FillOf(rs[j]) \in Nat
  BY <1>3, FilledStep, FillOfNat
<1>5. QED
  BY <1>3, <1>4

\* Later sums are no smaller.
LEMMA FilledGrows ==
    ASSUME NEW rs \in Seq(ResultRec), NEW j \in 0..Len(rs), NEW k \in j..Len(rs)
    PROVE  Filled(rs, j) <= Filled(rs, k)
<1> DEFINE Bad == {i \in j..Len(rs) : ~(Filled(rs, j) <= Filled(rs, i))}
<1> SUFFICES ASSUME Bad # {}
             PROVE  FALSE
  OBVIOUS
<1>1. PICK i \in Bad : \A m \in Bad : i <= m
  <2>1. Bad \subseteq Nat
    OBVIOUS
  <2> HIDE DEF Bad
  <2>2. QED
    BY <2>1, LeastNat
<1>2. i # j
  BY FilledNat
<1>3. i \in 1..Len(rs) /\ i - 1 \in j..Len(rs) /\ i - 1 \notin Bad /\ i - 1 \in 0..Len(rs)
  BY <1>1, <1>2
<1>4. Filled(rs, i) = Filled(rs, i - 1) + FillOf(rs[i]) /\ FillOf(rs[i]) \in Nat
  BY <1>3, FilledStep, FillOfNat
<1>5. Filled(rs, j) \in Nat /\ Filled(rs, i - 1) \in Nat /\ Filled(rs, j) <= Filled(rs, i - 1)
  BY <1>3, FilledNat
<1>6. QED
  BY <1>4, <1>5

(***************************************************************************)
(* The sum of a part depends on that part only.                            *)
(***************************************************************************)
LEMMA FilledShift ==
    ASSUME NEW rs \in Seq(ResultRec), NEW ts \in Seq(ResultRec),
           NEW m \in 0..Len(rs), NEW n \in Nat, m + n <= Len(rs), n <= Len(ts),
           \A i \in 1..n : rs[m + i] = ts[i]
    PROVE  \A k \in 0..n : Filled(rs, m + k) = Filled(rs, m) + Filled(ts, k)
<1> DEFINE Bad == {k \in 0..n : Filled(rs, m + k) # Filled(rs, m) + Filled(ts, k)}
<1> SUFFICES ASSUME Bad # {}
             PROVE  FALSE
  OBVIOUS
<1>0. Filled(rs, m) \in Nat /\ m \in Nat /\ Len(rs) \in Nat /\ Len(ts) \in Nat
  BY FilledNat
<1>1. PICK k \in Bad : \A j \in Bad : k <= j
  <2>1. Bad \subseteq Nat
    OBVIOUS
  <2> HIDE DEF Bad
  <2>2. QED
    BY <2>1, LeastNat
<1>2. k # 0
  BY <1>0, FilledStep
<1>3. /\ k \in 1..n /\ k - 1 \in 0..n /\ k - 1 \notin Bad
      /\ m + k \in 1..Len(rs) /\ k \in 1..Len(ts) /\ k - 1 \in 0..Len(ts)
      /\ (m + k) - 1 = m + (k - 1)
  BY <1>0, <1>1, <1>2
<1>4. Filled(rs, m + k) = Filled(rs, m + (k - 1)) + FillOf(rs[m + k])
  BY <1>3, FilledStep
<1>5. Filled(ts, k) = Filled(ts, k - 1) + FillOf(ts[k])
  BY <1>3, FilledStep
<1>6. rs[m + k] = ts[k] /\ FillOf(ts[k]) \in Nat /\ Filled(ts, k - 1) \in Nat
  BY <1>3, FillOfNat, FilledNat
<1>7. Filled(rs, m + (k - 1)) = Filled(rs, m) + Filled(ts, k - 1)
  BY <1>3
<1>8. Filled(rs, m + k) = Filled(rs, m) + Filled(ts, k)
  BY <1>0, <1>4, <1>5, <1>6, <1>7
<1>9. QED
  BY <1>8

(***************************************************************************)
(* Reading a result takes its fill from every sum.                         *)
(***************************************************************************)
LEMMA FilledTail ==
    ASSUME NEW rs \in Seq(ResultRec), rs # <<>>
    PROVE  /\ Tail(rs) \in Seq(ResultRec) /\ Len(Tail(rs)) = Len(rs) - 1
           /\ Len(rs) \in Nat \ {0} /\ Head(rs) = rs[1] /\ FillOf(rs[1]) \in Nat
           /\ \A i \in 1..(Len(rs) - 1) : Tail(rs)[i] = rs[i + 1]
           /\ \A k \in 0..(Len(rs) - 1) : Filled(rs, k + 1) = FillOf(rs[1]) + Filled(Tail(rs), k)
           /\ FilledBy(rs) = FillOf(rs[1]) + FilledBy(Tail(rs))
<1> DEFINE ts == Tail(rs)
           n == Len(rs) - 1
<1>1. /\ ts \in Seq(ResultRec) /\ Len(ts) = n /\ Len(rs) \in Nat \ {0} /\ Head(rs) = rs[1]
      /\ \A i \in 1..n : ts[i] = rs[i + 1]
  BY HeadTailProperties, EmptySeq
<1>2. n \in Nat /\ 1 \in 0..Len(rs) /\ 1 + n <= Len(rs) /\ n <= Len(ts) /\ 1 \in 1..Len(rs)
  BY <1>1
<1>3. \A i \in 1..n : rs[1 + i] = ts[i]
  BY <1>1
<1>4. Filled(rs, 1) = FillOf(rs[1]) /\ FillOf(rs[1]) \in Nat
  BY <1>2, FilledStep, FillOfNat
<1>5. \A k \in 0..n : Filled(rs, 1 + k) = Filled(rs, 1) + Filled(ts, k)
  <2> HIDE DEF ts, n
  <2>1. QED
    BY <1>1, <1>2, <1>3, FilledShift
<1>6. \A k \in 0..n : 1 + k = k + 1
  OBVIOUS
<1>7. n \in 0..n /\ n + 1 = Len(rs)
  BY <1>1
<1>8. \A k \in 0..n : Filled(rs, k + 1) = FillOf(rs[1]) + Filled(ts, k)
  BY <1>4, <1>5, <1>6
<1>9. FilledBy(rs) = FillOf(rs[1]) + FilledBy(ts)
  BY <1>1, <1>7, <1>8 DEF FilledBy
<1>10. QED
  BY <1>1, <1>4, <1>8, <1>9

(***************************************************************************)
(* New results leave the sums of the old ones alone and add their own.     *)
(***************************************************************************)
LEMMA FilledConcat ==
    ASSUME NEW rs \in Seq(ResultRec), NEW ts \in Seq(ResultRec)
    PROVE  /\ Cat(rs, ts) \in Seq(ResultRec) /\ Len(Cat(rs, ts)) = Len(rs) + Len(ts)
           /\ \A i \in 1..Len(rs) : Cat(rs, ts)[i] = rs[i]
           /\ \A i \in 1..Len(ts) : Cat(rs, ts)[Len(rs) + i] = ts[i]
           /\ \A k \in 0..Len(rs) : Filled(Cat(rs, ts), k) = Filled(rs, k)
           /\ \A k \in 0..Len(ts) : Filled(Cat(rs, ts), Len(rs) + k) = FilledBy(rs) + Filled(ts, k)
           /\ FilledBy(Cat(rs, ts)) = FilledBy(rs) + FilledBy(ts)
<1> DEFINE cs == Cat(rs, ts)
           m == Len(rs)
           n == Len(ts)
<1>1. /\ cs \in Seq(ResultRec) /\ Len(cs) = m + n /\ m \in Nat /\ n \in Nat
      /\ \A i \in 1..m : cs[i] = rs[i]
      /\ \A i \in 1..n : cs[m + i] = ts[i]
  <2>1. /\ rs \o ts \in Seq(ResultRec) /\ Len(rs \o ts) = m + n /\ m \in Nat /\ n \in Nat
        /\ \A i \in 1..(m + n) : (rs \o ts)[i] = IF i <= m THEN rs[i] ELSE ts[i - m]
    BY ConcatProperties
  <2>2. \A i \in 1..n : m + i \in 1..(m + n) /\ ~(m + i <= m) /\ (m + i) - m = i
    BY <2>1
  <2>3. \A i \in 1..m : i \in 1..(m + n) /\ i <= m
    BY <2>1
  <2> HIDE DEF m, n
  <2>4. QED
    BY <2>1, <2>2, <2>3 DEF Cat
<1> HIDE DEF cs, m, n
<1>2. rs \in Seq(ResultRec) /\ m <= Len(rs) /\ n <= Len(ts)
  BY <1>1 DEF m, n
<1>3. \A k \in 0..m : Filled(cs, k) = Filled(rs, k)
  <2>1. 0 \in 0..Len(cs) /\ 0 + m <= Len(cs) /\ \A i \in 1..m : cs[0 + i] = rs[i]
    BY <1>1
  <2>2. \A k \in 0..m : Filled(cs, 0 + k) = Filled(cs, 0) + Filled(rs, k)
    BY <1>1, <1>2, <2>1, FilledShift
  <2>3. Filled(cs, 0) = 0
    BY <1>1, FilledStep
  <2>4. ASSUME NEW k \in 0..m
        PROVE  Filled(cs, k) = Filled(rs, k)
    <3>1. Filled(rs, k) \in Nat
      BY <1>1, FilledNat DEF m
    <3>2. 0 + k = k
      BY <1>1
    <3>3. QED
      BY <2>2, <2>3, <3>1, <3>2
  <2>5. QED
    BY <2>4
<1>4. \A k \in 0..n : Filled(cs, m + k) = FilledBy(rs) + Filled(ts, k)
  <2>1. m \in 0..Len(cs) /\ m + n <= Len(cs)
    BY <1>1
  <2>2. \A k \in 0..n : Filled(cs, m + k) = Filled(cs, m) + Filled(ts, k)
    BY <1>1, <1>2, <2>1, FilledShift
  <2>3. Filled(cs, m) = FilledBy(rs)
    BY <1>1, <1>3 DEF FilledBy, m
  <2>4. QED
    BY <2>2, <2>3
<1>5. FilledBy(cs) = FilledBy(rs) + FilledBy(ts)
  BY <1>1, <1>4 DEF FilledBy, n
<1>6. QED
  BY <1>1, <1>3, <1>4, <1>5 DEF cs, m, n

\* One more result.
LEMMA FilledAppend ==
    ASSUME NEW rs \in Seq(ResultRec), NEW x \in ResultRec
    PROVE  /\ Append(rs, x) \in Seq(ResultRec) /\ Len(Append(rs, x)) = Len(rs) + 1
           /\ \A i \in 1..Len(rs) : Append(rs, x)[i] = rs[i]
           /\ Append(rs, x)[Len(rs) + 1] = x
           /\ \A k \in 0..Len(rs) : Filled(Append(rs, x), k) = Filled(rs, k)
           /\ FilledBy(Append(rs, x)) = FilledBy(rs) + FillOf(x)
<1>1. /\ Append(rs, x) \in Seq(ResultRec) /\ Len(Append(rs, x)) = Len(rs) + 1
      /\ \A i \in 1..Len(rs) : Append(rs, x)[i] = rs[i]
      /\ Append(rs, x)[Len(rs) + 1] = x /\ Len(rs) \in Nat
  BY AppendProperties
<1>2. <<x>> \in Seq(ResultRec) /\ Append(rs, x) = Cat(rs, <<x>>)
  BY AppendIsConcat DEF Cat
<1>3. \A k \in 0..Len(rs) : Filled(Append(rs, x), k) = Filled(rs, k)
  <2> DEFINE one == <<x>>
  <2>1. one \in Seq(ResultRec) /\ Append(rs, x) = Cat(rs, one)
    BY <1>2
  <2> HIDE DEF one
  <2>2. \A k \in 0..Len(rs) : Filled(Cat(rs, one), k) = Filled(rs, k)
    BY <2>1, FilledConcat
  <2>3. QED
    BY <2>1, <2>2, Zenon
<1>4. FilledBy(Append(rs, x)) = FilledBy(rs) + FillOf(x)
  <2>1. Len(rs) + 1 \in 1..Len(Append(rs, x)) /\ (Len(rs) + 1) - 1 = Len(rs)
    BY <1>1
  <2>2. Filled(Append(rs, x), Len(rs) + 1) = Filled(Append(rs, x), Len(rs)) + FillOf(x)
    BY <1>1, <2>1, FilledStep
  <2>3. Filled(Append(rs, x), Len(rs)) = Filled(rs, Len(rs))
    BY <1>1, <1>3
  <2>4. QED
    BY <1>1, <2>2, <2>3 DEF FilledBy
<1>5. QED
  BY <1>1, <1>3, <1>4

-----------------------------------------------------------------------------
(* The phases of a side. *)

SideRec == [state : OeState, price : Nat, qty : Nat, pending : Nat]

OrderRec(l) == [side : {side[l]}, price : Nat, qty : Nat]

\* A fill is never empty.
ResultSeq ==
    {rs \in Seq(ResultRec) : \A i \in 1..Len(rs) : rs[i].type = "kSuccess" => rs[i].qty > 0}

Typed(l) == st[l] \in SideRec /\ orders[l] \in Seq(OrderRec(l)) /\ results[l] \in ResultSeq

\* The book holds n lots for the side.
Rests(l, n) == resting[l] = IF n = 0 THEN <<>> ELSE <<[price |-> st[l].price, qty |-> n]>>

\* What is left of the order is on the book or a fill under way.
AllCounted(l) == \E n \in Nat : Rests(l, n) /\ FilledBy(results[l]) + n = st[l].qty

AllFills(rs) == \A i \in 1..Len(rs) : rs[i].type = "kSuccess"

\* The fills of an order, perhaps behind the reject of a stale cancel.
FillOrStale(rs, i) == rs[i].type = "kSuccess" \/ (rs[i].type = "kReject" /\ i = 1)

\* Nothing to read, or the reject of a stale cancel.
StaleReject(rs) == Len(rs) <= 1 /\ \A i \in 1..Len(rs) : rs[i].type = "kReject"

\* Fills, then one result of this type.
EndsWith(rs, type) ==
    /\ rs # <<>> /\ rs[Len(rs)].type = type
    /\ \A i \in 1..(Len(rs) - 1) : rs[i].type = "kSuccess"

\* An order that was filled before its cancel arrived leaves behind the cancel
\* under way, or its reject.
Idle(l) ==
    /\ st[l].state = "kIdle" /\ resting[l] = <<>>
    /\ \/ orders[l] = <<>> /\ StaleReject(results[l])
       \/ results[l] = <<>> /\ \E p \in Nat : orders[l] = <<Order(side[l], p, 0)>>

Sent(l) ==
    /\ st[l].state = "kWaitAccepted" /\ resting[l] = <<>> /\ st[l].qty > 0
    /\ \/ orders[l] = <<Order(side[l], st[l].price, st[l].qty)>> /\ StaleReject(results[l])
       \/ results[l] = <<>> /\ \E p \in Nat :
            orders[l] = <<Order(side[l], p, 0), Order(side[l], st[l].price, st[l].qty)>>

\* The order has traded completely: there will be no kAccepted.
Traded(l) ==
    /\ st[l].state = "kWaitAccepted" /\ resting[l] = <<>> /\ orders[l] = <<>> /\ st[l].qty > 0
    /\ \A i \in 1..Len(results[l]) : FillOrStale(results[l], i)
    /\ FilledBy(results[l]) = st[l].qty

\* kAccepted is result k; the fills before it leave something.
AcceptedAt(l, k) ==
    /\ results[l][k].type = "kAccepted"
    /\ \A i \in 1..Len(results[l]) : i # k => FillOrStale(results[l], i)
    /\ Filled(results[l], k) < st[l].qty

Accepted(l) ==
    /\ st[l].state = "kWaitAccepted" /\ orders[l] = <<>> /\ AllCounted(l)
    /\ \E k \in 1..Len(results[l]) : AcceptedAt(l, k)

Resting(l) ==
    /\ st[l].state = "kResting" /\ orders[l] = <<>> /\ st[l].qty > 0
    /\ AllFills(results[l]) /\ AllCounted(l)

Cancelling(l) ==
    /\ st[l].state = "kWaitCanceled" /\ orders[l] = <<Order(side[l], st[l].price, 0)>> /\ st[l].qty > 0
    /\ AllFills(results[l]) /\ AllCounted(l)

Cancelled(l) ==
    /\ st[l].state = "kWaitCanceled" /\ orders[l] = <<>> /\ resting[l] = <<>>
    /\ EndsWith(results[l], "kCancelled") /\ FilledBy(results[l]) < st[l].qty

\* The order was filled before the cancel: fills, then the reject.
Missed(l) ==
    /\ st[l].state = "kWaitCanceled" /\ orders[l] = <<>> /\ resting[l] = <<>> /\ st[l].qty > 0
    /\ EndsWith(results[l], "kReject") /\ FilledBy(results[l]) = st[l].qty

Phase(l) ==
    \/ Idle(l) \/ Sent(l) \/ Traded(l) \/ Accepted(l)
    \/ Resting(l) \/ Cancelling(l) \/ Cancelled(l) \/ Missed(l)

IInv(l) == Typed(l) /\ Phase(l)

-----------------------------------------------------------------------------
(* The handlers of a side. *)

Keeps(s, r) == /\ r.st.state = s.state /\ r.st.price = s.price /\ r.st.qty = s.qty
               /\ r.sends = <<>>

NewOrder(l, r) == /\ r.st.state = "kWaitAccepted" /\ r.st.qty > 0
               /\ r.sends = <<Order(side[l], r.st.price, r.st.qty)>>

Withdraws(l, s, r) == /\ r.st.state = "kWaitCanceled" /\ r.st.price = s.price /\ r.st.qty = s.qty
                   /\ r.sends = <<Order(side[l], s.price, 0)>>

(***************************************************************************)
(* Reconcile sends a new order only when the side is idle, a cancel only   *)
(* when it rests, and otherwise nothing.                                   *)
(***************************************************************************)
LEMMA ReconcileCases ==
    ASSUME NEW l, NEW s \in SideRec, NEW desired \in Int, NEW qty \in Nat \ {0},
           NEW r, r = Reconcile(s, side[l], desired, qty)
    PROVE  /\ r.st \in SideRec
           /\ \/ Keeps(s, r)
              \/ s.state = "kIdle" /\ NewOrder(l, r)
              \/ s.state = "kResting" /\ Withdraws(l, s, r)
<1>1. CASE desired <= 0
  <2>1. r = Effect(s, <<>>)
    BY <1>1 DEF Reconcile
  <2>2. QED
    BY <2>1 DEF Effect, Keeps
<1>2. CASE desired > 0 /\ s.state = "kIdle"
  <2>1. r = Effect([state |-> "kWaitAccepted", price |-> desired, qty |-> qty, pending |-> 0],
                   <<Order(side[l], desired, qty)>>)
    BY <1>2 DEF Reconcile
  <2>2. QED
    BY <1>2, <2>1 DEF Effect, NewOrder, SideRec, OeState
<1>3. CASE desired > 0 /\ s.state = "kResting" /\ s.price = desired
  <2>1. r = Effect(s, <<>>)
    BY <1>3 DEF Reconcile
  <2>2. QED
    BY <2>1 DEF Effect, Keeps
<1>4. CASE desired > 0 /\ s.state = "kResting" /\ s.price # desired
  <2>1. r = Effect([s EXCEPT !.state = "kWaitCanceled", !.pending = desired],
                   <<Order(side[l], s.price, 0)>>)
    BY <1>4 DEF Reconcile
  <2>2. r.st = [s EXCEPT !.state = "kWaitCanceled", !.pending = desired]
        /\ r.sends = <<Order(side[l], s.price, 0)>>
    BY <2>1 DEF Effect
  <2>3. desired \in Nat /\ "kWaitCanceled" \in OeState
    BY <1>4 DEF OeState
  <2>4. r.st \in SideRec
    BY <2>2, <2>3 DEF SideRec
  <2>5. r.st.state = "kWaitCanceled" /\ r.st.price = s.price /\ r.st.qty = s.qty
    BY <2>2 DEF SideRec
  <2>6. QED
    BY <1>4, <2>2, <2>4, <2>5 DEF Withdraws
<1>5. CASE desired > 0 /\ s.state \in {"kWaitAccepted", "kWaitCanceled"}
  <2>1. r = Effect([s EXCEPT !.pending = desired], <<>>)
    BY <1>5 DEF Reconcile
  <2>2. QED
    BY <1>5, <2>1 DEF Effect, Keeps, SideRec
<1>6. s.state \in OeState
  BY DEF SideRec
<1>7. QED
  BY <1>1, <1>2, <1>3, <1>4, <1>5, <1>6 DEF OeState

(***************************************************************************)
(* Entering a state on kAccepted or kCancelled: the target that waited is  *)
(* used up, and the price and quantity change with a new order only.       *)
(***************************************************************************)
LEMMA EnterCases ==
    ASSUME NEW l, NEW s \in SideRec, NEW state \in {"kResting", "kIdle"}, NEW qty \in Nat \ {0},
           NEW r, r = EnterAndReconcile(s, state, side[l], qty)
    PROVE  /\ r.st \in SideRec
           /\ \/ r.st.state = state /\ r.st.price = s.price /\ r.st.qty = s.qty /\ r.sends = <<>>
              \/ state = "kIdle" /\ NewOrder(l, r)
              \/ state = "kResting" /\ Withdraws(l, s, r)
<1> DEFINE e == [s EXCEPT !.state = state]
           q == Reconcile(e, side[l], s.pending, qty)
<1>1. e \in SideRec /\ e.state = state /\ e.price = s.price /\ e.qty = s.qty /\ s.pending \in Int
  BY DEF SideRec, OeState
<1>2. r = IF s.pending # 0 THEN Effect([q.st EXCEPT !.pending = 0], q.sends) ELSE Effect(e, <<>>)
  BY DEF EnterAndReconcile
<1>3. /\ q.st \in SideRec
      /\ \/ Keeps(e, q)
         \/ e.state = "kIdle" /\ NewOrder(l, q)
         \/ e.state = "kResting" /\ Withdraws(l, e, q)
  <2> HIDE DEF e
  <2>1. QED
    BY <1>1, ReconcileCases
<1> HIDE DEF e, q
<1>4. CASE s.pending = 0
  BY <1>1, <1>2, <1>4 DEF Effect
<1>5. CASE s.pending # 0
  <2>1. r.st = [q.st EXCEPT !.pending = 0] /\ r.sends = q.sends
    BY <1>2, <1>5 DEF Effect
  <2>2. /\ r.st \in SideRec /\ r.st.state = q.st.state
        /\ r.st.price = q.st.price /\ r.st.qty = q.st.qty
    BY <1>3, <2>1 DEF SideRec
  <2>3. CASE Keeps(e, q)
    BY <1>1, <2>1, <2>2, <2>3 DEF Keeps
  <2>4. CASE e.state = "kIdle" /\ NewOrder(l, q)
    BY <1>1, <2>1, <2>2, <2>4 DEF NewOrder
  <2>5. CASE e.state = "kResting" /\ Withdraws(l, e, q)
    BY <1>1, <2>1, <2>2, <2>5 DEF Withdraws
  <2>6. QED
    BY <1>3, <2>3, <2>4, <2>5
<1>6. QED
  BY <1>4, <1>5

\* What reading result x does to a side s.
Handled(l, s, x, r) ==
    \/ x.type = "kReject" /\ Keeps(s, r)
    \/ /\ x.type = "kSuccess" /\ r.sends = <<>> /\ r.st.price = s.price
       /\ r.st.qty = s.qty - x.qty
       /\ r.st.state = IF x.qty = s.qty THEN "kIdle" ELSE s.state
    \/ /\ x.type = "kAccepted" /\ r.st.price = s.price /\ r.st.qty = s.qty
       /\ (r.st.state = "kResting" /\ r.sends = <<>>) \/ Withdraws(l, s, r)
    \/ /\ x.type = "kCancelled"
       /\ (r.st.state = "kIdle" /\ r.sends = <<>>) \/ NewOrder(l, r)

(***************************************************************************)
(* OeReader's switch, for a fill of at most what is left of the order.     *)
(***************************************************************************)
LEMMA HandleCases ==
    ASSUME NEW l, NEW s \in SideRec, NEW x \in ResultRec, NEW qty \in Nat \ {0},
           x.type = "kSuccess" => x.qty <= s.qty,
           NEW r, r = HandleResult(s, side[l], x, qty)
    PROVE  r.st \in SideRec /\ Handled(l, s, x, r)
<1>1. x.type \in ResultType /\ x.qty \in Nat
  BY DEF ResultRec
<1>2. CASE x.type = "kReject"
  <2>1. r = Effect(s, <<>>)
    BY <1>2 DEF HandleResult
  <2>2. QED
    BY <1>2, <2>1 DEF Effect, Keeps, Handled
<1>3. CASE x.type = "kSuccess"
  <2>1. r = Effect(AfterFill(s, x.qty), <<>>)
    BY <1>3 DEF HandleResult
  <2>2. r.st = [s EXCEPT !.qty   = s.qty - x.qty,
                         !.state = IF s.qty - x.qty <= 0 THEN "kIdle" ELSE s.state]
        /\ r.sends = <<>>
    BY <2>1 DEF Effect, AfterFill
  <2>3. s.qty \in Nat /\ x.qty <= s.qty /\ s.state \in OeState
    BY <1>3 DEF SideRec
  <2>4. s.qty - x.qty \in Nat /\ (s.qty - x.qty <= 0 <=> x.qty = s.qty)
    BY <1>1, <2>3
  <2>5. /\ r.st.price = s.price /\ r.st.qty = s.qty - x.qty
        /\ r.st.state = IF x.qty = s.qty THEN "kIdle" ELSE s.state
        /\ r.st \in SideRec
    BY <2>2, <2>3, <2>4 DEF SideRec, OeState
  <2>6. QED
    BY <1>3, <2>2, <2>5 DEF Handled
<1>4. CASE x.type = "kAccepted"
  <2>1. r = EnterAndReconcile(s, "kResting", side[l], qty)
    BY <1>1, <1>4 DEF HandleResult
  <2>2. /\ r.st \in SideRec
        /\ \/ r.st.state = "kResting" /\ r.st.price = s.price /\ r.st.qty = s.qty /\ r.sends = <<>>
           \/ Withdraws(l, s, r)
    BY <2>1, EnterCases
  <2>3. QED
    BY <1>4, <2>2 DEF Handled, Withdraws
<1>5. CASE x.type = "kCancelled"
  <2>1. r = EnterAndReconcile(s, "kIdle", side[l], qty)
    BY <1>1, <1>5 DEF HandleResult
  <2>2. /\ r.st \in SideRec
        /\ (r.st.state = "kIdle" /\ r.sends = <<>>) \/ NewOrder(l, r)
    BY <2>1, EnterCases
  <2>3. QED
    BY <1>5, <2>2 DEF Handled
<1>6. QED
  BY <1>1, <1>2, <1>3, <1>4, <1>5 DEF ResultType

-----------------------------------------------------------------------------
(* Results and the fills in them. *)

(***************************************************************************)
(* Results without a fill, and results with one.                           *)
(***************************************************************************)
LEMMA NoFill ==
    ASSUME NEW rs \in ResultSeq, StaleReject(rs)
    PROVE  FilledBy(rs) = 0
<1>1. rs \in Seq(ResultRec) /\ Len(rs) \in Nat
  BY DEF ResultSeq
<1>2. CASE Len(rs) = 0
  BY <1>1, <1>2, FilledStep DEF FilledBy
<1>3. CASE Len(rs) = 1
  <2>1. Filled(rs, 0) = 0 /\ 1 \in 1..Len(rs) /\ Filled(rs, 1) = Filled(rs, 0) + FillOf(rs[1])
    BY <1>1, <1>3, FilledStep
  <2>2. FillOf(rs[1]) = 0
    BY <2>1 DEF StaleReject, FillOf
  <2>3. QED
    BY <1>3, <2>1, <2>2 DEF FilledBy
<1>4. \A n \in Nat : n <= 1 => n = 0 \/ n = 1
  OBVIOUS
<1>5. Len(rs) = 0 \/ Len(rs) = 1
  BY <1>1, <1>4 DEF StaleReject
<1>6. QED
  BY <1>2, <1>3, <1>5

\* A fill counts in the sum of all.
LEMMA SomeFill ==
    ASSUME NEW rs \in ResultSeq, NEW i \in 1..Len(rs), rs[i].type = "kSuccess"
    PROVE  /\ FilledBy(rs) \in Nat /\ FilledBy(rs) >= rs[i].qty
           /\ rs[i].qty \in Nat \ {0} /\ FillOf(rs[i]) = rs[i].qty
<1>1. rs \in Seq(ResultRec) /\ Len(rs) \in Nat /\ rs[i].qty > 0
  BY DEF ResultSeq
<1>2. FillOf(rs[i]) = rs[i].qty /\ FillOf(rs[i]) \in Nat
  BY <1>1, FillOfNat DEF FillOf
<1>3. Filled(rs, i) = Filled(rs, i - 1) + FillOf(rs[i]) /\ i - 1 \in 0..Len(rs)
  BY <1>1, FilledStep
<1>4. Filled(rs, i - 1) \in Nat
  BY <1>1, <1>3, FilledNat
<1>5. i \in 0..Len(rs) /\ Len(rs) \in i..Len(rs) /\ Len(rs) \in 0..Len(rs)
  BY <1>1
<1>6. Filled(rs, i) <= FilledBy(rs) /\ FilledBy(rs) \in Nat
  BY <1>1, <1>5, FilledGrows, FilledNat DEF FilledBy
<1>7. QED
  BY <1>1, <1>2, <1>3, <1>4, <1>6

\* The quantity filled is a natural number.
LEMMA FilledByNat ==
    ASSUME NEW rs \in ResultSeq
    PROVE  FilledBy(rs) \in Nat
<1>1. rs \in Seq(ResultRec) /\ Len(rs) \in Nat /\ Len(rs) \in 0..Len(rs)
  BY DEF ResultSeq
<1>2. QED
  BY <1>1, FilledNat DEF FilledBy

(***************************************************************************)
(* Fills that sum up to nothing are no fills.                              *)
(***************************************************************************)
LEMMA NothingFilled ==
    ASSUME NEW rs \in ResultSeq, AllFills(rs), FilledBy(rs) = 0
    PROVE  rs = <<>>
<1> SUFFICES ASSUME rs # <<>>
             PROVE  FALSE
  OBVIOUS
<1>1. rs \in Seq(ResultRec)
  BY DEF ResultSeq
<1>2. 1 \in 1..Len(rs)
  BY <1>1, EmptySeq
<1>3. rs[1].type = "kSuccess"
  BY <1>2 DEF AllFills
<1>4. QED
  BY <1>2, <1>3, SomeFill

(***************************************************************************)
(* Reading and adding one result.                                          *)
(***************************************************************************)
LEMMA RestOfResults ==
    ASSUME NEW rs \in ResultSeq, rs # <<>>
    PROVE  /\ Tail(rs) \in ResultSeq /\ Len(rs) \in Nat \ {0} /\ Len(Tail(rs)) = Len(rs) - 1
           /\ Head(rs) = rs[1] /\ rs[1] \in ResultRec /\ FillOf(rs[1]) \in Nat
           /\ \A i \in 1..(Len(rs) - 1) : Tail(rs)[i] = rs[i + 1]
           /\ \A k \in 0..(Len(rs) - 1) : Filled(rs, k + 1) = FillOf(rs[1]) + Filled(Tail(rs), k)
           /\ FilledBy(rs) = FillOf(rs[1]) + FilledBy(Tail(rs))
<1>1. rs \in Seq(ResultRec) /\ \A i \in 1..Len(rs) : rs[i].type = "kSuccess" => rs[i].qty > 0
  BY DEF ResultSeq
<1>2. /\ Tail(rs) \in Seq(ResultRec) /\ Len(rs) \in Nat \ {0} /\ Len(Tail(rs)) = Len(rs) - 1
      /\ Head(rs) = rs[1] /\ FillOf(rs[1]) \in Nat
      /\ \A i \in 1..(Len(rs) - 1) : Tail(rs)[i] = rs[i + 1]
      /\ \A k \in 0..(Len(rs) - 1) : Filled(rs, k + 1) = FillOf(rs[1]) + Filled(Tail(rs), k)
      /\ FilledBy(rs) = FillOf(rs[1]) + FilledBy(Tail(rs))
  BY <1>1, FilledTail
<1>3. rs[1] \in ResultRec
  BY <1>1, <1>2
<1>4. ASSUME NEW i \in 1..Len(Tail(rs)), Tail(rs)[i].type = "kSuccess"
      PROVE  Tail(rs)[i].qty > 0
  <2>1. i \in 1..(Len(rs) - 1) /\ i + 1 \in 1..Len(rs)
    BY <1>2
  <2>2. QED
    BY <1>1, <1>2, <1>4, <2>1
<1>5. Tail(rs) \in ResultSeq
  BY <1>2, <1>4 DEF ResultSeq
<1>6. QED
  BY <1>2, <1>3, <1>5

\* One more result, at the end.
LEMMA OneMoreResult ==
    ASSUME NEW rs \in ResultSeq, NEW x \in ResultRec, x.type = "kSuccess" => x.qty > 0
    PROVE  /\ Append(rs, x) \in ResultSeq /\ Len(rs) \in Nat /\ Len(Append(rs, x)) = Len(rs) + 1
           /\ \A i \in 1..Len(rs) : Append(rs, x)[i] = rs[i]
           /\ Append(rs, x)[Len(rs) + 1] = x
           /\ \A k \in 0..Len(rs) : Filled(Append(rs, x), k) = Filled(rs, k)
           /\ FilledBy(Append(rs, x)) = FilledBy(rs) + FillOf(x)
<1> DEFINE ts == Append(rs, x)
<1>1. /\ rs \in Seq(ResultRec) /\ Len(rs) \in Nat
      /\ \A i \in 1..Len(rs) : rs[i].type = "kSuccess" => rs[i].qty > 0
  BY DEF ResultSeq
<1>2. /\ ts \in Seq(ResultRec) /\ Len(ts) = Len(rs) + 1
      /\ \A i \in 1..Len(rs) : ts[i] = rs[i]
      /\ ts[Len(rs) + 1] = x
      /\ \A k \in 0..Len(rs) : Filled(ts, k) = Filled(rs, k)
      /\ FilledBy(ts) = FilledBy(rs) + FillOf(x)
  BY <1>1, FilledAppend
<1> HIDE DEF ts
<1>3. ASSUME NEW i \in 1..Len(ts), ts[i].type = "kSuccess"
      PROVE  ts[i].qty > 0
  <2>1. i \in 1..Len(rs) \/ i = Len(rs) + 1
    BY <1>1, <1>2
  <2>2. QED
    BY <1>1, <1>2, <1>3, <2>1
<1>4. ts \in ResultSeq
  BY <1>2, <1>3 DEF ResultSeq
<1>5. QED
  BY <1>1, <1>2, <1>4 DEF ts

-----------------------------------------------------------------------------
(* Reading a result. *)

(***************************************************************************)
(* The fill a side reads is at most what it believes is left.              *)
(***************************************************************************)
LEMMA FillFits ==
    ASSUME NEW l, IInv(l), results[l] # <<>>, results[l][1].type = "kSuccess"
    PROVE  /\ FilledBy(results[l]) <= st[l].qty /\ results[l][1].qty <= st[l].qty
           /\ ~Idle(l) /\ ~Sent(l)
<1>1. results[l] \in ResultSeq /\ st[l].qty \in Nat
  BY DEF IInv, Typed, SideRec
<1>2. 1 \in 1..Len(results[l])
  BY <1>1, RestOfResults
<1>3. FilledBy(results[l]) \in Nat /\ FilledBy(results[l]) >= results[l][1].qty /\ results[l][1].qty \in Nat
  BY <1>1, <1>2, SomeFill
<1>4. ~StaleReject(results[l])
  BY <1>2 DEF StaleReject
<1>5. ~Idle(l) /\ ~Sent(l)
  BY <1>4 DEF Idle, Sent
<1>6. AllCounted(l) => FilledBy(results[l]) <= st[l].qty
  BY <1>1, <1>3 DEF AllCounted
<1>7. FilledBy(results[l]) <= st[l].qty
  <2>1. CASE Traded(l) \/ Missed(l)
    BY <1>1, <1>3, <2>1 DEF Traded, Missed
  <2>2. CASE Accepted(l) \/ Resting(l) \/ Cancelling(l)
    BY <1>6, <2>2 DEF Accepted, Resting, Cancelling
  <2>3. CASE Cancelled(l)
    BY <1>1, <1>3, <2>3 DEF Cancelled
  <2>4. QED
    BY <1>5, <2>1, <2>2, <2>3 DEF IInv, Phase
<1>8. QED
  BY <1>1, <1>3, <1>5, <1>7

\* The rest of the results, and how their sums shift.
Advanced(l) ==
    /\ results'[l] \in ResultSeq /\ Len(results[l]) \in Nat \ {0} /\ Len(results'[l]) = Len(results[l]) - 1
    /\ \A i \in 1..(Len(results[l]) - 1) : results'[l][i] = results[l][i + 1]
    /\ FillOf(results[l][1]) \in Nat
    /\ \A k \in 0..(Len(results[l]) - 1) :
         Filled(results[l], k + 1) = FillOf(results[l][1]) + Filled(results'[l], k)
    /\ FilledBy(results[l]) = FillOf(results[l][1]) + FilledBy(results'[l])

\* The side after reading result x.
SideAfter(l, x) ==
    \/ /\ x.type = "kReject" /\ orders'[l] = orders[l]
       /\ st'[l].state = st[l].state /\ st'[l].price = st[l].price /\ st'[l].qty = st[l].qty
    \/ /\ x.type = "kSuccess" /\ orders'[l] = orders[l]
       /\ st'[l].price = st[l].price /\ st'[l].qty = st[l].qty - x.qty
       /\ st'[l].state = IF x.qty = st[l].qty THEN "kIdle" ELSE st[l].state
    \/ /\ x.type = "kAccepted" /\ st'[l].price = st[l].price /\ st'[l].qty = st[l].qty
       /\ \/ st'[l].state = "kResting" /\ orders'[l] = orders[l]
          \/ /\ st'[l].state = "kWaitCanceled"
             /\ orders[l] = <<>> => orders'[l] = <<Order(side[l], st[l].price, 0)>>
    \/ /\ x.type = "kCancelled"
       /\ \/ st'[l].state = "kIdle" /\ orders'[l] = orders[l]
          \/ /\ st'[l].state = "kWaitAccepted" /\ st'[l].qty > 0
             /\ orders[l] = <<>> => orders'[l] = <<Order(side[l], st'[l].price, st'[l].qty)>>

(***************************************************************************)
(* Sending nothing leaves the orders alone, the first order is the only    *)
(* one, and one order joins the last.                                      *)
(***************************************************************************)
LEMMA Sends ==
    ASSUME NEW l, NEW os \in Seq(OrderRec(l)), NEW o \in OrderRec(l)
    PROVE  /\ os \o <<>> = os
           /\ os = <<>> => os \o <<o>> = <<o>>
           /\ os \o <<o>> \in Seq(OrderRec(l)) /\ os \o <<o>> = Append(os, o)
<1>1. os \o <<>> = os
  BY ConcatEmptySeq
<1>2. <<o>> \in Seq(OrderRec(l)) /\ Append(os, o) = os \o <<o>> /\ Append(os, o) \in Seq(OrderRec(l))
  BY AppendIsConcat, AppendProperties
<1>3. os = <<>> => os \o <<o>> = <<o>>
  <2>1. <<>> \o <<o>> = <<o>>
    BY <1>2, ConcatEmptySeq
  <2>2. QED
    BY <2>1
<1>4. QED
  BY <1>1, <1>2, <1>3

(***************************************************************************)
(* What one round of OeReader does.                                        *)
(***************************************************************************)
LEMMA ReadFacts ==
    ASSUME NEW l, IInv(l), NEW qty, ReadResult(l, qty)
    PROVE  /\ Typed(l)' /\ resting'[l] = resting[l] /\ results[l] # <<>>
           /\ Advanced(l) /\ SideAfter(l, results[l][1])
<1> DEFINE x == results[l][1]
           r == HandleResult(st[l], side[l], x, qty)
<1>1. st[l] \in SideRec /\ orders[l] \in Seq(OrderRec(l)) /\ results[l] \in ResultSeq
  BY DEF IInv, Typed
<1>2. /\ qty \in Nat \ {0} /\ results[l] # <<>> /\ results'[l] = Tail(results[l]) /\ resting'[l] = resting[l]
      /\ Send(l, HandleResult(st[l], side[l], Head(results[l]), qty))
  BY DEF ReadResult
<1>3. Advanced(l) /\ Head(results[l]) = x /\ x \in ResultRec
  BY <1>1, <1>2, RestOfResults DEF Advanced
<1>4. st'[l] = r.st /\ orders'[l] = orders[l] \o r.sends
  BY <1>2, <1>3 DEF Send
<1>5. x.type = "kSuccess" => x.qty <= st[l].qty
  BY <1>2, FillFits
<1> HIDE DEF x
<1>6. r.st \in SideRec /\ Handled(l, st[l], x, r)
  BY <1>1, <1>2, <1>3, <1>5, HandleCases
<1> HIDE DEF r
<1>7. CASE r.sends = <<>>
  <2>1. orders'[l] = orders[l]
    BY <1>1, <1>4, <1>7, ConcatEmptySeq
  <2>2. Typed(l)'
    BY <1>1, <1>3, <1>4, <1>6, <2>1 DEF Typed, Advanced
  <2>3. SideAfter(l, x)
    <3>1. CASE x.type = "kReject" /\ Keeps(st[l], r)
      BY <1>4, <2>1, <3>1 DEF Keeps, SideAfter
    <3>2. CASE /\ x.type = "kSuccess" /\ r.st.price = st[l].price /\ r.st.qty = st[l].qty - x.qty
               /\ r.st.state = IF x.qty = st[l].qty THEN "kIdle" ELSE st[l].state
      BY <1>4, <2>1, <3>2 DEF SideAfter
    <3>3. CASE x.type = "kAccepted" /\ r.st.price = st[l].price /\ r.st.qty = st[l].qty
                 /\ r.st.state = "kResting"
      BY <1>4, <2>1, <3>3 DEF SideAfter
    <3>4. CASE x.type = "kCancelled" /\ r.st.state = "kIdle"
      BY <1>4, <2>1, <3>4 DEF SideAfter
    <3>5. ~Withdraws(l, st[l], r) /\ ~NewOrder(l, r)
      BY <1>7 DEF Withdraws, NewOrder
    <3>6. QED
      BY <1>6, <3>1, <3>2, <3>3, <3>4, <3>5 DEF Handled
  <2>4. QED
    BY <1>2, <1>3, <2>2, <2>3 DEF x
<1>8. CASE x.type = "kAccepted" /\ Withdraws(l, st[l], r)
  <2> DEFINE o == Order(side[l], st[l].price, 0)
  <2>1. o \in OrderRec(l) /\ r.sends = <<o>>
    BY <1>1, <1>8 DEF Order, OrderRec, SideRec, Withdraws
  <2> HIDE DEF o
  <2>2. orders'[l] \in Seq(OrderRec(l)) /\ (orders[l] = <<>> => orders'[l] = <<o>>)
    BY <1>1, <1>4, <2>1, Sends
  <2>3. Typed(l)'
    BY <1>3, <1>4, <1>6, <2>2 DEF Typed, Advanced
  <2>4. SideAfter(l, x)
    BY <1>4, <1>8, <2>2 DEF SideAfter, Withdraws, o
  <2>5. QED
    BY <1>2, <1>3, <2>3, <2>4 DEF x
<1>9. CASE x.type = "kCancelled" /\ NewOrder(l, r)
  <2> DEFINE o == Order(side[l], r.st.price, r.st.qty)
  <2>1. o \in OrderRec(l) /\ r.sends = <<o>>
    BY <1>6, <1>9 DEF Order, OrderRec, SideRec, NewOrder
  <2> HIDE DEF o
  <2>2. orders'[l] \in Seq(OrderRec(l)) /\ (orders[l] = <<>> => orders'[l] = <<o>>)
    BY <1>1, <1>4, <2>1, Sends
  <2>3. Typed(l)'
    BY <1>3, <1>4, <1>6, <2>2 DEF Typed, Advanced
  <2>4. SideAfter(l, x)
    BY <1>4, <1>9, <2>2 DEF SideAfter, NewOrder, o
  <2>5. QED
    BY <1>2, <1>3, <2>3, <2>4 DEF x
<1>10. r.sends = <<>> \/ (x.type = "kAccepted" /\ Withdraws(l, st[l], r))
                     \/ (x.type = "kCancelled" /\ NewOrder(l, r))
  BY <1>6 DEF Handled, Keeps
<1>11. QED
  BY <1>7, <1>8, <1>9, <1>10

(***************************************************************************)
(* A side that reads its results still counts all of its order.            *)
(***************************************************************************)
LEMMA CountedAfterRead ==
    ASSUME NEW l, Typed(l), Typed(l)', Advanced(l), resting'[l] = resting[l], st'[l].price = st[l].price,
           st'[l].qty = st[l].qty - FillOf(results[l][1]), AllCounted(l)
    PROVE  AllCounted(l)'
<1>1. PICK n \in Nat : Rests(l, n) /\ FilledBy(results[l]) + n = st[l].qty
  BY DEF AllCounted
<1>2. FilledBy(results'[l]) \in Nat /\ FilledBy(results[l]) = FillOf(results[l][1]) + FilledBy(results'[l])
      /\ FillOf(results[l][1]) \in Nat
  BY FilledByNat DEF Advanced
<1>3. FilledBy(results'[l]) + n = st'[l].qty
  BY <1>1, <1>2
<1>4. Rests(l, n)'
  BY <1>1 DEF Rests
<1>5. QED
  BY <1>3, <1>4 DEF AllCounted

(***************************************************************************)
(* The result that ends a run of fills is read last.                       *)
(***************************************************************************)
LEMMA EndAfterRead ==
    ASSUME NEW l, Advanced(l), NEW type, EndsWith(results[l], type)
    PROVE  \/ Len(results[l]) = 1 /\ results[l][1].type = type /\ results'[l] = <<>>
           \/ results[l][1].type = "kSuccess" /\ EndsWith(results'[l], type)
<1>1. /\ results'[l] \in Seq(ResultRec) /\ Len(results[l]) \in Nat \ {0}
      /\ Len(results'[l]) = Len(results[l]) - 1
      /\ \A i \in 1..(Len(results[l]) - 1) : results'[l][i] = results[l][i + 1]
  BY DEF Advanced, ResultSeq
<1>2. results[l][Len(results[l])].type = type
      /\ \A i \in 1..(Len(results[l]) - 1) : results[l][i].type = "kSuccess"
  BY DEF EndsWith
<1>3. CASE Len(results[l]) = 1
  BY <1>1, <1>2, <1>3, EmptySeq
<1>4. CASE Len(results[l]) # 1
  <2>n. PICK n \in Nat \ {0} : n = Len(results[l])
    BY <1>1
  <2>m. PICK m \in Nat : m = Len(results'[l])
    BY <1>1
  <2>d. m = n - 1 /\ n # 1 /\ 1 \in 1..(n - 1) /\ m # 0 /\ m \in 1..(n - 1) /\ m + 1 = n
    <3>1. m = n - 1 /\ n # 1
      BY <1>1, <1>4, <2>n, <2>m
    <3>2. QED
      BY <3>1
  <2>1. 1 \in 1..(Len(results[l]) - 1) /\ Len(results'[l]) # 0
    BY <2>n, <2>m, <2>d
  <2>2. results'[l][Len(results'[l])].type = type
    <3>1. Len(results'[l]) \in 1..(Len(results[l]) - 1) /\ Len(results'[l]) + 1 = Len(results[l])
      BY <2>n, <2>m, <2>d
    <3>2. QED
      BY <1>1, <1>2, <3>1
  <2>3. ASSUME NEW i \in 1..(Len(results'[l]) - 1)
        PROVE  results'[l][i].type = "kSuccess"
    <3>1. i \in 1..(Len(results[l]) - 1) /\ i + 1 \in 1..(Len(results[l]) - 1)
      BY <1>1
    <3>2. QED
      BY <1>1, <1>2, <3>1
  <2>4. results'[l] # <<>>
    BY <2>1
  <2>5. QED
    BY <1>2, <2>1, <2>2, <2>3, <2>4 DEF EndsWith
<1>5. QED
  BY <1>3, <1>4

(***************************************************************************)
(* The fills behind the first result, read or stale.                       *)
(***************************************************************************)
LEMMA FillsAfterRead ==
    ASSUME NEW l, Advanced(l), \A i \in 2..Len(results[l]) : FillOrStale(results[l], i)
    PROVE  AllFills(results'[l])
<1> SUFFICES ASSUME NEW i \in 1..Len(results'[l])
             PROVE  results'[l][i].type = "kSuccess"
  BY DEF AllFills
<1>1. /\ Len(results[l]) \in Nat \ {0} /\ Len(results'[l]) = Len(results[l]) - 1
      /\ \A j \in 1..(Len(results[l]) - 1) : results'[l][j] = results[l][j + 1]
  BY DEF Advanced
<1>2. i \in 1..(Len(results[l]) - 1) /\ i + 1 \in 2..Len(results[l]) /\ i + 1 # 1
  BY <1>1
<1>3. QED
  BY <1>1, <1>2 DEF FillOrStale

\* No result at all.
LEMMA EmptyIsStale ==
    /\ <<>> \in ResultSeq /\ StaleReject(<<>>) /\ AllFills(<<>>) /\ FilledBy(<<>>) = 0
<1>1. <<>> \in ResultSeq /\ StaleReject(<<>>) /\ AllFills(<<>>)
  BY EmptySeq DEF ResultSeq, StaleReject, AllFills
<1>2. QED
  BY <1>1, NoFill

\* An idle side reads the reject of its stale cancel.
LEMMA ReadIdle ==
    ASSUME NEW l, IInv(l), Idle(l), NEW qty, ReadResult(l, qty)
    PROVE  Idle(l)'
<1>1. /\ Typed(l)' /\ resting'[l] = resting[l] /\ results[l] # <<>>
      /\ Advanced(l) /\ SideAfter(l, results[l][1])
  BY ReadFacts
<1>2. orders[l] = <<>> /\ StaleReject(results[l]) /\ st[l].state = "kIdle" /\ resting[l] = <<>>
  BY <1>1 DEF Idle
<1>3. Len(results[l]) = 1 /\ results[l][1].type = "kReject" /\ Len(results'[l]) = 0
  <2>1. Len(results[l]) \in Nat \ {0} /\ Len(results'[l]) = Len(results[l]) - 1
    BY <1>1 DEF Advanced
  <2>2. /\ Len(results[l]) <= 1
        /\ \A i \in 1..Len(results[l]) : results[l][i].type = "kReject"
    BY <1>2 DEF StaleReject
  <2>3. PICK n \in Nat \ {0} : n = Len(results[l])
    BY <2>1
  <2>4. n = 1 /\ n - 1 = 0
    <3>1. n <= 1
      BY <2>2, <2>3, Zenon
    <3>2. QED
      BY <3>1
  <2>5. QED
    BY <2>1, <2>2, <2>3, <2>4
<1>4. StaleReject(results'[l])
  BY <1>3 DEF StaleReject
<1>5. orders'[l] = orders[l] /\ st'[l].state = st[l].state
  BY <1>1, <1>3 DEF SideAfter
<1>6. QED
  BY <1>1, <1>2, <1>4, <1>5 DEF Idle

\* So does one whose new order is still under way.
LEMMA ReadSent ==
    ASSUME NEW l, IInv(l), Sent(l), NEW qty, ReadResult(l, qty)
    PROVE  Sent(l)'
<1>1. /\ Typed(l)' /\ resting'[l] = resting[l] /\ results[l] # <<>>
      /\ Advanced(l) /\ SideAfter(l, results[l][1])
  BY ReadFacts
<1>2. /\ orders[l] = <<Order(side[l], st[l].price, st[l].qty)>> /\ StaleReject(results[l])
      /\ st[l].state = "kWaitAccepted" /\ resting[l] = <<>> /\ st[l].qty > 0
  BY <1>1 DEF Sent
<1>3. Len(results[l]) = 1 /\ results[l][1].type = "kReject" /\ Len(results'[l]) = 0
  <2>1. Len(results[l]) \in Nat \ {0} /\ Len(results'[l]) = Len(results[l]) - 1
    BY <1>1 DEF Advanced
  <2>2. /\ Len(results[l]) <= 1
        /\ \A i \in 1..Len(results[l]) : results[l][i].type = "kReject"
    BY <1>2 DEF StaleReject
  <2>3. PICK n \in Nat \ {0} : n = Len(results[l])
    BY <2>1
  <2>4. n = 1 /\ n - 1 = 0
    <3>1. n <= 1
      BY <2>2, <2>3, Zenon
    <3>2. QED
      BY <3>1
  <2>5. QED
    BY <2>1, <2>2, <2>3, <2>4
<1>4. StaleReject(results'[l])
  BY <1>3 DEF StaleReject
<1>5. orders'[l] = orders[l] /\ st'[l].state = st[l].state /\ st'[l].price = st[l].price /\ st'[l].qty = st[l].qty
  BY <1>1, <1>3 DEF SideAfter
<1>6. QED
  BY <1>1, <1>2, <1>4, <1>5 DEF Sent

\* The last fill of an order that traded completely makes the side idle.
LEMMA ReadTraded ==
    ASSUME NEW l, IInv(l), Traded(l), NEW qty, ReadResult(l, qty)
    PROVE  Idle(l)' \/ Traded(l)'
<1>1. /\ Typed(l)' /\ resting'[l] = resting[l] /\ results[l] # <<>>
      /\ Advanced(l) /\ SideAfter(l, results[l][1])
  BY ReadFacts
<1>2. /\ orders[l] = <<>> /\ st[l].state = "kWaitAccepted" /\ resting[l] = <<>> /\ st[l].qty > 0
      /\ \A i \in 1..Len(results[l]) : FillOrStale(results[l], i)
      /\ FilledBy(results[l]) = st[l].qty
  BY DEF Traded
<1>3. 1 \in 1..Len(results[l]) /\ \A i \in 2..Len(results[l]) : i \in 1..Len(results[l])
  BY <1>1 DEF Advanced
<1>4. AllFills(results'[l])
  BY <1>1, <1>2, <1>3, FillsAfterRead
<1>5. \A i \in 1..Len(results'[l]) : FillOrStale(results'[l], i)
  BY <1>4 DEF AllFills, FillOrStale
<1>6. FilledBy(results'[l]) \in Nat /\ st[l].qty = FillOf(results[l][1]) + FilledBy(results'[l])
      /\ FillOf(results[l][1]) \in Nat /\ results'[l] \in ResultSeq
  BY <1>1, <1>2, FilledByNat DEF Advanced
<1>7. CASE results[l][1].type = "kReject"
  <2>1. FillOf(results[l][1]) = 0
    BY <1>7 DEF FillOf
  <2>2. orders'[l] = orders[l] /\ st'[l].state = st[l].state /\ st'[l].qty = st[l].qty
    BY <1>1, <1>7 DEF SideAfter
  <2>3. QED
    BY <1>1, <1>2, <1>5, <1>6, <2>1, <2>2 DEF Traded
<1>8. CASE results[l][1].type = "kSuccess"
  <2>1. FillOf(results[l][1]) = results[l][1].qty
    BY <1>8 DEF FillOf
  <2>2. orders'[l] = orders[l] /\ st'[l].qty = st[l].qty - results[l][1].qty
        /\ st'[l].state = IF results[l][1].qty = st[l].qty THEN "kIdle" ELSE st[l].state
    BY <1>1, <1>8 DEF SideAfter
  <2>3. CASE results[l][1].qty = st[l].qty
    <3>1. FilledBy(results'[l]) = 0
      BY <1>6, <2>1, <2>3
    <3>2. results'[l] = <<>>
      BY <1>4, <1>6, <3>1, NothingFilled
    <3>3. QED
      BY <1>1, <1>2, <2>2, <2>3, <3>2, EmptyIsStale DEF Idle
  <2>4. CASE results[l][1].qty # st[l].qty
    <3>1. st'[l].qty > 0 /\ FilledBy(results'[l]) = st'[l].qty
      BY <1>6, <2>1, <2>2, <2>4
    <3>2. QED
      BY <1>1, <1>2, <1>5, <2>2, <2>4, <3>1 DEF Traded
  <2>5. QED
    BY <2>3, <2>4
<1>9. QED
  BY <1>2, <1>3, <1>7, <1>8 DEF FillOrStale

\* kAccepted lets the side rest or withdraw; a fill before it does not make the side idle.
LEMMA ReadAccepted ==
    ASSUME NEW l, IInv(l), Accepted(l), NEW qty, ReadResult(l, qty)
    PROVE  Accepted(l)' \/ Resting(l)' \/ Cancelling(l)'
<1>1. /\ Typed(l)' /\ resting'[l] = resting[l] /\ results[l] # <<>>
      /\ Advanced(l) /\ SideAfter(l, results[l][1])
  BY ReadFacts
<1>2. orders[l] = <<>> /\ st[l].state = "kWaitAccepted" /\ AllCounted(l)
  BY DEF Accepted
<1>3. PICK k \in 1..Len(results[l]) : AcceptedAt(l, k)
  BY DEF Accepted
<1>4. /\ results[l][k].type = "kAccepted" /\ Filled(results[l], k) < st[l].qty
      /\ \A i \in 1..Len(results[l]) : i # k => FillOrStale(results[l], i)
  BY <1>3 DEF AcceptedAt
<1>5. /\ results'[l] \in ResultSeq /\ Len(results[l]) \in Nat \ {0} /\ Len(results'[l]) = Len(results[l]) - 1
      /\ \A i \in 1..(Len(results[l]) - 1) : results'[l][i] = results[l][i + 1]
      /\ FillOf(results[l][1]) \in Nat
      /\ \A j \in 0..(Len(results[l]) - 1) :
           Filled(results[l], j + 1) = FillOf(results[l][1]) + Filled(results'[l], j)
  BY <1>1 DEF Advanced
<1>6. k - 1 \in 0..(Len(results[l]) - 1) /\ (k - 1) + 1 = k
  BY <1>5
<1>7. Filled(results[l], k) = FillOf(results[l][1]) + Filled(results'[l], k - 1)
      /\ Filled(results'[l], k - 1) \in Nat
  <2>1. Filled(results[l], k) = FillOf(results[l][1]) + Filled(results'[l], k - 1)
    BY <1>5, <1>6
  <2>2. results'[l] \in Seq(ResultRec) /\ k - 1 \in 0..Len(results'[l])
    BY <1>5, <1>6 DEF ResultSeq
  <2>3. QED
    BY <2>1, <2>2, FilledNat
<1>8. st[l].qty \in Nat /\ Typed(l)
  BY DEF IInv, Typed, SideRec
<1>9. CASE k = 1
  <2>1. \A i \in 2..Len(results[l]) : i \in 1..Len(results[l]) /\ i # k
    BY <1>5, <1>9
  <2>2. AllFills(results'[l])
    BY <1>1, <1>4, <2>1, FillsAfterRead
  <2>3. FillOf(results[l][1]) = 0 /\ st[l].qty > 0
    BY <1>4, <1>7, <1>8, <1>9 DEF FillOf
  <2>4. st'[l].price = st[l].price /\ st'[l].qty = st[l].qty
        /\ \/ st'[l].state = "kResting" /\ orders'[l] = orders[l]
           \/ st'[l].state = "kWaitCanceled" /\ orders'[l] = <<Order(side[l], st[l].price, 0)>>
    BY <1>1, <1>2, <1>4, <1>9 DEF SideAfter
  <2>5. st'[l].qty = st[l].qty - FillOf(results[l][1])
    BY <1>8, <2>3, <2>4
  <2>6. AllCounted(l)'
    BY <1>1, <1>2, <1>8, <2>4, <2>5, CountedAfterRead
  <2>7. QED
    BY <1>2, <2>2, <2>3, <2>4, <2>6 DEF Resting, Cancelling
<1>10. CASE k # 1
  <2>1. 1 \in 1..Len(results[l]) /\ FillOrStale(results[l], 1)
    BY <1>4, <1>5, <1>10
  <2>2. /\ orders'[l] = orders[l] /\ st'[l].price = st[l].price /\ st'[l].state = st[l].state
        /\ st'[l].qty = st[l].qty - FillOf(results[l][1])
    <3>1. CASE results[l][1].type = "kReject"
      <4>1. FillOf(results[l][1]) = 0
        BY <3>1 DEF FillOf
      <4>2. QED
        BY <1>1, <1>8, <3>1, <4>1 DEF SideAfter
    <3>2. CASE results[l][1].type = "kSuccess"
      <4>1. FillOf(results[l][1]) = results[l][1].qty
        BY <3>2 DEF FillOf
      <4>2. results[l][1].qty # st[l].qty
        BY <1>4, <1>5, <1>7, <1>8, <4>1
      <4>3. QED
        BY <1>1, <3>2, <4>1, <4>2 DEF SideAfter
    <3>3. QED
      BY <2>1, <3>1, <3>2 DEF FillOrStale
  <2>3. AllCounted(l)'
    BY <1>1, <1>2, <1>8, <2>2, CountedAfterRead
  <2>4. k - 1 \in 1..Len(results'[l]) /\ results'[l][k - 1] = results[l][k]
    BY <1>5, <1>6, <1>10
  <2>5. Filled(results'[l], k - 1) < st'[l].qty
    BY <1>4, <1>5, <1>7, <1>8, <2>2
  <2>6. ASSUME NEW i \in 1..Len(results'[l]), i # k - 1
        PROVE  FillOrStale(results'[l], i)
    <3>1. /\ i \in 1..(Len(results[l]) - 1) /\ i + 1 \in 1..Len(results[l])
          /\ i + 1 # k /\ i + 1 # 1
      BY <1>5, <1>6, <2>6
    <3>2. QED
      BY <1>4, <1>5, <3>1 DEF FillOrStale
  <2>7. AcceptedAt(l, k - 1)'
    BY <1>4, <2>4, <2>5, <2>6 DEF AcceptedAt
  <2>8. QED
    BY <1>2, <2>2, <2>3, <2>4, <2>7 DEF Accepted
<1>11. QED
  BY <1>9, <1>10

\* The last fill makes a side that rests, or cancels, idle.
LEMMA ReadResting ==
    ASSUME NEW l, IInv(l), NEW qty, ReadResult(l, qty), Resting(l) \/ Cancelling(l)
    PROVE  Idle(l)' \/ Resting(l)' \/ Cancelling(l)'
<1>1. /\ Typed(l)' /\ resting'[l] = resting[l] /\ results[l] # <<>>
      /\ Advanced(l) /\ SideAfter(l, results[l][1])
  BY ReadFacts
<1>2. AllFills(results[l]) /\ AllCounted(l) /\ st[l].qty > 0
  BY DEF Resting, Cancelling
<1>3. Typed(l) /\ st[l].qty \in Nat /\ results[l] \in ResultSeq /\ st[l].price \in Nat
  BY DEF IInv, Typed, SideRec
<1>4. 1 \in 1..Len(results[l]) /\ \A i \in 2..Len(results[l]) : i \in 1..Len(results[l])
  BY <1>1 DEF Advanced
<1>5. results[l][1].type = "kSuccess" /\ FillOf(results[l][1]) = results[l][1].qty
      /\ \A i \in 2..Len(results[l]) : FillOrStale(results[l], i)
  BY <1>2, <1>4 DEF AllFills, FillOf, FillOrStale
<1>6. AllFills(results'[l])
  BY <1>1, <1>5, FillsAfterRead
<1>7. /\ orders'[l] = orders[l] /\ st'[l].price = st[l].price /\ st'[l].qty = st[l].qty - results[l][1].qty
      /\ st'[l].state = IF results[l][1].qty = st[l].qty THEN "kIdle" ELSE st[l].state
  BY <1>1, <1>5 DEF SideAfter
<1>8. AllCounted(l)'
  BY <1>1, <1>2, <1>3, <1>5, <1>7, CountedAfterRead
<1>9. CASE results[l][1].qty = st[l].qty
  <2>1. PICK n \in Nat : Rests(l, n)' /\ FilledBy(results'[l]) + n = st'[l].qty
    BY <1>8 DEF AllCounted
  <2>2. results'[l] \in ResultSeq /\ FilledBy(results'[l]) \in Nat
    BY <1>1, FilledByNat DEF Advanced
  <2>3. n = 0 /\ FilledBy(results'[l]) = 0
    BY <1>3, <1>7, <1>9, <2>1, <2>2
  <2>4. results'[l] = <<>>
    BY <1>6, <2>2, <2>3, NothingFilled
  <2>5. resting'[l] = <<>> /\ st'[l].state = "kIdle"
    BY <1>7, <1>9, <2>1, <2>3 DEF Rests
  <2>6. orders'[l] = <<>> \/ orders'[l] = <<Order(side[l], st[l].price, 0)>>
    BY <1>7 DEF Resting, Cancelling
  <2>7. QED
    BY <1>3, <2>4, <2>5, <2>6, EmptyIsStale DEF Idle
<1>10. CASE results[l][1].qty # st[l].qty
  <2>1. st'[l].qty \in Nat
    BY <1>1 DEF Typed, SideRec
  <2>2. results[l][1].qty \in Nat
    BY <1>3, <1>4, <1>5, SomeFill
  <2>3. st'[l].qty > 0 /\ st'[l].state = st[l].state
    BY <1>3, <1>7, <1>10, <2>1, <2>2
  <2>4. QED
    BY <1>6, <1>7, <1>8, <2>3 DEF Resting, Cancelling
<1>11. QED
  BY <1>9, <1>10

\* kCancelled makes the side idle or sends the next order; no fill before it does.
LEMMA ReadCancelled ==
    ASSUME NEW l, IInv(l), Cancelled(l), NEW qty, ReadResult(l, qty)
    PROVE  Idle(l)' \/ Sent(l)' \/ Cancelled(l)'
<1>1. /\ Typed(l)' /\ resting'[l] = resting[l] /\ results[l] # <<>>
      /\ Advanced(l) /\ SideAfter(l, results[l][1])
  BY ReadFacts
<1>2. /\ orders[l] = <<>> /\ st[l].state = "kWaitCanceled" /\ resting[l] = <<>>
      /\ EndsWith(results[l], "kCancelled") /\ FilledBy(results[l]) < st[l].qty
  BY DEF Cancelled
<1>3. CASE results[l][1].type = "kCancelled" /\ results'[l] = <<>>
  <2>1. \/ st'[l].state = "kIdle" /\ orders'[l] = orders[l]
        \/ st'[l].state = "kWaitAccepted" /\ st'[l].qty > 0 /\ orders'[l] = <<Order(side[l], st'[l].price, st'[l].qty)>>
    BY <1>1, <1>2, <1>3 DEF SideAfter
  <2>2. QED
    BY <1>1, <1>2, <1>3, <2>1, EmptyIsStale DEF Idle, Sent
<1>4. CASE results[l][1].type = "kSuccess" /\ EndsWith(results'[l], "kCancelled")
  <2>1. FillOf(results[l][1]) = results[l][1].qty /\ FillOf(results[l][1]) \in Nat
        /\ FilledBy(results[l]) = FillOf(results[l][1]) + FilledBy(results'[l])
        /\ FilledBy(results'[l]) \in Nat
    BY <1>1, <1>4, FilledByNat DEF FillOf, Advanced
  <2>2. st[l].qty \in Nat
    BY DEF IInv, Typed, SideRec
  <2>3. results[l][1].qty # st[l].qty
    BY <1>2, <2>1, <2>2
  <2>4. orders'[l] = orders[l] /\ st'[l].state = st[l].state /\ st'[l].qty = st[l].qty - results[l][1].qty
    BY <1>1, <1>4, <2>3 DEF SideAfter
  <2>5. FilledBy(results'[l]) < st'[l].qty
    BY <1>2, <2>1, <2>2, <2>4
  <2>6. QED
    BY <1>1, <1>2, <1>4, <2>4, <2>5 DEF Cancelled
<1>5. QED
  BY <1>1, <1>2, <1>3, <1>4, EndAfterRead

\* The last fill before the reject of a late cancel makes the side idle.
LEMMA ReadMissed ==
    ASSUME NEW l, IInv(l), Missed(l), NEW qty, ReadResult(l, qty)
    PROVE  Idle(l)' \/ Missed(l)'
<1>1. /\ Typed(l)' /\ resting'[l] = resting[l] /\ results[l] # <<>>
      /\ Advanced(l) /\ SideAfter(l, results[l][1])
  BY ReadFacts
<1>2. /\ orders[l] = <<>> /\ st[l].state = "kWaitCanceled" /\ resting[l] = <<>> /\ st[l].qty > 0
      /\ EndsWith(results[l], "kReject") /\ FilledBy(results[l]) = st[l].qty
  BY DEF Missed
<1>3. /\ FilledBy(results[l]) = FillOf(results[l][1]) + FilledBy(results'[l])
      /\ FillOf(results[l][1]) \in Nat /\ FilledBy(results'[l]) \in Nat /\ results'[l] \in ResultSeq
      /\ st[l].qty \in Nat
  BY <1>1, FilledByNat DEF Advanced, IInv, Typed, SideRec
<1>4. CASE results[l][1].type = "kReject" /\ results'[l] = <<>>
  <2>1. FillOf(results[l][1]) = 0 /\ FilledBy(results'[l]) = 0
    BY <1>4, EmptyIsStale DEF FillOf
  <2>2. QED
    BY <1>2, <1>3, <2>1
<1>5. CASE results[l][1].type = "kSuccess" /\ EndsWith(results'[l], "kReject")
  <2>1. FillOf(results[l][1]) = results[l][1].qty
    BY <1>5 DEF FillOf
  <2>2. /\ orders'[l] = orders[l] /\ st'[l].qty = st[l].qty - results[l][1].qty
        /\ st'[l].state = IF results[l][1].qty = st[l].qty THEN "kIdle" ELSE st[l].state
    BY <1>1, <1>5 DEF SideAfter
  <2>3. CASE results[l][1].qty = st[l].qty
    <3>1. FilledBy(results'[l]) = 0
      BY <1>2, <1>3, <2>1, <2>3
    <3>2. results'[l] \in Seq(ResultRec) /\ Len(results'[l]) \in Nat
      BY <1>3 DEF ResultSeq
    <3>3. Len(results'[l]) <= 1
      <4> SUFFICES ASSUME ~(Len(results'[l]) <= 1)
                   PROVE  FALSE
        OBVIOUS
      <4>1. 1 \in 1..(Len(results'[l]) - 1) /\ 1 \in 1..Len(results'[l])
        BY <3>2
      <4>2. results'[l][1].type = "kSuccess"
        BY <1>5, <4>1 DEF EndsWith
      <4>3. FilledBy(results'[l]) >= results'[l][1].qty /\ results'[l][1].qty \in Nat \ {0}
        BY <1>3, <4>1, <4>2, SomeFill
      <4>4. QED
        BY <3>1, <4>3
    <3>4. Len(results'[l]) # 0 /\ results'[l][Len(results'[l])].type = "kReject"
      BY <1>5, <3>2, EmptySeq DEF EndsWith
    <3>5. StaleReject(results'[l])
      <4>1. \A n \in Nat : n <= 1 /\ n # 0 => n = 1
        OBVIOUS
      <4>2. Len(results'[l]) = 1
        BY <3>2, <3>3, <3>4, <4>1
      <4>3. QED
        BY <3>4, <4>2 DEF StaleReject
    <3>6. QED
      BY <1>1, <1>2, <2>2, <2>3, <3>5 DEF Idle
  <2>4. CASE results[l][1].qty # st[l].qty
    <3>1. st'[l].qty = st[l].qty - FillOf(results[l][1]) /\ FillOf(results[l][1]) # st[l].qty
      BY <2>1, <2>2, <2>4
    <3>2. st[l].qty = FillOf(results[l][1]) + FilledBy(results'[l])
      BY <1>2, <1>3
    <3>3. st'[l].qty > 0 /\ FilledBy(results'[l]) = st'[l].qty
      BY <1>3, <3>1, <3>2
    <3>4. QED
      BY <1>1, <1>2, <1>5, <2>2, <2>4, <3>3 DEF Missed
  <2>5. QED
    BY <2>3, <2>4
<1>6. QED
  BY <1>1, <1>2, <1>4, <1>5, EndAfterRead

(***************************************************************************)
(* One round of OeReader keeps the invariant.                              *)
(***************************************************************************)
LEMMA ReadResultStep ==
    ASSUME NEW l, IInv(l), NEW qty, ReadResult(l, qty)
    PROVE  IInv(l)'
<1>1. Typed(l)'
  BY ReadFacts
<1>2. Phase(l)'
  <2>1. CASE Idle(l)
    BY <2>1, ReadIdle DEF Phase
  <2>2. CASE Sent(l)
    BY <2>2, ReadSent DEF Phase
  <2>3. CASE Traded(l)
    BY <2>3, ReadTraded DEF Phase
  <2>4. CASE Accepted(l)
    BY <2>4, ReadAccepted DEF Phase
  <2>5. CASE Resting(l) \/ Cancelling(l)
    BY <2>5, ReadResting DEF Phase
  <2>6. CASE Cancelled(l)
    BY <2>6, ReadCancelled DEF Phase
  <2>7. CASE Missed(l)
    BY <2>7, ReadMissed DEF Phase
  <2>8. QED
    BY <2>1, <2>2, <2>3, <2>4, <2>5, <2>6, <2>7 DEF IInv, Phase
<1>3. QED
  BY <1>1, <1>2 DEF IInv

-----------------------------------------------------------------------------
(* The other steps. *)

(***************************************************************************)
(* A new target alone changes nothing.                                     *)
(***************************************************************************)
LEMMA PhaseFrame ==
    ASSUME NEW l, Phase(l), UNCHANGED <<orders[l], resting[l], results[l]>>,
           st'[l].state = st[l].state, st'[l].price = st[l].price, st'[l].qty = st[l].qty
    PROVE  Phase(l)'
<1>1. AllCounted(l) => AllCounted(l)'
  BY DEF AllCounted, Rests
<1>2. CASE Idle(l)
  BY <1>2 DEF Idle, Phase
<1>3. CASE Sent(l)
  BY <1>3 DEF Sent, Phase
<1>4. CASE Traded(l)
  BY <1>4 DEF Traded, Phase
<1>5. CASE Accepted(l)
  BY <1>1, <1>5 DEF Accepted, AcceptedAt, Phase
<1>6. CASE Resting(l) \/ Cancelling(l)
  BY <1>1, <1>6 DEF Resting, Cancelling, Phase
<1>7. CASE Cancelled(l) \/ Missed(l)
  BY <1>7 DEF Cancelled, Missed, Phase
<1>8. QED
  BY <1>2, <1>3, <1>4, <1>5, <1>6, <1>7 DEF Phase

(***************************************************************************)
(* A side is idle, or rests, in one phase only.                            *)
(***************************************************************************)
LEMMA PhaseOfState ==
    ASSUME NEW l, Phase(l)
    PROVE  (st[l].state = "kIdle" => Idle(l)) /\ (st[l].state = "kResting" => Resting(l))
BY DEF Phase, Idle, Sent, Traded, Accepted, Resting, Cancelling, Cancelled, Missed

(***************************************************************************)
(* A call of Reconcile keeps the invariant.                                *)
(***************************************************************************)
LEMMA TargetStep ==
    ASSUME NEW l, IInv(l), NEW desired, NEW qty, Target(l, desired, qty)
    PROVE  IInv(l)'
<1> DEFINE r == Reconcile(st[l], side[l], desired, qty)
<1>1. st[l] \in SideRec /\ orders[l] \in Seq(OrderRec(l)) /\ results[l] \in ResultSeq /\ Phase(l)
  BY DEF IInv, Typed
<1>2. /\ desired \in Int /\ qty \in Nat \ {0} /\ UNCHANGED <<resting[l], results[l]>>
      /\ st'[l] = r.st /\ orders'[l] = orders[l] \o r.sends
  BY DEF Target, Send
<1>3. /\ r.st \in SideRec
      /\ \/ Keeps(st[l], r)
         \/ st[l].state = "kIdle" /\ NewOrder(l, r)
         \/ st[l].state = "kResting" /\ Withdraws(l, st[l], r)
  BY <1>1, <1>2, ReconcileCases
<1> HIDE DEF r
<1>4. CASE Keeps(st[l], r)
  <2>1. orders'[l] = orders[l]
    BY <1>1, <1>2, <1>4, ConcatEmptySeq DEF Keeps
  <2>2. st'[l].state = st[l].state /\ st'[l].price = st[l].price /\ st'[l].qty = st[l].qty
    BY <1>2, <1>4 DEF Keeps
  <2>3. Phase(l)'
    BY <1>1, <1>2, <2>1, <2>2, PhaseFrame
  <2>4. QED
    BY <1>1, <1>2, <1>3, <2>1, <2>3 DEF IInv, Typed
<1>5. CASE st[l].state = "kIdle" /\ NewOrder(l, r)
  <2> DEFINE o == Order(side[l], r.st.price, r.st.qty)
  <2>1. o \in OrderRec(l) /\ r.sends = <<o>>
    BY <1>3, <1>5 DEF Order, OrderRec, SideRec, NewOrder
  <2> HIDE DEF o
  <2>2. /\ orders'[l] \in Seq(OrderRec(l)) /\ orders'[l] = Append(orders[l], o)
        /\ orders[l] = <<>> => orders'[l] = <<o>>
    BY <1>1, <1>2, <2>1, Sends
  <2>3. Idle(l)
    BY <1>1, <1>5, PhaseOfState
  <2>4. st'[l].state = "kWaitAccepted" /\ st'[l].qty > 0 /\ o = Order(side[l], st'[l].price, st'[l].qty)
    BY <1>2, <1>5 DEF NewOrder, o
  <2>5. Sent(l)'
    <3>1. CASE orders[l] = <<>> /\ StaleReject(results[l])
      BY <1>2, <2>2, <2>3, <2>4, <3>1 DEF Idle, Sent
    <3>2. CASE results[l] = <<>> /\ \E p \in Nat : orders[l] = <<Order(side[l], p, 0)>>
      <4>1. PICK p \in Nat : orders[l] = <<Order(side[l], p, 0)>>
        BY <3>2
      <4>2. Order(side[l], p, 0) \in OrderRec(l)
        BY DEF Order, OrderRec
      <4>3. orders'[l] = <<Order(side[l], p, 0), o>>
        BY <2>1, <2>2, <4>1, <4>2, AppendToOne
      <4>4. QED
        BY <1>2, <2>3, <2>4, <3>2, <4>3 DEF Idle, Sent
    <3>3. QED
      BY <2>3, <3>1, <3>2 DEF Idle
  <2>6. QED
    BY <1>1, <1>2, <1>3, <2>2, <2>5 DEF IInv, Typed, Phase
<1>6. CASE st[l].state = "kResting" /\ Withdraws(l, st[l], r)
  <2> DEFINE o == Order(side[l], st[l].price, 0)
  <2>1. o \in OrderRec(l) /\ r.sends = <<o>>
    BY <1>1, <1>6 DEF Order, OrderRec, SideRec, Withdraws
  <2>2. Resting(l)
    BY <1>1, <1>6, PhaseOfState
  <2>3. orders'[l] = <<o>> /\ orders'[l] \in Seq(OrderRec(l))
    <3> HIDE DEF o
    <3>1. orders[l] = <<>>
      BY <2>2 DEF Resting
    <3>2. QED
      BY <1>1, <1>2, <2>1, <3>1, Sends
  <2>4. st'[l].state = "kWaitCanceled" /\ st'[l].price = st[l].price /\ st'[l].qty = st[l].qty
    BY <1>2, <1>6 DEF Withdraws
  <2>5. AllCounted(l)'
    BY <1>2, <2>2, <2>4 DEF Resting, AllCounted, Rests
  <2>6. Cancelling(l)'
    BY <1>2, <2>2, <2>3, <2>4, <2>5 DEF Resting, Cancelling
  <2>7. QED
    BY <1>1, <1>2, <1>3, <2>3, <2>6 DEF IInv, Typed, Phase
<1>7. QED
  BY <1>3, <1>4, <1>5, <1>6

\* A new connection starts idle.
LEMMA DisconnectStep ==
    ASSUME NEW l, Disconnect(l)
    PROVE  IInv(l)'
<1>1. NoOrder \in SideRec /\ NoOrder.state = "kIdle"
  BY DEF NoOrder, SideRec, OeState
<1>2. st'[l] = NoOrder /\ orders'[l] = <<>> /\ resting'[l] = <<>> /\ results'[l] = <<>>
  BY DEF Disconnect, LineInit
<1>3. orders'[l] \in Seq(OrderRec(l))
  BY <1>2
<1>4. QED
  BY <1>1, <1>2, <1>3, EmptyIsStale DEF IInv, Typed, Phase, Idle

(***************************************************************************)
(* The first of one or two orders.                                         *)
(***************************************************************************)
LEMMA FirstOrder ==
    ASSUME NEW l, NEW a \in OrderRec(l), NEW b \in OrderRec(l)
    PROVE  /\ <<a>> # <<>> /\ Head(<<a>>) = a /\ Tail(<<a>>) = <<>>
           /\ <<a, b>> # <<>> /\ Head(<<a, b>>) = a /\ Tail(<<a, b>>) = <<b>>
OBVIOUS

\* The results of the engine are results.
LEMMA ResultOfType ==
    ASSUME NEW type \in ResultType, NEW qty \in Nat
    PROVE  /\ ResultOf(type, qty) \in ResultRec
           /\ ResultOf(type, qty).type = type /\ ResultOf(type, qty).qty = qty
           /\ FillOf(ResultOf(type, qty)) = IF type = "kSuccess" THEN qty ELSE 0
BY DEF ResultOf, ResultRec, FillOf

(***************************************************************************)
(* The next order is a cancel only of a side that waits for it, or a stale *)
(* one.                                                                    *)
(***************************************************************************)
LEMMA NextIsCancel ==
    ASSUME NEW l, IInv(l), orders[l] # <<>>, Head(orders[l]).qty = 0
    PROVE  /\ Head(orders[l]) \in OrderRec(l) /\ Tail(orders[l]) \in Seq(OrderRec(l))
           /\ \/ Idle(l) /\ results[l] = <<>> /\ Tail(orders[l]) = <<>>
              \/ /\ Sent(l) /\ results[l] = <<>>
                 /\ Tail(orders[l]) = <<Order(side[l], st[l].price, st[l].qty)>>
              \/ /\ Cancelling(l) /\ Tail(orders[l]) = <<>> /\ Head(orders[l]).price = st[l].price
<1>1. st[l] \in SideRec /\ st[l].price \in Nat /\ st[l].qty \in Nat /\ orders[l] \in Seq(OrderRec(l))
  BY DEF IInv, Typed, SideRec
<1>2. Head(orders[l]) \in OrderRec(l) /\ Tail(orders[l]) \in Seq(OrderRec(l))
  BY <1>1, HeadTailProperties
<1> DEFINE new == Order(side[l], st[l].price, st[l].qty)
           cancel == Order(side[l], st[l].price, 0)
<1>3. new \in OrderRec(l) /\ new.qty = st[l].qty /\ cancel \in OrderRec(l) /\ cancel.price = st[l].price
  BY <1>1 DEF Order, OrderRec
<1> HIDE DEF new, cancel
<1>4. CASE Idle(l)
  <2>1. PICK p \in Nat : results[l] = <<>> /\ orders[l] = <<Order(side[l], p, 0)>>
    BY <1>4 DEF Idle
  <2>2. Order(side[l], p, 0) \in OrderRec(l)
    BY DEF Order, OrderRec
  <2>3. Tail(orders[l]) = <<>>
    BY <2>1, <2>2, FirstOrder
  <2>4. QED
    BY <1>2, <1>4, <2>1, <2>3
<1>5. CASE Sent(l)
  <2>1. \/ orders[l] = <<new>>
        \/ results[l] = <<>> /\ \E p \in Nat : orders[l] = <<Order(side[l], p, 0), new>>
    BY <1>5 DEF Sent, new
  <2>2. orders[l] # <<new>>
    <3> SUFFICES ASSUME orders[l] = <<new>>
                 PROVE  FALSE
      OBVIOUS
    <3>1. Head(orders[l]) = new
      BY <1>3, FirstOrder
    <3>2. QED
      BY <1>3, <1>5, <3>1 DEF Sent
  <2>3. PICK p \in Nat : results[l] = <<>> /\ orders[l] = <<Order(side[l], p, 0), new>>
    BY <2>1, <2>2
  <2>4. Order(side[l], p, 0) \in OrderRec(l)
    BY DEF Order, OrderRec
  <2>5. Tail(orders[l]) = <<new>>
    BY <1>3, <2>3, <2>4, FirstOrder
  <2>6. QED
    BY <1>2, <1>5, <2>3, <2>5 DEF new
<1>6. CASE Cancelling(l)
  <2>1. orders[l] = <<cancel>>
    BY <1>6 DEF Cancelling, cancel
  <2>2. Head(orders[l]) = cancel /\ Tail(orders[l]) = <<>>
    BY <1>3, <2>1, FirstOrder
  <2>3. QED
    BY <1>2, <1>3, <1>6, <2>2
<1>7. CASE Traded(l) \/ Accepted(l) \/ Resting(l) \/ Cancelled(l) \/ Missed(l)
  BY <1>7 DEF Traded, Accepted, Resting, Cancelled, Missed
<1>8. QED
  BY <1>4, <1>5, <1>6, <1>7 DEF IInv, Phase

(***************************************************************************)
(* A cancel that finds the order, comes too late for it, or is stale.      *)
(***************************************************************************)
LEMMA CancelStep ==
    ASSUME NEW l, IInv(l), Cancel(l)
    PROVE  IInv(l)'
<1> DEFINE type == IF Found(l) THEN "kCancelled" ELSE "kReject"
           x    == ResultOf(type, 0)
<1>1. st[l] \in SideRec /\ results[l] \in ResultSeq /\ st[l].qty \in Nat
  BY DEF IInv, Typed, SideRec
<1>2. /\ orders[l] # <<>> /\ Head(orders[l]).qty = 0 /\ orders'[l] = Tail(orders[l]) /\ st'[l] = st[l]
      /\ resting'[l] = (IF Found(l) THEN Tail(resting[l]) ELSE resting[l])
      /\ results'[l] = Append(results[l], x)
  BY DEF Cancel
<1>3. type \in ResultType /\ type # "kSuccess" /\ 0 \in Nat
  BY DEF ResultType
<1>4. x \in ResultRec /\ x.type = type /\ FillOf(x) = 0
  <2> HIDE DEF type
  <2>1. QED
    BY <1>3, ResultOfType
<1> HIDE DEF x
<1>5. /\ results'[l] \in ResultSeq /\ Len(results[l]) \in Nat /\ Len(results'[l]) = Len(results[l]) + 1
      /\ \A i \in 1..Len(results[l]) : results'[l][i] = results[l][i]
      /\ results'[l][Len(results[l]) + 1] = x
      /\ FilledBy(results'[l]) = FilledBy(results[l]) + FillOf(x)
  BY <1>1, <1>2, <1>3, <1>4, OneMoreResult
<1>6. FilledBy(results'[l]) = FilledBy(results[l]) /\ FilledBy(results[l]) \in Nat
  BY <1>1, <1>4, <1>5, FilledByNat
<1>7. Typed(l)' /\ Head(orders[l]) \in OrderRec(l)
  BY <1>1, <1>2, <1>5, NextIsCancel DEF Typed
<1>8. CASE resting[l] = <<>> /\ results[l] = <<>>
  <2>1. ~Found(l) /\ resting'[l] = <<>>
    BY <1>2, <1>8 DEF Found
  <2>2. Len(results'[l]) = 1 /\ results'[l][1].type = "kReject"
    <3>1. Len(results[l]) = 0
      BY <1>8
    <3>2. QED
      BY <1>4, <1>5, <2>1, <3>1
  <2>3. StaleReject(results'[l])
    BY <2>2 DEF StaleReject
  <2>4. CASE Idle(l) /\ Tail(orders[l]) = <<>>
    BY <1>2, <1>7, <2>1, <2>3, <2>4 DEF Idle, IInv, Phase
  <2>5. CASE Sent(l) /\ Tail(orders[l]) = <<Order(side[l], st[l].price, st[l].qty)>>
    BY <1>2, <1>7, <2>1, <2>3, <2>5 DEF Sent, IInv, Phase
  <2>6. CASE Cancelling(l) /\ Tail(orders[l]) = <<>>
    <3>1. PICK n \in Nat : Rests(l, n) /\ FilledBy(results[l]) + n = st[l].qty
      BY <2>6 DEF Cancelling, AllCounted
    <3>2. n = 0
      <4>1. ~(resting[l] = <<[price |-> st[l].price, qty |-> n]>>)
        BY <1>8
      <4>2. QED
        BY <3>1, <4>1 DEF Rests
    <3>3. FilledBy(results[l]) = 0
      BY <1>8, EmptyIsStale
    <3>4. QED
      BY <2>6, <3>1, <3>2, <3>3 DEF Cancelling
  <2>7. QED
    BY <1>2, <2>4, <2>5, <2>6, NextIsCancel
<1>9. CASE ~(resting[l] = <<>> /\ results[l] = <<>>)
  <2>1. Cancelling(l) /\ Tail(orders[l]) = <<>> /\ Head(orders[l]).price = st[l].price
    BY <1>2, <1>9, NextIsCancel DEF Idle, Sent
  <2>2. PICK n \in Nat : Rests(l, n) /\ FilledBy(results[l]) + n = st[l].qty
    BY <2>1 DEF Cancelling, AllCounted
  <2>3. EndsWith(results'[l], type)
    <3>1. results'[l] # <<>> /\ results'[l][Len(results'[l])].type = type
      <4>1. Len(results'[l]) # 0 /\ Len(results'[l]) = Len(results[l]) + 1
        BY <1>5
      <4>2. QED
        BY <1>4, <1>5, <4>1
    <3>2. ASSUME NEW i \in 1..(Len(results'[l]) - 1)
          PROVE  results'[l][i].type = "kSuccess"
      <4>1. i \in 1..Len(results[l])
        BY <1>5
      <4>2. QED
        BY <1>5, <2>1, <4>1 DEF Cancelling, AllFills
    <3>3. QED
      BY <3>1, <3>2 DEF EndsWith
  <2>4. CASE n = 0
    <3>1. resting[l] = <<>> /\ ~Found(l) /\ resting'[l] = <<>>
      BY <1>2, <2>2, <2>4 DEF Rests, Found
    <3>2. FilledBy(results'[l]) = st[l].qty
      BY <1>6, <2>2, <2>4
    <3>3. Missed(l)'
      BY <1>2, <2>1, <2>3, <3>1, <3>2 DEF Missed, Cancelling
    <3>4. QED
      BY <1>7, <3>3 DEF IInv, Phase
  <2>5. CASE n # 0
    <3>1. resting[l] = <<[price |-> st[l].price, qty |-> n]>>
      BY <2>2, <2>5 DEF Rests
    <3>2. resting[l] # <<>> /\ Head(resting[l]).price = st[l].price /\ Tail(resting[l]) = <<>>
      BY <3>1
    <3>3. Found(l) /\ resting'[l] = <<>>
      BY <1>2, <2>1, <3>2 DEF Found
    <3>4. FilledBy(results'[l]) < st[l].qty
      BY <1>6, <2>2, <2>5
    <3>5. Cancelled(l)'
      BY <1>2, <2>1, <2>3, <3>3, <3>4 DEF Cancelled, Cancelling
    <3>6. QED
      BY <1>7, <3>5 DEF IInv, Phase
  <2>6. QED
    BY <2>4, <2>5
<1>10. QED
  BY <1>8, <1>9

(***************************************************************************)
(* The next order is a new one only of a side that sent it.                *)
(***************************************************************************)
LEMMA NextIsNew ==
    ASSUME NEW l, IInv(l), orders[l] # <<>>, Head(orders[l]).qty > 0
    PROVE  /\ Sent(l) /\ StaleReject(results[l]) /\ Tail(orders[l]) = <<>>
           /\ Head(orders[l]).price = st[l].price /\ Head(orders[l]).qty = st[l].qty
<1>1. st[l] \in SideRec /\ st[l].price \in Nat /\ st[l].qty \in Nat
  BY DEF IInv, Typed, SideRec
<1> DEFINE new == Order(side[l], st[l].price, st[l].qty)
           cancel == Order(side[l], st[l].price, 0)
<1>2. /\ new \in OrderRec(l) /\ new.qty = st[l].qty /\ new.price = st[l].price
      /\ cancel \in OrderRec(l) /\ cancel.qty = 0
  BY <1>1 DEF Order, OrderRec
<1>3. \A p \in Nat : Order(side[l], p, 0) \in OrderRec(l) /\ Order(side[l], p, 0).qty = 0
  BY DEF Order, OrderRec
<1> HIDE DEF new, cancel
<1>4. ~Idle(l)
  <2> SUFFICES ASSUME Idle(l)
               PROVE  FALSE
    OBVIOUS
  <2>1. PICK p \in Nat : orders[l] = <<Order(side[l], p, 0)>>
    BY DEF Idle
  <2>2. Head(orders[l]) = Order(side[l], p, 0)
    BY <1>3, <2>1, FirstOrder
  <2>3. QED
    BY <1>3, <2>2
<1>5. ~Cancelling(l)
  <2> SUFFICES ASSUME Cancelling(l)
               PROVE  FALSE
    OBVIOUS
  <2>1. Head(orders[l]) = cancel
    BY <1>2, FirstOrder DEF Cancelling, cancel
  <2>2. QED
    BY <1>2, <2>1
<1>6. Sent(l)
  BY <1>4, <1>5 DEF IInv, Phase, Traded, Accepted, Resting, Cancelled, Missed
<1>7. orders[l] = <<new>> /\ StaleReject(results[l])
  <2>1. ASSUME NEW p \in Nat
        PROVE  orders[l] # <<Order(side[l], p, 0), new>>
    <3> SUFFICES ASSUME orders[l] = <<Order(side[l], p, 0), new>>
                 PROVE  FALSE
      OBVIOUS
    <3>1. Head(orders[l]) = Order(side[l], p, 0)
      BY <1>2, <1>3, FirstOrder
    <3>2. QED
      BY <1>3, <3>1
  <2>2. QED
    BY <1>6, <2>1 DEF Sent, new
<1>8. Head(orders[l]) = new /\ Tail(orders[l]) = <<>>
  BY <1>2, <1>7, FirstOrder
<1>9. QED
  BY <1>2, <1>6, <1>7, <1>8

(***************************************************************************)
(* The reports of the fills of one order.                                  *)
(***************************************************************************)
LEMMA Reports ==
    ASSUME NEW q \in Nat, NEW fills \in BoundedSeq(1..q, q),
           NEW reports, reports = [i \in DOMAIN fills |-> ResultOf("kSuccess", fills[i])]
    PROVE  reports \in ResultSeq /\ AllFills(reports)
<1>1. PICK m \in 0..q : fills \in [1..m -> 1..q]
  BY DEF BoundedSeq, SeqOf
<1>2. reports = [i \in 1..m |-> ResultOf("kSuccess", fills[i])]
  BY <1>1
<1>3. ASSUME NEW i \in 1..m
      PROVE  /\ ResultOf("kSuccess", fills[i]) \in ResultRec
             /\ ResultOf("kSuccess", fills[i]).type = "kSuccess"
             /\ ResultOf("kSuccess", fills[i]).qty > 0
  <2>1. fills[i] \in Nat \ {0} /\ "kSuccess" \in ResultType
    BY <1>1 DEF ResultType
  <2>2. QED
    BY <2>1, ResultOfType
<1>4. \A i \in 1..m : /\ reports[i] \in ResultRec
                      /\ reports[i].type = "kSuccess" /\ reports[i].qty > 0
  BY <1>2, <1>3
<1>5. m \in Nat /\ reports \in [1..m -> ResultRec]
  BY <1>2, <1>3
<1>6. reports \in Seq(ResultRec) /\ Len(reports) = m
  BY <1>5
<1>7. QED
  BY <1>4, <1>6 DEF ResultSeq, AllFills

(***************************************************************************)
(* A new order that trades completely, or in part and rests.               *)
(***************************************************************************)
LEMMA ExecuteStep ==
    ASSUME NEW l, IInv(l), Execute(l)
    PROVE  IInv(l)'
<1>1. /\ st[l] \in SideRec /\ results[l] \in ResultSeq /\ st[l].qty \in Nat
      /\ results[l] \in Seq(ResultRec) /\ Len(results[l]) \in Nat
  BY DEF IInv, Typed, SideRec, ResultSeq
<1>2. /\ orders[l] # <<>> /\ Head(orders[l]).qty > 0 /\ orders'[l] = Tail(orders[l]) /\ st'[l] = st[l]
  BY DEF Execute
<1>3. /\ Sent(l) /\ StaleReject(results[l]) /\ Tail(orders[l]) = <<>>
      /\ Head(orders[l]).price = st[l].price /\ Head(orders[l]).qty = st[l].qty
  BY <1>2, NextIsNew
<1>4. PICK fills \in BoundedSeq(1..Head(orders[l]).qty, Head(orders[l]).qty) :
        LET reports == [i \in DOMAIN fills |-> ResultOf("kSuccess", fills[i])]
            left    == Head(orders[l]).qty - FilledBy(reports)
        IN  \/ /\ left = 0
               /\ results'[l] = results[l] \o reports
               /\ UNCHANGED resting[l]
            \/ /\ left > 0
               /\ results'[l] = results[l] \o Append(reports, ResultOf("kAccepted", left))
               /\ resting'[l] = Append(resting[l], [price |-> Head(orders[l]).price, qty |-> left])
  BY DEF Execute
<1> DEFINE reports == [i \in DOMAIN fills |-> ResultOf("kSuccess", fills[i])]
           left    == st[l].qty - FilledBy(reports)
           acc     == ResultOf("kAccepted", left)
<1>5. reports \in ResultSeq /\ AllFills(reports)
  BY <1>1, <1>3, <1>4, Reports
<1>6. \/ left = 0 /\ results'[l] = Cat(results[l], reports) /\ resting'[l] = resting[l]
      \/ /\ left > 0 /\ results'[l] = Cat(results[l], Append(reports, acc))
         /\ resting'[l] = Append(resting[l], [price |-> st[l].price, qty |-> left])
  BY <1>3, <1>4 DEF Cat
<1> HIDE DEF reports
<1>7. FilledBy(reports) \in Nat /\ reports \in Seq(ResultRec) /\ Len(reports) \in Nat
  BY <1>5, FilledByNat DEF ResultSeq
<1>8. FilledBy(results[l]) = 0 /\ st[l].state = "kWaitAccepted" /\ resting[l] = <<>> /\ st[l].qty > 0
  BY <1>1, <1>3, NoFill DEF Sent
<1>9. \A i \in 1..Len(results[l]) : i = 1 /\ results[l][i].type = "kReject"
  BY <1>1, <1>3 DEF StaleReject
<1>10. \A i \in 1..Len(reports) : reports[i].type = "kSuccess" /\ reports[i].qty > 0
  BY <1>5 DEF AllFills, ResultSeq
<1>11. orders'[l] = <<>> /\ orders'[l] \in Seq(OrderRec(l))
  <2>1. orders'[l] = <<>>
    BY <1>2, <1>3
  <2>2. QED
    BY <2>1
<1>12. CASE left = 0 /\ results'[l] = Cat(results[l], reports) /\ resting'[l] = resting[l]
  <2>1. /\ results'[l] \in Seq(ResultRec) /\ Len(results'[l]) = Len(results[l]) + Len(reports)
        /\ \A i \in 1..Len(results[l]) : results'[l][i] = results[l][i]
        /\ \A i \in 1..Len(reports) : results'[l][Len(results[l]) + i] = reports[i]
        /\ FilledBy(results'[l]) = FilledBy(results[l]) + FilledBy(reports)
    <3> DEFINE all == Cat(results[l], reports)
    <3>1. results[l] \in Seq(ResultRec) /\ reports \in Seq(ResultRec)
      BY <1>1, <1>7
    <3>2. /\ all \in Seq(ResultRec) /\ Len(all) = Len(results[l]) + Len(reports)
          /\ \A i \in 1..Len(results[l]) : all[i] = results[l][i]
          /\ \A i \in 1..Len(reports) : all[Len(results[l]) + i] = reports[i]
          /\ FilledBy(all) = FilledBy(results[l]) + FilledBy(reports)
      <4> HIDE DEF reports
      <4>1. QED
        BY <3>1, FilledConcat
    <3>3. results'[l] = all
      BY <1>12
    <3> HIDE DEF all, reports
    <3>4. QED
      BY <3>2, <3>3
  <2>2. FilledBy(results'[l]) = st[l].qty
    BY <1>1, <1>7, <1>8, <1>12, <2>1
  <2>3. ASSUME NEW i \in 1..Len(results'[l])
        PROVE  FillOrStale(results'[l], i) /\ (results'[l][i].type = "kSuccess" => results'[l][i].qty > 0)
    <3>1. CASE i \in 1..Len(results[l])
      BY <1>9, <2>1, <3>1 DEF FillOrStale
    <3>2. CASE i \notin 1..Len(results[l])
      <4>1. i - Len(results[l]) \in 1..Len(reports) /\ Len(results[l]) + (i - Len(results[l])) = i
        BY <1>1, <1>7, <2>1, <3>2
      <4>2. results'[l][i] = reports[i - Len(results[l])]
        BY <2>1, <4>1
      <4>3. QED
        BY <1>10, <4>1, <4>2 DEF FillOrStale
    <3>3. QED
      BY <3>1, <3>2
  <2>4. Typed(l)'
    BY <1>1, <1>2, <1>11, <2>1, <2>3 DEF Typed, ResultSeq
  <2>5. Traded(l)'
    BY <1>2, <1>8, <1>11, <1>12, <2>2, <2>3 DEF Traded
  <2>6. QED
    BY <2>4, <2>5 DEF IInv, Phase
<1>13. CASE /\ left > 0 /\ results'[l] = Cat(results[l], Append(reports, acc))
            /\ resting'[l] = Append(resting[l], [price |-> st[l].price, qty |-> left])
  <2>1. left \in Nat /\ "kAccepted" \in ResultType
    BY <1>1, <1>7, <1>13 DEF ResultType
  <2>left. PICK n \in Nat : n = left
    BY <2>1
  <2> HIDE DEF left
  <2>2. acc \in ResultRec /\ acc.type = "kAccepted" /\ FillOf(acc) = 0
    BY <2>1, ResultOfType
  <2> DEFINE more == Append(reports, acc)
  <2>last. PICK k \in Nat : k = Len(results[l]) + Len(reports) + 1
    BY <1>1, <1>7
  <2> HIDE DEF acc
  <2>3. /\ more \in ResultSeq /\ Len(more) = Len(reports) + 1
        /\ \A i \in 1..Len(reports) : more[i] = reports[i]
        /\ more[Len(reports) + 1] = acc
        /\ FilledBy(more) = FilledBy(reports) + FillOf(acc)
    BY <1>5, <2>2, OneMoreResult
  <2> HIDE DEF more
  <2>4. more \in Seq(ResultRec) /\ results'[l] = Cat(results[l], more)
    BY <1>13, <2>3 DEF ResultSeq, more
  <2>5. /\ results'[l] \in Seq(ResultRec) /\ Len(results'[l]) = Len(results[l]) + Len(more)
        /\ \A i \in 1..Len(results[l]) : results'[l][i] = results[l][i]
        /\ \A i \in 1..Len(more) : results'[l][Len(results[l]) + i] = more[i]
        /\ FilledBy(results'[l]) = FilledBy(results[l]) + FilledBy(more)
    <3> DEFINE all == Cat(results[l], more)
    <3>1. results[l] \in Seq(ResultRec)
      BY <1>1
    <3>2. /\ all \in Seq(ResultRec) /\ Len(all) = Len(results[l]) + Len(more)
          /\ \A i \in 1..Len(results[l]) : all[i] = results[l][i]
          /\ \A i \in 1..Len(more) : all[Len(results[l]) + i] = more[i]
          /\ FilledBy(all) = FilledBy(results[l]) + FilledBy(more)
      BY <2>4, <3>1, FilledConcat
    <3>3. results'[l] = all
      BY <2>4
    <3> HIDE DEF all
    <3>4. QED
      BY <3>2, <3>3
  <2>6. Len(results'[l]) = k /\ k \in 1..Len(results'[l]) /\ results'[l][k] = acc
    <3>1. Len(results[l]) \in Nat /\ Len(reports) \in Nat
      BY <1>1, <1>7
    <3>2. PICK a \in Nat, b \in Nat : a = Len(results[l]) /\ b = Len(reports)
      BY <3>1
    <3>3. b + 1 \in 1..(b + 1) /\ a + (b + 1) = k /\ k \in 1..k
      <4>1. k = a + b + 1
        BY <2>last, <3>2, Zenon
      <4>2. QED
        BY <4>1
    <3>4. results'[l][a + (b + 1)] = more[b + 1]
      BY <2>3, <2>5, <3>2, <3>3
    <3>5. QED
      BY <2>3, <2>5, <3>2, <3>3, <3>4
  <2>7. FilledBy(results'[l]) = FilledBy(reports)
    BY <1>7, <1>8, <2>2, <2>3, <2>5
  <2>8. Filled(results'[l], k) < st[l].qty /\ FilledBy(results'[l]) + n = st[l].qty
    <3>1. FilledBy(results'[l]) = Filled(results'[l], k)
      BY <2>6 DEF FilledBy
    <3>2. QED
      BY <1>1, <1>7, <1>13, <2>7, <2>left, <3>1 DEF left
  <2>9. ASSUME NEW i \in 1..Len(results'[l])
        PROVE  /\ i # k => FillOrStale(results'[l], i)
               /\ results'[l][i].type = "kSuccess" => results'[l][i].qty > 0
    <3>1. CASE i \in 1..Len(results[l])
      BY <1>9, <2>5, <3>1 DEF FillOrStale
    <3>2. CASE i = k
      BY <2>2, <2>6, <3>2
    <3>3. CASE i \notin 1..Len(results[l]) /\ i # k
      <4>1. /\ i - Len(results[l]) \in 1..Len(reports) /\ i - Len(results[l]) \in 1..Len(more)
            /\ Len(results[l]) + (i - Len(results[l])) = i
        <5>1. \A a \in Nat, b \in Nat : \A j \in 1..(a + (b + 1)) :
                j \notin 1..a /\ j # a + b + 1 =>
                  j - a \in 1..b /\ j - a \in 1..(b + 1) /\ a + (j - a) = j
          OBVIOUS
        <5>2. PICK a \in Nat, b \in Nat : a = Len(results[l]) /\ b = Len(reports)
          BY <1>1, <1>7
        <5>3. Len(results'[l]) = a + (b + 1) /\ Len(more) = b + 1 /\ k = a + b + 1
          BY <2>3, <2>5, <2>last, <5>2, Zenon
        <5>4. PICK j : j = i
          OBVIOUS
        <5>5. j \in 1..(a + (b + 1)) /\ j \notin 1..a /\ j # a + b + 1
          BY <3>3, <5>2, <5>3, <5>4, Zenon
        <5>6. j - a \in 1..b /\ j - a \in 1..(b + 1) /\ a + (j - a) = j
          BY <5>1, <5>5, Zenon
        <5>7. QED
          BY <5>2, <5>3, <5>4, <5>6, Zenon
      <4>2. results'[l][i] = reports[i - Len(results[l])]
        BY <2>3, <2>5, <4>1
      <4>3. QED
        BY <1>10, <4>1, <4>2 DEF FillOrStale
    <3>4. QED
      BY <3>1, <3>2, <3>3
  <2>10. Typed(l)'
    BY <1>1, <1>2, <1>11, <2>5, <2>9 DEF Typed, ResultSeq
  <2>11. Rests(l, n)'
    <3>1. resting'[l] = <<[price |-> st[l].price, qty |-> n]>> /\ n # 0
      BY <1>8, <1>13, <2>left DEF left
    <3>2. QED
      BY <1>2, <3>1 DEF Rests
  <2>12. AllCounted(l)'
    BY <1>2, <2>8, <2>11 DEF AllCounted
  <2>13. AcceptedAt(l, k)'
    BY <1>2, <2>2, <2>6, <2>8, <2>9 DEF AcceptedAt
  <2>14. Accepted(l)'
    BY <1>2, <1>8, <1>11, <2>6, <2>12, <2>13 DEF Accepted
  <2>15. QED
    BY <2>10, <2>14 DEF IInv, Phase
<1>14. QED
  BY <1>6, <1>12, <1>13

(***************************************************************************)
(* Trading takes its quantity from the order that rests.                   *)
(***************************************************************************)
LEMMA TakeFromFirst ==
    ASSUME NEW p \in Nat, NEW m \in Nat, NEW n \in Nat,
           NEW b, b = <<[price |-> p, qty |-> m]>>
    PROVE  [b EXCEPT ![1].qty = @ - n] = <<[price |-> p, qty |-> m - n]>>
OBVIOUS

(***************************************************************************)
(* One more fill at the end disturbs no result before it.                  *)
(***************************************************************************)
LEMMA FillStep ==
    ASSUME NEW l, IInv(l), NEW n, Fill(l, n)
    PROVE  IInv(l)'
<1> DEFINE x == ResultOf("kSuccess", n)
<1>1. /\ st[l] \in SideRec /\ results[l] \in ResultSeq /\ st[l].qty \in Nat /\ st[l].price \in Nat
      /\ orders[l] \in Seq(OrderRec(l))
  BY DEF IInv, Typed, SideRec
<1>2. /\ n \in 1..RestingQty(l) /\ results'[l] = Append(results[l], x) /\ st'[l] = st[l] /\ orders'[l] = orders[l]
      /\ resting'[l] = IF n = RestingQty(l) THEN Tail(resting[l]) ELSE [resting[l] EXCEPT ![1].qty = @ - n]
  BY DEF Fill
<1>3. resting[l] # <<>>
  BY <1>2 DEF RestingQty
<1>4. (Accepted(l) \/ Resting(l) \/ Cancelling(l)) /\ AllCounted(l)
  BY <1>3 DEF IInv, Phase, Idle, Sent, Traded, Accepted, Resting, Cancelling, Cancelled, Missed
<1>5. PICK m \in Nat : Rests(l, m) /\ FilledBy(results[l]) + m = st[l].qty
  BY <1>4 DEF AllCounted
<1>6. m # 0 /\ resting[l] = <<[price |-> st[l].price, qty |-> m]>>
  BY <1>3, <1>5 DEF Rests
<1>7. RestingQty(l) = m
  BY <1>3, <1>6 DEF RestingQty
<1>8. n \in Nat \ {0} /\ n <= m /\ m - n \in Nat
  BY <1>2, <1>7
<1>9. x \in ResultRec /\ x.type = "kSuccess" /\ FillOf(x) = n /\ x.qty = n
  <2>1. "kSuccess" \in ResultType /\ n \in Nat
    BY <1>8 DEF ResultType
  <2>2. QED
    BY <2>1, ResultOfType
<1> HIDE DEF x
<1>10. /\ results'[l] \in ResultSeq /\ Len(results[l]) \in Nat /\ Len(results'[l]) = Len(results[l]) + 1
       /\ \A i \in 1..Len(results[l]) : results'[l][i] = results[l][i]
       /\ results'[l][Len(results[l]) + 1] = x
       /\ \A k \in 0..Len(results[l]) : Filled(results'[l], k) = Filled(results[l], k)
       /\ FilledBy(results'[l]) = FilledBy(results[l]) + FillOf(x)
  BY <1>1, <1>2, <1>8, <1>9, OneMoreResult
<1>11. resting'[l] = IF m - n = 0 THEN <<>> ELSE <<[price |-> st[l].price, qty |-> m - n]>>
  <2>1. CASE n = m
    <3>1. Tail(resting[l]) = <<>>
      BY <1>6
    <3>2. n = RestingQty(l) /\ m - n = 0
      BY <1>7, <1>8, <2>1
    <3>3. resting'[l] = <<>>
      BY <1>2, <3>1, <3>2
    <3>4. QED
      BY <3>2, <3>3
  <2>2. CASE n # m
    <3>1. [resting[l] EXCEPT ![1].qty = @ - n] = <<[price |-> st[l].price, qty |-> m - n]>>
      BY <1>1, <1>6, <1>8, TakeFromFirst
    <3>2. resting'[l] = <<[price |-> st[l].price, qty |-> m - n]>>
      BY <1>2, <1>7, <2>2, <3>1
    <3>3. m - n # 0
      BY <1>8, <2>2
    <3>4. QED
      BY <3>2, <3>3
  <2>3. QED
    BY <2>1, <2>2
<1>12. AllCounted(l)'
  <2>1. PICK left \in Nat : left = m - n
    BY <1>8
  <2>2. FilledBy(results[l]) \in Nat
    BY <1>1, FilledByNat
  <2>3. FilledBy(results'[l]) + left = st'[l].qty
    BY <1>2, <1>5, <1>8, <1>9, <1>10, <2>1, <2>2
  <2>4. Rests(l, left)'
    BY <1>2, <1>11, <2>1 DEF Rests
  <2>5. QED
    BY <2>3, <2>4 DEF AllCounted
<1>13. \A i \in 1..Len(results'[l]) : i \in 1..Len(results[l]) \/ results'[l][i].type = "kSuccess"
  <2>1. ASSUME NEW i \in 1..Len(results'[l])
        PROVE  i \in 1..Len(results[l]) \/ i = Len(results[l]) + 1
    BY <1>10
  <2>2. QED
    BY <1>9, <1>10, <2>1
<1>14. Typed(l)'
  BY <1>1, <1>2, <1>10 DEF Typed
<1>15. CASE Accepted(l)
  <2>1. PICK k \in 1..Len(results[l]) : AcceptedAt(l, k)
    BY <1>15 DEF Accepted
  <2>2. k \in 1..Len(results'[l]) /\ k \in 0..Len(results[l])
    BY <1>10
  <2>3. \A i \in 1..Len(results'[l]) : i # k => FillOrStale(results'[l], i)
    BY <1>10, <1>13, <2>1 DEF AcceptedAt, FillOrStale
  <2>4. AcceptedAt(l, k)'
    BY <1>2, <1>10, <2>1, <2>2, <2>3 DEF AcceptedAt
  <2>5. QED
    BY <1>2, <1>12, <1>14, <1>15, <2>2, <2>4 DEF Accepted, IInv, Phase
<1>16. CASE Resting(l) \/ Cancelling(l)
  <2>1. AllFills(results'[l])
    BY <1>10, <1>13, <1>16 DEF Resting, Cancelling, AllFills
  <2>2. QED
    BY <1>2, <1>12, <1>14, <1>16, <2>1 DEF Resting, Cancelling, IInv, Phase
<1>17. QED
  BY <1>4, <1>15, <1>16

-----------------------------------------------------------------------------
(***************************************************************************)
(* A side starts, and restarts, idle.                                      *)
(***************************************************************************)
LEMMA Start ==
    ASSUME NEW l, LineInit(l)
    PROVE  IInv(l)
<1>1. NoOrder \in SideRec /\ NoOrder.state = "kIdle"
  BY DEF NoOrder, SideRec, OeState
<1>2. orders[l] \in Seq(OrderRec(l))
  BY DEF LineInit
<1>3. QED
  BY <1>1, <1>2, EmptyIsStale DEF LineInit, IInv, Typed, Phase, Idle

(***************************************************************************)
(* Every step of a line keeps it in one of the phases.                     *)
(***************************************************************************)
LEMMA PhaseStep ==
    ASSUME NEW l, IInv(l), LineStep(l) \/ LineStays(l)
    PROVE  IInv(l)'
<1>1. CASE \E qty \in Quantities[l] : ReadResult(l, qty)
  BY <1>1, ReadResultStep
<1>2. CASE \E qty \in Quantities[l] : \E desired \in Targets : Target(l, desired, qty)
  BY <1>2, TargetStep
<1>3. CASE Cancel(l)
  BY <1>3, CancelStep
<1>4. CASE Execute(l)
  BY <1>4, ExecuteStep
<1>5. CASE Disconnect(l)
  BY <1>5, DisconnectStep
<1>6. CASE \E n \in 1..RestingQty(l) : Fill(l, n)
  BY <1>6, FillStep
<1>7. CASE LineStays(l)
  <2>1. Typed(l)' /\ Phase(l)'
    BY <1>7, PhaseFrame DEF LineStays, IInv, Typed
  <2>2. QED
    BY <2>1 DEF IInv
<1>8. QED
  BY <1>1, <1>2, <1>3, <1>4, <1>5, <1>6, <1>7 DEF LineStep

(***************************************************************************)
(* Every side of every process is in one of the phases.                    *)
(***************************************************************************)
THEOREM Inductive == Spec => [](\A l \in Lines : IInv(l))
<1> DEFINE All == \A l \in Lines : IInv(l)
<1>1. Init => All
  BY Start DEF Init
<1>2. All /\ [Next]_vars => All'
  <2> SUFFICES ASSUME All, [Next]_vars, NEW l \in Lines
               PROVE  IInv(l)'
    OBVIOUS
  <2>1. LineStep(l) \/ LineStays(l)
    BY DEF Next, vars, LineStays
  <2>2. QED
    BY <2>1, PhaseStep
<1>3. QED
  BY <1>1, <1>2, PTL DEF Spec

(***************************************************************************)
(* The book of the side and the orders under way, in every phase.          *)
(***************************************************************************)
LEMMA BookAndOrders ==
    ASSUME NEW l, IInv(l)
    PROVE  /\ resting[l] = <<>> \/ \E n \in Nat : resting[l] = <<[price |-> st[l].price, qty |-> n]>>
           /\ \/ orders[l] = <<>>
              \/ \E p \in Nat : orders[l] = <<Order(side[l], p, 0)>>
              \/ resting[l] = <<>> /\ orders[l] = <<Order(side[l], st[l].price, st[l].qty)>>
              \/ /\ resting[l] = <<>>
                 /\ \E p \in Nat : orders[l] = <<Order(side[l], p, 0), Order(side[l], st[l].price, st[l].qty)>>
<1>1. st[l].price \in Nat
  BY DEF IInv, Typed, SideRec
<1>2. AllCounted(l) => resting[l] = <<>> \/ \E n \in Nat : resting[l] = <<[price |-> st[l].price, qty |-> n]>>
  BY DEF AllCounted, Rests
<1>3. CASE Idle(l)
  BY <1>3 DEF Idle
<1>4. CASE Sent(l)
  BY <1>4 DEF Sent
<1>5. CASE Accepted(l) \/ Resting(l) \/ Cancelling(l)
  BY <1>1, <1>2, <1>5 DEF Accepted, Resting, Cancelling
<1>6. CASE Traded(l) \/ Cancelled(l) \/ Missed(l)
  BY <1>6 DEF Traded, Cancelled, Missed
<1>7. QED
  BY <1>3, <1>4, <1>5, <1>6 DEF IInv, Phase

\* The phases say so.
LEMMA PhasesGiveOneOrder ==
    ASSUME NEW l
    PROVE  IInv(l) => OneOrder(l)
<1> SUFFICES ASSUME IInv(l)
             PROVE  OneOrder(l)
  OBVIOUS
<1>1. \A p \in Nat : Order(side[l], p, 0).qty = 0
  BY DEF Order
<1>2. /\ Len(resting[l]) <= 1
      /\ resting[l] # <<>> => Head(resting[l]).price = st[l].price
  <2>1. CASE resting[l] = <<>>
    <3>1. Len(resting[l]) = 0
      BY <2>1
    <3>2. QED
      BY <2>1, <3>1
  <2>2. CASE \E n \in Nat : resting[l] = <<[price |-> st[l].price, qty |-> n]>>
    <3>1. PICK n \in Nat : resting[l] = <<[price |-> st[l].price, qty |-> n]>>
      BY <2>2
    <3>2. Len(resting[l]) = 1 /\ Head(resting[l]).price = st[l].price
      BY <3>1
    <3>3. QED
      BY <3>2
  <2>3. QED
    BY <2>1, <2>2, BookAndOrders
<1>3. CASE orders[l] = <<>>
  <2>1. Len(orders[l]) = 0
    BY <1>3
  <2>2. QED
    BY <1>2, <2>1 DEF OneOrder
<1>4. CASE \E p \in Nat : orders[l] = <<Order(side[l], p, 0)>>
  <2>1. PICK p \in Nat : orders[l] = <<Order(side[l], p, 0)>>
    BY <1>4
  <2>2. Len(orders[l]) = 1 /\ orders[l][1].qty = 0
    BY <1>1, <2>1
  <2>3. QED
    BY <1>2, <2>2 DEF OneOrder
<1>5. CASE resting[l] = <<>> /\ orders[l] = <<Order(side[l], st[l].price, st[l].qty)>>
  <2>1. Len(orders[l]) = 1
    BY <1>5
  <2>2. QED
    BY <1>2, <1>5, <2>1 DEF OneOrder
<1>6. CASE /\ resting[l] = <<>>
           /\ \E p \in Nat : orders[l] = <<Order(side[l], p, 0), Order(side[l], st[l].price, st[l].qty)>>
  <2>1. PICK p \in Nat : orders[l] = <<Order(side[l], p, 0), Order(side[l], st[l].price, st[l].qty)>>
    BY <1>6
  <2>2. Len(orders[l]) = 2 /\ orders[l][1].qty = 0
    BY <1>1, <2>1
  <2>3. QED
    BY <1>2, <1>6, <2>2 DEF OneOrder
<1>7. QED
  BY <1>3, <1>4, <1>5, <1>6, BookAndOrders

(***************************************************************************)
(* At most one order of the side is in the system.                         *)
(***************************************************************************)
THEOREM OneOrderInSystem == Spec => [](\A l \in Lines : OneOrder(l))
<1>1. (\A l \in Lines : IInv(l)) => \A l \in Lines : OneOrder(l)
  BY PhasesGiveOneOrder
<1>2. QED
  BY <1>1, Inductive, PTL

(***************************************************************************)
(* An order was sent, or an answer comes, in these phases only.            *)
(***************************************************************************)
LEMMA NothingSent ==
    ASSUME NEW l, IInv(l), ~Sent(l)
    PROVE  \A i \in 1..Len(orders[l]) : ~(orders[l][i].qty > 0)
<1>1. \A p \in Nat : Order(side[l], p, 0).qty = 0
  BY DEF Order
<1>2. CASE orders[l] = <<>>
  BY <1>2
<1>3. CASE \E p \in Nat : orders[l] = <<Order(side[l], p, 0)>>
  <2>1. PICK p \in Nat : orders[l] = <<Order(side[l], p, 0)>>
    BY <1>3
  <2>2. Len(orders[l]) = 1 /\ orders[l][1].qty = 0
    BY <1>1, <2>1
  <2>3. QED
    BY <2>2
<1>4. st[l].price \in Nat
  BY DEF IInv, Typed, SideRec
<1>5. orders[l] = <<>> \/ \E p \in Nat : orders[l] = <<Order(side[l], p, 0)>>
  BY <1>4 DEF IInv, Phase, Idle, Traded, Accepted, Resting, Cancelling, Cancelled, Missed
<1>6. QED
  BY <1>2, <1>3, <1>5

\* A new order under way is the last one and has the quantity the side counts.
LEMMA NewOrderSent ==
    ASSUME NEW l, IInv(l), Sent(l)
    PROVE  \E i \in 1..Len(orders[l]) : orders[l][i].qty > 0 /\ orders[l][Len(orders[l])].qty = st[l].qty
<1> DEFINE new == Order(side[l], st[l].price, st[l].qty)
<1>1. new.qty = st[l].qty /\ st[l].qty > 0
  BY DEF Sent, Order
<1>2. orders[l] = <<new>> \/ \E p \in Nat : orders[l] = <<Order(side[l], p, 0), new>>
  BY DEF Sent
<1> HIDE DEF new
<1>3. CASE orders[l] = <<new>>
  <2>1. Len(orders[l]) = 1 /\ orders[l][1] = new
    BY <1>3
  <2>2. QED
    BY <1>1, <2>1
<1>4. CASE \E p \in Nat : orders[l] = <<Order(side[l], p, 0), new>>
  <2>1. PICK p \in Nat : orders[l] = <<Order(side[l], p, 0), new>>
    BY <1>4
  <2>2. Len(orders[l]) = 2 /\ orders[l][2] = new
    BY <2>1
  <2>3. QED
    BY <1>1, <2>2
<1>5. QED
  BY <1>2, <1>3, <1>4

\* kCancelled comes in one phase only.
LEMMA NoCancelConfirmed ==
    ASSUME NEW l, IInv(l), ~Cancelled(l), NEW i \in 1..Len(results[l])
    PROVE  results[l][i].type # "kCancelled"
<1>1. results[l] \in Seq(ResultRec) /\ Len(results[l]) \in Nat
  BY DEF IInv, Typed, ResultSeq
<1>2. CASE Idle(l) \/ Sent(l)
  <2>1. results[l] = <<>> \/ StaleReject(results[l])
    BY <1>2 DEF Idle, Sent
  <2>2. QED
    BY <2>1 DEF StaleReject
<1>3. CASE Traded(l)
  BY <1>3 DEF Traded, FillOrStale
<1>4. CASE Accepted(l)
  BY <1>4 DEF Accepted, AcceptedAt, FillOrStale
<1>5. CASE Resting(l) \/ Cancelling(l)
  BY <1>5 DEF Resting, Cancelling, AllFills
<1>6. CASE Missed(l)
  <2>1. i = Len(results[l]) \/ i \in 1..(Len(results[l]) - 1)
    BY <1>1
  <2>2. QED
    BY <1>6, <2>1 DEF Missed, EndsWith
<1>7. QED
  BY <1>2, <1>3, <1>4, <1>5, <1>6 DEF IInv, Phase

(***************************************************************************)
(* What rests, by the count of what is left.                               *)
(***************************************************************************)
LEMMA Counted ==
    ASSUME NEW l, AllCounted(l)
    PROVE  FilledBy(results[l]) + RestingQty(l) = st[l].qty
<1>1. PICK n \in Nat : Rests(l, n) /\ FilledBy(results[l]) + n = st[l].qty
  BY DEF AllCounted
<1>2. CASE n = 0
  BY <1>1, <1>2 DEF Rests, RestingQty
<1>3. CASE n # 0
  <2>1. resting[l] = <<[price |-> st[l].price, qty |-> n]>>
    BY <1>1, <1>3 DEF Rests
  <2>2. resting[l] # <<>> /\ Head(resting[l]).qty = n
    BY <2>1
  <2>3. QED
    BY <1>1, <2>2 DEF RestingQty
<1>4. QED
  BY <1>2, <1>3

\* The phases say so.
LEMMA PhasesGiveExact ==
    ASSUME NEW l
    PROVE  IInv(l) => Exact(l)
<1> SUFFICES ASSUME IInv(l)
             PROVE  Exact(l)
  OBVIOUS
<1> DEFINE sent == \E i \in 1..Len(orders[l]) : orders[l][i].qty > 0
           comes(type) == \E i \in 1..Len(results[l]) : results[l][i].type = type
<1>1. st[l].qty \in Nat /\ results[l] \in ResultSeq /\ FilledBy(results[l]) \in Nat
  BY FilledByNat DEF IInv, Typed, SideRec
<1>2. CASE Idle(l)
  <2>1. ~sent
    BY <1>2, NothingSent DEF Idle, Sent
  <2>2. StaleReject(results[l])
    BY <1>2, EmptyIsStale DEF Idle
  <2>3. FilledBy(results[l]) = 0 /\ ~comes("kAccepted") /\ ~comes("kCancelled")
    BY <1>1, <2>2, NoFill DEF StaleReject
  <2>4. QED
    BY <1>2, <2>1, <2>3 DEF Exact, Idle
<1>3. CASE Sent(l)
  <2>1. sent /\ orders[l][Len(orders[l])].qty = st[l].qty
    BY <1>3, NewOrderSent
  <2>2. StaleReject(results[l])
    BY <1>3, EmptyIsStale DEF Sent
  <2>3. FilledBy(results[l]) = 0 /\ st[l].state # "kIdle"
    BY <1>1, <1>3, <2>2, NoFill DEF Sent
  <2>4. ~comes("kCancelled")
    BY <2>2 DEF StaleReject
  <2>5. QED
    BY <2>1, <2>3, <2>4 DEF Exact
<1>4. CASE Cancelled(l)
  <2>1. ~sent
    BY <1>4, NothingSent DEF Cancelled, Sent
  <2>2. comes("kCancelled")
    <3>1. results[l] # <<>> /\ results[l][Len(results[l])].type = "kCancelled"
      BY <1>4 DEF Cancelled, EndsWith
    <3>2. Len(results[l]) \in 1..Len(results[l])
      BY <1>1, <3>1, EmptySeq DEF ResultSeq
    <3>3. QED
      BY <3>1, <3>2
  <2>3. QED
    BY <1>4, <2>1, <2>2 DEF Exact, Cancelled
<1>5. CASE Traded(l) \/ Accepted(l) \/ Resting(l) \/ Cancelling(l) \/ Missed(l)
  <2>1. ~Sent(l) /\ ~Cancelled(l)
    <3>1. ~Sent(l)
      <4>1. Sent(l) => orders[l] # <<>> /\ st[l].state = "kWaitAccepted"
        BY NewOrderSent DEF Sent
      <4>2. QED
        BY <1>5, <4>1 DEF Traded, Accepted, Resting, Cancelling, Missed
    <3>2. Cancelling(l) => orders[l] # <<>>
      BY DEF Cancelling
    <3>3. Missed(l) => results[l][Len(results[l])].type # "kCancelled"
      BY DEF Missed, EndsWith
    <3>4. ~Cancelled(l)
      BY <1>5, <3>2, <3>3 DEF Cancelled, EndsWith, Traded, Accepted, Resting
    <3>5. QED
      BY <3>1, <3>4
  <2>2. ~sent /\ ~comes("kCancelled") /\ st[l].state # "kIdle"
    BY <1>5, <2>1, NothingSent, NoCancelConfirmed
       DEF Traded, Accepted, Resting, Cancelling, Missed
  <2>3. st[l].qty > 0 /\ FilledBy(results[l]) + RestingQty(l) = st[l].qty
    <3>1. CASE Traded(l) \/ Missed(l)
      BY <1>1, <3>1 DEF Traded, Missed, RestingQty
    <3>2. CASE Resting(l) \/ Cancelling(l)
      BY <3>2, Counted DEF Resting, Cancelling
    <3>3. CASE Accepted(l)
      <4>1. PICK k \in 1..Len(results[l]) : AcceptedAt(l, k)
        BY <3>3 DEF Accepted
      <4>2. Filled(results[l], k) < st[l].qty /\ Filled(results[l], k) \in Nat
        BY <1>1, <4>1, FilledNat DEF AcceptedAt, ResultSeq
      <4>3. QED
        BY <1>1, <3>3, <4>2, Counted DEF Accepted
    <3>4. QED
      BY <1>5, <3>1, <3>2, <3>3
  <2>4. QED
    BY <2>2, <2>3 DEF Exact
<1>6. QED
  BY <1>2, <1>3, <1>4, <1>5 DEF IInv, Phase

(***************************************************************************)
(* The count of a side is exact up to what is on its way.                  *)
(***************************************************************************)
THEOREM CountIsExact == Spec => [](\A l \in Lines : Exact(l))
<1>1. (\A l \in Lines : IInv(l)) => \A l \in Lines : Exact(l)
  BY PhasesGiveExact
<1>2. QED
  BY <1>1, Inductive, PTL

(***************************************************************************)
(* Each fill is of a lot at least.                                         *)
(***************************************************************************)
LEMMA FillsCount ==
    ASSUME NEW rs \in ResultSeq, NEW m \in 0..Len(rs), NEW n \in m..Len(rs),
           \A i \in (m + 1)..n : rs[i].type = "kSuccess"
    PROVE  Filled(rs, n) >= Filled(rs, m) + (n - m)
<1> DEFINE Bad == {i \in m..n : ~(Filled(rs, i) >= Filled(rs, m) + (i - m))}
<1> SUFFICES ASSUME Bad # {}
             PROVE  FALSE
  OBVIOUS
<1>1. /\ rs \in Seq(ResultRec) /\ Len(rs) \in Nat /\ m \in Nat /\ n \in Nat
      /\ \A i \in 1..Len(rs) : rs[i].type = "kSuccess" => rs[i].qty > 0
  BY DEF ResultSeq
<1>2. Filled(rs, m) \in Nat
  BY <1>1, FilledNat
<1>3. PICK k \in Bad : \A j \in Bad : k <= j
  <2>1. Bad \subseteq Nat
    OBVIOUS
  <2> HIDE DEF Bad
  <2>2. QED
    BY <2>1, LeastNat
<1>4. k # m
  BY <1>1, <1>2
<1>5. k \in (m + 1)..n /\ k \in 1..Len(rs) /\ k - 1 \in m..n /\ k - 1 \in 0..Len(rs)
      /\ k - 1 \notin Bad
  BY <1>1, <1>3, <1>4
<1>6. Filled(rs, k) = Filled(rs, k - 1) + FillOf(rs[k]) /\ FillOf(rs[k]) \in Nat
      /\ Filled(rs, k - 1) \in Nat
  BY <1>1, <1>5, FilledStep, FillOfNat, FilledNat
<1>7. FillOf(rs[k]) > 0
  BY <1>1, <1>5 DEF FillOf
<1>8. Filled(rs, k - 1) >= Filled(rs, m) + ((k - 1) - m)
  BY <1>5
<1>9. Filled(rs, k) >= Filled(rs, m) + (k - m)
  BY <1>1, <1>2, <1>5, <1>6, <1>7, <1>8
<1>10. QED
  BY <1>9

\* The phases say so.
LEMMA PhasesGiveBacklog ==
    ASSUME NEW l
    PROVE  IInv(l) => Backlog(l)
<1> SUFFICES ASSUME IInv(l)
             PROVE  Backlog(l)
  OBVIOUS
<1> SUFFICES ASSUME results[l] # <<>>
             PROVE  Len(results[l]) <= st[l].qty + 2
  <2>1. st[l].qty \in Nat
    BY DEF IInv, Typed, SideRec
  <2>2. results[l] = <<>> => Len(results[l]) = 0
    OBVIOUS
  <2>3. QED
    BY <2>1, <2>2 DEF Backlog
<1> DEFINE n == Len(results[l])
<1>1. /\ st[l].qty \in Nat /\ results[l] \in ResultSeq /\ n \in Nat /\ n # 0
      /\ results[l] \in Seq(ResultRec)
  BY EmptySeq DEF IInv, Typed, SideRec, ResultSeq
<1>2. /\ Filled(results[l], 0) = 0 /\ Filled(results[l], 1) \in Nat /\ Filled(results[l], n - 1) \in Nat
      /\ FilledBy(results[l]) = Filled(results[l], n) /\ FilledBy(results[l]) \in Nat
      /\ Filled(results[l], n - 1) <= Filled(results[l], n)
  <2>1. 1 \in 0..n /\ n - 1 \in 0..n /\ n \in (n - 1)..n /\ n \in 0..n
    BY <1>1
  <2>2. QED
    BY <1>1, <2>1, FilledStep, FilledNat, FilledGrows DEF FilledBy
<1>3. AllCounted(l) => FilledBy(results[l]) <= st[l].qty
  BY <1>1, <1>2 DEF AllCounted
<1>4. CASE Idle(l) \/ Sent(l)
  <2>1. n <= 1
    BY <1>4, EmptyIsStale DEF Idle, Sent, StaleReject
  <2>2. QED
    BY <1>1, <2>1
<1>5. CASE Traded(l)
  <2>1. \A i \in (1 + 1)..n : results[l][i].type = "kSuccess"
    BY <1>1, <1>5 DEF Traded, FillOrStale
  <2>2. 1 \in 0..n /\ n \in 1..n
    BY <1>1
  <2>3. Filled(results[l], n) >= Filled(results[l], 1) + (n - 1)
    BY <1>1, <2>1, <2>2, FillsCount
  <2>4. QED
    BY <1>1, <1>2, <1>5, <2>3 DEF Traded
<1>6. CASE Accepted(l)
  <2>1. PICK k \in 1..n : AcceptedAt(l, k)
    BY <1>6 DEF Accepted
  <2>2. \A i \in 1..n : i # k => FillOrStale(results[l], i)
    BY <2>1 DEF AcceptedAt
  <2>3. k \in Nat /\ k \in 0..n /\ n \in k..n
    BY <1>1
  <2>4. Filled(results[l], k) \in Nat /\ Filled(results[l], n) >= Filled(results[l], k) + (n - k)
    <3>1. \A i \in (k + 1)..n : results[l][i].type = "kSuccess"
      <4>1. \A i \in (k + 1)..n : i \in 1..n /\ i # k /\ i # 1
        BY <1>1, <2>3
      <4>2. QED
        BY <2>2, <4>1 DEF FillOrStale
    <3>2. QED
      BY <1>1, <2>3, <3>1, FillsCount, FilledNat
  <2>5. Filled(results[l], k) >= k - 2
    <3>1. CASE k = 1
      BY <2>4, <3>1
    <3>2. CASE k # 1
      <4>1. k - 1 \in 1..n /\ 1 \in 0..n /\ k - 1 \in 0..n /\ k \in (k - 1)..n
        BY <1>1, <2>3, <3>2
      <4>2. \A i \in (1 + 1)..(k - 1) : results[l][i].type = "kSuccess"
        <5>1. \A i \in (1 + 1)..(k - 1) : i \in 1..n /\ i # k /\ i # 1
          BY <1>1, <2>3
        <5>2. QED
          BY <2>2, <5>1 DEF FillOrStale
      <4>3. Filled(results[l], k - 1) >= Filled(results[l], 1) + ((k - 1) - 1)
        BY <1>1, <4>1, <4>2, FillsCount
      <4>4. Filled(results[l], k - 1) <= Filled(results[l], k) /\ Filled(results[l], k - 1) \in Nat
        BY <1>1, <4>1, FilledGrows, FilledNat
      <4>5. QED
        BY <1>2, <2>3, <2>4, <4>3, <4>4
    <3>3. QED
      BY <3>1, <3>2
  <2>6. FilledBy(results[l]) <= st[l].qty
    BY <1>3, <1>6 DEF Accepted
  <2>7. PICK a \in Nat, b \in Nat, q \in Nat :
          a = Filled(results[l], k) /\ b = FilledBy(results[l]) /\ q = st[l].qty
    BY <1>1, <1>2, <2>4
  <2>8. b >= a + (n - k) /\ a >= k - 2 /\ b <= q
    BY <1>2, <2>4, <2>5, <2>6, <2>7, Zenon
  <2>9. n <= q + 2
    BY <1>1, <2>3, <2>8
  <2>10. QED
    BY <2>7, <2>9
<1>7. CASE Resting(l) \/ Cancelling(l)
  <2>1. \A i \in (0 + 1)..n : results[l][i].type = "kSuccess"
    BY <1>7 DEF Resting, Cancelling, AllFills
  <2>2. 0 \in 0..n /\ n \in 0..n
    BY <1>1
  <2>3. Filled(results[l], n) >= Filled(results[l], 0) + (n - 0)
    BY <1>1, <2>1, <2>2, FillsCount
  <2>4. FilledBy(results[l]) <= st[l].qty
    BY <1>3, <1>7 DEF Resting, Cancelling
  <2>5. QED
    BY <1>1, <1>2, <2>3, <2>4
<1>8. CASE Cancelled(l) \/ Missed(l)
  <2>1. \A i \in (0 + 1)..(n - 1) : results[l][i].type = "kSuccess"
    BY <1>8 DEF Cancelled, Missed, EndsWith
  <2>2. 0 \in 0..n /\ n - 1 \in 0..n
    BY <1>1
  <2>3. Filled(results[l], n - 1) >= Filled(results[l], 0) + ((n - 1) - 0)
    BY <1>1, <2>1, <2>2, FillsCount
  <2>4. FilledBy(results[l]) <= st[l].qty
    BY <1>1, <1>2, <1>8 DEF Cancelled, Missed
  <2>5. QED
    BY <1>1, <1>2, <2>3, <2>4
<1>9. QED
  BY <1>4, <1>5, <1>6, <1>7, <1>8 DEF IInv, Phase

(***************************************************************************)
(* What a process has not read never exceeds its order by more than two.   *)
(***************************************************************************)
THEOREM BacklogSmall == Spec => [](\A l \in Lines : Backlog(l))
<1>1. (\A l \in Lines : IInv(l)) => \A l \in Lines : Backlog(l)
  BY PhasesGiveBacklog
<1>2. QED
  BY <1>1, Inductive, PTL

=============================================================================
