------------------------ MODULE MatchingEngineProofs ------------------------
(***************************************************************************)
(* Machine-checked proofs about the loop-level matching engine, for every  *)
(* set of clients, prices, quantities and sequence numbers.                *)
(***************************************************************************)
EXTENDS MatchingEngine, SequenceLemmas

-----------------------------------------------------------------------------
(* The maps. *)

(***************************************************************************)
(* The largest int32_t is a natural number; nothing else about it is used. *)
(***************************************************************************)
LEMMA Int32MaxNat == INT32_MAX \in Nat \ {0}
BY SMT DEF INT32_MAX

(***************************************************************************)
(* begin() of a non-empty map exists: its keys are positive int32 values,  *)
(* so both std::less and std::greater have a first one.                    *)
(***************************************************************************)
LEMMA BeginExists ==
    ASSUME NEW side \in Side, NEW m,
           DOMAIN m \subseteq 1..INT32_MAX, DOMAIN m # {}
    PROVE  \E p \in DOMAIN m : IsBegin(side, m, p)
<1>1. CASE side = "kSell"
  <2>1. PICK p \in DOMAIN m : \A q \in DOMAIN m : p <= q
    BY LeastNat
  <2>2. QED
    BY <1>1, <2>1 DEF IsBegin, SortsBefore
<1>2. CASE side = "kBuy"
  <2> DEFINE T == {INT32_MAX - p : p \in DOMAIN m}
  <2>1. T \subseteq Nat /\ T # {}
    BY Int32MaxNat
  <2>2. PICK x \in T : \A y \in T : x <= y
    BY <2>1, LeastNat
  <2>3. PICK p \in DOMAIN m : x = INT32_MAX - p
    BY <2>2
  <2>4. \A q \in DOMAIN m : INT32_MAX - p <= INT32_MAX - q
    BY <2>2, <2>3
  <2>5. \A q \in DOMAIN m : q <= p
    BY <2>4, Int32MaxNat
  <2>6. QED
    BY <1>2, <2>5 DEF IsBegin, SortsBefore
<1>3. QED
  BY <1>1, <1>2 DEF Side

(***************************************************************************)
(* What assigning a FIFO to a level does to a map.                         *)
(***************************************************************************)
LEMMA SetLevelProps ==
    ASSUME NEW m, IsLevelMap(m), NEW p \in DOMAIN m, NEW f \in Seq(RestingOrder)
    PROVE  /\ IsLevelMap(SetLevel(m, p, f))
           /\ f = <<>> => DOMAIN SetLevel(m, p, f) = DOMAIN m \ {p}
           /\ f # <<>> => DOMAIN SetLevel(m, p, f) = DOMAIN m
           /\ \A q \in DOMAIN SetLevel(m, p, f) :
                q # p => q \in DOMAIN m /\ SetLevel(m, p, f)[q] = m[q]
           /\ \A q \in DOMAIN SetLevel(m, p, f) : q = p => SetLevel(m, p, f)[q] = f
<1>1. CASE f = <<>>
  BY <1>1 DEF SetLevel, IsLevelMap
<1>2. CASE f # <<>>
  BY <1>2 DEF SetLevel, IsLevelMap
<1>3. QED
  BY <1>1, <1>2

(***************************************************************************)
(* What push_back to the FIFO of a price does to a map.                    *)
(***************************************************************************)
LEMMA PushBackProps ==
    ASSUME NEW m, IsLevelMap(m), NEW p \in 1..INT32_MAX, NEW o \in RestingOrder
    PROVE  /\ IsLevelMap(PushBack(m, p, o))
           /\ DOMAIN PushBack(m, p, o) = DOMAIN m \cup {p}
           /\ \A q \in DOMAIN PushBack(m, p, o) :
                q # p => q \in DOMAIN m /\ PushBack(m, p, o)[q] = m[q]
           /\ \A q \in DOMAIN PushBack(m, p, o) :
                q = p => PushBack(m, p, o)[q] = Append(Fifo(m, p), o)
           /\ Fifo(m, p) \in Seq(RestingOrder)
<1>1. Fifo(m, p) \in Seq(RestingOrder)
  BY DEF Fifo, IsLevelMap
<1>2. Append(Fifo(m, p), o) \in Seq(RestingOrder)
  BY <1>1
<1>3. QED
  BY <1>1, <1>2 DEF PushBack, IsLevelMap

(***************************************************************************)
(* What one fill does to the FIFO of the best level: it stays a FIFO of    *)
(* live orders, and gets shorter or has less quantity at its front.        *)
(***************************************************************************)
LEMMA FrontAfterFillProps ==
    ASSUME NEW f \in Seq(RestingOrder), f # <<>>,
           \A i \in DOMAIN f : f[i].qty > 0,
           NEW k \in Nat, k > 0, k <= f[1].qty
    PROVE  /\ FrontAfterFill(f, k) \in Seq(RestingOrder)
           /\ \A i \in DOMAIN FrontAfterFill(f, k) : FrontAfterFill(f, k)[i].qty > 0
           /\ \/ Len(FrontAfterFill(f, k)) < Len(f)
              \/ /\ Len(FrontAfterFill(f, k)) = Len(f)
                 /\ FrontAfterFill(f, k)[1].qty < f[1].qty
<1>1. Len(f) \in Nat /\ Len(f) > 0 /\ f[1] \in RestingOrder /\ 1 \in 1..Len(f)
  OBVIOUS
<1>2. f[1].qty \in Nat
  BY <1>1 DEF RestingOrder
<1>3. CASE f[1].qty = k
  <2>1. FrontAfterFill(f, k) = Tail(f)
    BY <1>3 DEF FrontAfterFill
  <2>2. /\ Tail(f) \in Seq(RestingOrder)
        /\ Len(Tail(f)) = Len(f) - 1
        /\ \A i \in 1..Len(Tail(f)) : Tail(f)[i] = f[i + 1]
    BY HeadTailProperties
  <2>3. \A i \in 1..Len(Tail(f)) : i + 1 \in 1..Len(f)
    BY <1>1, <2>2
  <2>4. \A i \in DOMAIN Tail(f) : Tail(f)[i].qty > 0
    BY <2>2, <2>3
  <2>5. Len(Tail(f)) < Len(f)
    BY <1>1, <2>2
  <2>6. QED
    BY <2>1, <2>2, <2>4, <2>5, Zenon
<1>4. CASE f[1].qty # k
  <2> DEFINE r == [f[1] EXCEPT !.qty = f[1].qty - k]
  <2>1. f[1].qty - k \in Nat /\ f[1].qty - k > 0 /\ f[1].qty - k < f[1].qty
    BY <1>2, <1>4
  <2>2. r \in RestingOrder /\ r.qty = f[1].qty - k
    BY <1>1, <2>1 DEF RestingOrder
  <2> HIDE DEF r
  <2>3. FrontAfterFill(f, k) = [f EXCEPT ![1] = r]
    BY <1>4 DEF FrontAfterFill, r
  <2>4. /\ [f EXCEPT ![1] = r] \in Seq(RestingOrder)
        /\ Len([f EXCEPT ![1] = r]) = Len(f)
        /\ \A j \in 1..Len(f) : [f EXCEPT ![1] = r][j] = IF j = 1 THEN r ELSE f[j]
    BY <1>1, <2>2, ExceptSeq
  <2>5. \A i \in DOMAIN [f EXCEPT ![1] = r] : [f EXCEPT ![1] = r][i].qty > 0
    BY <1>1, <2>1, <2>2, <2>4
  <2>6. QED
    BY <1>1, <2>1, <2>2, <2>3, <2>4, <2>5
<1>5. QED
  BY <1>3, <1>4

-----------------------------------------------------------------------------
(* The inductive invariant. *)

\* Level p of m has lost quantity with respect to m0.
HasShrunk(m, m0, p) ==
    \/ p \notin DOMAIN m
    \/ Len(m[p]) < Len(m0[p])
    \/ Len(m[p]) = Len(m0[p]) /\ m[p][1].qty < m0[p][1].qty

(***************************************************************************)
(* DirtyIffChanged is not inductive: that a later fill cannot restore the  *)
(* book of the start of the call needs to know how the book has changed,   *)
(* namely that some opposite level has shrunk.                             *)
(***************************************************************************)
DirtyInv ==
    /\ ~dirty => book = before
    /\ phase = "run" /\ ~IsNew => ~dirty
    /\ phase = "run" /\ dirty =>
         \E p \in DOMAIN before[opp] : HasShrunk(book[opp], before[opp], p)
    /\ phase = "idle" /\ dirty => book # before

IInv == TypeOK /\ NoCrossedBook /\ LevelsLive /\ NoTradeThrough /\ DirtyInv

(***************************************************************************)
(* Assigning one side of the book leaves the other side alone.             *)
(***************************************************************************)
LEMMA BookUpdate ==
    ASSUME NEW b, b = [s \in Side |-> b[s]], NEW x \in Side, NEW v,
           NEW b2, b2 = [b EXCEPT ![x] = v]
    PROVE  b2 = [s \in Side |-> b2[s]] /\ b2[x] = v /\ b2[OppSide(x)] = b[OppSide(x)]
<1>1. OppSide(x) \in Side /\ OppSide(x) # x
  BY DEF Side, OppSide
<1>2. DOMAIN b = Side
  OBVIOUS
<1>3. QED
  BY <1>1, <1>2

(***************************************************************************)
(* The sides are x and OppSide(x), and OppSide is an involution.           *)
(***************************************************************************)
LEMMA OppSideProps ==
    ASSUME NEW x \in Side
    PROVE  /\ OppSide(x) \in Side /\ OppSide(x) # x /\ OppSide(OppSide(x)) = x
           /\ \A s \in Side : s = x \/ s = OppSide(x)
BY DEF Side, OppSide

(***************************************************************************)
(* A well-typed OrderResult.                                               *)
(***************************************************************************)
LEMMA ResultTyped ==
    ASSUME NEW c \in Clients, NEW t \in ResultType, NEW s \in Side,
           NEW p \in Int32, NEW q \in Int32, NEW n \in Nat
    PROVE  /\ Result(c, t, s, p, q, n) \in OrderResult
           /\ Result(c, t, s, p, q, n).type = t
           /\ Result(c, t, s, p, q, n).price = p
BY DEF Result, OrderResult

(***************************************************************************)
(* int32_t contains zero, the map keys and every natural below a member.   *)
(***************************************************************************)
LEMMA Int32Props ==
    /\ 0 \in Int32
    /\ \A n \in 1..INT32_MAX : n \in Int32
    /\ \A n \in Int32 : n \in Int /\ (n > 0 => n \in 1..INT32_MAX)
    /\ \A n \in Int32, m \in Nat : m <= n => m \in Int32
BY Int32MaxNat, SMT DEF Int32

(***************************************************************************)
(* The initial state satisfies the invariant.                              *)
(***************************************************************************)
LEMMA InitIInv == Init => IInv
<1> SUFFICES ASSUME Init
             PROVE  IInv
  OBVIOUS
<1>1. \A s \in Side : book[s] = NoLevels /\ before[s] = NoLevels
  BY DEF Init
<1>2. DOMAIN NoLevels = {} /\ IsLevelMap(NoLevels)
  BY DEF NoLevels, IsLevelMap
<1>3. order \in Call
  BY Int32Props DEF Init, Call, Side
<1>4. TypeOK
  <2>1. book = [s \in Side |-> book[s]] /\ before = [s \in Side |-> before[s]]
    BY DEF Init
  <2>2. \A s \in Side : IsLevelMap(book[s]) /\ IsLevelMap(before[s])
    BY <1>1, <1>2, Zenon
  <2>3. out \in Seq(OrderResult)
    BY DEF Init
  <2>4. qty \in Int32 /\ phase \in {"idle", "run"} /\ dirty \in BOOLEAN
    BY Int32Props, Zenon DEF Init
  <2>5. QED
    BY <1>3, <2>1, <2>2, <2>3, <2>4, Zenon DEF TypeOK
<1>5. NoCrossedBook /\ LevelsLive
  BY <1>1, <1>2 DEF NoCrossedBook, LevelsLive, Side
<1>6. NoTradeThrough
  BY DEF Init, NoTradeThrough
<1>7. DirtyInv
  BY DEF Init, DirtyInv
<1>8. QED
  BY <1>4, <1>5, <1>6, <1>7 DEF IInv

(***************************************************************************)
(* PushOrder only records the call.                                        *)
(***************************************************************************)
LEMMA PushOrderIInv ==
    ASSUME IInv, NEW c \in Clients, NEW s \in Side, NEW p \in Prices,
           NEW q \in Qtys, NEW n \in Seqs, PushOrder(c, s, p, q, n)
    PROVE  IInv'
<1>1. order' \in Call /\ qty' \in Int32
  BY EngineAssumption DEF PushOrder, Call
<1>2. book' = book /\ before' = book /\ out' = <<>> /\ dirty' = FALSE /\ phase' = "run"
  BY DEF PushOrder
<1>3. TypeOK'
  <2>1. out' \in Seq(OrderResult)
    BY <1>2
  <2>2. QED
    BY <1>1, <1>2, <2>1, Zenon DEF IInv, TypeOK
<1>4. NoCrossedBook' /\ LevelsLive'
  BY <1>2 DEF IInv, NoCrossedBook, LevelsLive
<1>5. NoTradeThrough'
  BY <1>2 DEF NoTradeThrough
<1>6. DirtyInv'
  BY <1>2 DEF DirtyInv
<1>7. QED
  BY <1>3, <1>4, <1>5, <1>6 DEF IInv

(***************************************************************************)
(* Results other than fills do not disturb NoTradeThrough when no opposite *)
(* level appears.                                                          *)
(***************************************************************************)
LEMMA AppendNoFill ==
    ASSUME TypeOK, NoTradeThrough, order' = order,
           NEW r \in OrderResult, r.type # "kSuccess", out' = Append(out, r),
           DOMAIN book'[opp] \subseteq DOMAIN book[opp]
    PROVE  NoTradeThrough'
<1>1. opp' = opp
  BY DEF opp
<1>2. out \in Seq(OrderResult) /\ Len(out) \in Nat
  BY DEF TypeOK
<1>3. /\ DOMAIN out' = 1..(Len(out) + 1)
      /\ \A i \in 1..Len(out) : out'[i] = out[i]
      /\ out'[Len(out) + 1] = r
  BY <1>2
<1>4. \A i \in DOMAIN out' : IsFill(i)' => IsFill(i) /\ out'[i] = out[i]
  <2> SUFFICES ASSUME NEW i \in DOMAIN out', IsFill(i)'
               PROVE  IsFill(i) /\ out'[i] = out[i]
    OBVIOUS
  <2>1. out'[i].type = "kSuccess"
    BY DEF IsFill
  <2>2. i # Len(out) + 1
    BY <1>3, <2>1
  <2>3. i \in 1..Len(out)
    BY <1>2, <1>3, <2>2
  <2>4. QED
    BY <1>2, <1>3, <2>1, <2>3 DEF IsFill
<1>5. QED
  BY <1>1, <1>4 DEF NoTradeThrough, IsFill

(***************************************************************************)
(* Typing facts used by every action.                                      *)
(***************************************************************************)
LEMMA TypeFacts ==
    ASSUME TypeOK
    PROVE  /\ order.client_id \in Clients /\ order.side \in Side /\ opp \in Side
           /\ order.price \in Int32 /\ order.qty \in Int32 /\ order.seq \in Nat
           /\ \A s \in Side : IsLevelMap(book[s])
BY OppSideProps DEF TypeOK, Call, opp

(***************************************************************************)
(* A rejected order, invalid or a cancel that finds nothing, changes no    *)
(* state but the results.                                                  *)
(***************************************************************************)
LEMMA RejectIInv ==
    ASSUME IInv, CancelMissing \/ RejectInvalid
    PROVE  IInv'
<1> DEFINE r == Result(order.client_id, "kReject", order.side, order.price, 0, order.seq)
<1>1. /\ out' = Append(out, r) /\ phase' = "idle" /\ order' = order
      /\ before' = before /\ book' = book /\ qty' = qty /\ dirty' = dirty
  BY DEF CancelMissing, RejectInvalid, Return
<1>2. phase = "run" /\ ~IsNew
  BY TypeFacts, Int32Props
     DEF CancelMissing, RejectInvalid, IsCancel, IsInvalid, IsNew, IInv
<1>3. ~dirty
  BY <1>2 DEF IInv, DirtyInv
<1>4. r \in OrderResult /\ r.type = "kReject"
  BY TypeFacts, ResultTyped, Int32Props DEF IInv, ResultType
<1> HIDE DEF r
<1>5. TypeOK'
  <2>1. out' \in Seq(OrderResult)
    BY <1>1, <1>4 DEF IInv, TypeOK
  <2>2. QED
    BY <1>1, <2>1, Zenon DEF IInv, TypeOK
<1>6. NoCrossedBook' /\ LevelsLive'
  BY <1>1, Zenon DEF IInv, NoCrossedBook, LevelsLive
<1>7. NoTradeThrough'
  <2>1. DOMAIN book'[opp] \subseteq DOMAIN book[opp]
    BY <1>1
  <2>2. QED
    BY <1>1, <1>4, <2>1, AppendNoFill DEF IInv
<1>8. DirtyInv'
  BY <1>1, <1>3 DEF IInv, DirtyInv
<1>9. QED
  BY <1>5, <1>6, <1>7, <1>8 DEF IInv

(***************************************************************************)
(* A successful cancel: the level loses one order, and disappears with its *)
(* last one.                                                               *)
(***************************************************************************)
LEMMA CancelFoundIInv ==
    ASSUME IInv, CancelFound
    PROVE  IInv'
<1> DEFINE m == book[order.side]
           p == order.price
           r == Result(order.client_id, "kCancelled", order.side, p, 0, order.seq)
<1>1. PICK i \in DOMAIN Fifo(m, p) :
        book' = [book EXCEPT ![order.side] = SetLevel(m, p, RemoveAt(m[p], i))]
  BY DEF CancelFound
<1> DEFINE f == RemoveAt(m[p], i)
           m2 == SetLevel(m, p, f)
<1>2. /\ out' = Append(out, r) /\ phase' = "idle" /\ order' = order
      /\ before' = before /\ qty' = qty /\ dirty' = TRUE
  BY DEF CancelFound, Return
<1>3. phase = "run" /\ ~IsNew
  BY TypeFacts, Int32Props DEF CancelFound, IsCancel, IsNew, IInv
<1>4. ~dirty /\ book = before
  BY <1>3 DEF IInv, DirtyInv
<1>5. r \in OrderResult /\ r.type = "kCancelled"
  BY TypeFacts, ResultTyped, Int32Props DEF IInv, ResultType
<1>6. IsLevelMap(m) /\ order.side \in Side
  BY TypeFacts DEF IInv
<1>7. p \in DOMAIN m /\ i \in 1..Len(m[p]) /\ m[p] \in Seq(RestingOrder)
  <2>1. p \in DOMAIN m
    BY DEF Fifo
  <2>2. m[p] \in Seq(RestingOrder)
    BY <1>6, <2>1 DEF IsLevelMap
  <2>3. QED
    BY <2>1, <2>2 DEF Fifo
<1> HIDE DEF m, p
<1>8. /\ f \in Seq(RestingOrder) /\ Len(f) = Len(m[p]) - 1
      /\ \A j \in 1..Len(f) : \E k \in 1..Len(m[p]) : f[j] = m[p][k]
  BY <1>7, RemoveAtProps
<1> HIDE DEF r, f
<1>9. /\ IsLevelMap(m2)
      /\ f = <<>> => DOMAIN m2 = DOMAIN m \ {p}
      /\ f # <<>> => DOMAIN m2 = DOMAIN m
      /\ \A q \in DOMAIN m2 : q # p => q \in DOMAIN m /\ m2[q] = m[q]
      /\ \A q \in DOMAIN m2 : q = p => m2[q] = f
  <2>1. IsLevelMap(m) /\ p \in DOMAIN m /\ f \in Seq(RestingOrder)
    BY <1>6, <1>7, <1>8
  <2>2. QED
    BY <2>1, SetLevelProps
<1> HIDE DEF m2
<1>10. /\ book' = [s \in Side |-> book'[s]]
       /\ book'[order.side] = m2
       /\ book'[OppSide(order.side)] = book[OppSide(order.side)]
  <2>1. book = [s \in Side |-> book[s]]
    BY DEF IInv, TypeOK
  <2>2. book' = [book EXCEPT ![order.side] = m2]
    BY <1>1 DEF f, m2, m, p
  <2>3. QED
    BY <1>6, <2>1, <2>2, BookUpdate
<1>11. DOMAIN m2 \subseteq DOMAIN m
  BY <1>9
<1>12. TypeOK'
  <2>1. out' \in Seq(OrderResult)
    BY <1>2, <1>5 DEF IInv, TypeOK
  <2>2. \A s \in Side : IsLevelMap(book'[s])
    BY <1>6, <1>9, <1>10, OppSideProps, TypeFacts, Zenon DEF IInv
  <2>3. QED
    BY <1>2, <1>10, <2>1, <2>2, Zenon DEF IInv, TypeOK
<1>13. NoCrossedBook'
  <2>1. \A s \in Side : DOMAIN book'[s] \subseteq DOMAIN book[s]
    BY <1>6, <1>10, <1>11, OppSideProps DEF m
  <2>2. QED
    BY <2>1 DEF IInv, NoCrossedBook, Side
<1>14. LevelsLive'
  <2> SUFFICES ASSUME NEW s \in Side, NEW q \in DOMAIN book'[s]
               PROVE  /\ book'[s][q] # <<>>
                      /\ \A j \in DOMAIN book'[s][q] : book'[s][q][j].qty > 0
    BY DEF LevelsLive
  <2>1. CASE s = order.side /\ q = p
    <3>1. book'[s][q] = f /\ f # <<>>
      BY <1>9, <1>10, <2>1
    <3>2. \A k \in 1..Len(m[p]) : m[p][k].qty > 0
      BY <1>6, <1>7 DEF IInv, LevelsLive, m
    <3>3. \A j \in 1..Len(f) : f[j].qty > 0
      BY <1>8, <3>2, Zenon
    <3>4. DOMAIN f = 1..Len(f)
      BY <1>8
    <3>5. QED
      BY <3>1, <3>3, <3>4, Zenon
  <2>2. CASE s = order.side /\ q # p
    BY <1>6, <1>9, <1>10, <1>11, <2>2 DEF IInv, LevelsLive, m
  <2>3. CASE s # order.side
    <3>1. book'[s] = book[s]
      BY <1>6, <1>10, <2>3, OppSideProps
    <3>2. QED
      BY <3>1 DEF IInv, LevelsLive
  <2>4. QED
    BY <2>1, <2>2, <2>3
<1>15. NoTradeThrough'
  <2>1. DOMAIN book'[opp] \subseteq DOMAIN book[opp]
    BY <1>10 DEF opp
  <2>2. QED
    BY <1>2, <1>5, <2>1, AppendNoFill DEF IInv
<1>16. DirtyInv'
  <2>1. m2 # m
    <3>1. CASE f = <<>>
      BY <1>7, <1>9, <3>1
    <3>2. CASE f # <<>>
      <4>1. m2[p] = f
        BY <1>7, <1>9, <3>2
      <4>2. Len(m[p]) \in Nat
        BY <1>7
      <4>3. QED
        BY <1>8, <4>1, <4>2
    <3>3. QED
      BY <3>1, <3>2
  <2>2. book' # before'
    BY <1>2, <1>4, <1>10, <2>1 DEF m
  <2>3. QED
    BY <1>2, <2>2 DEF DirtyInv
<1>17. QED
  BY <1>12, <1>13, <1>14, <1>15, <1>16 DEF IInv

(***************************************************************************)
(* A level that has shrunk is not the level it was.                        *)
(***************************************************************************)
LEMMA ShrunkDiffers ==
    ASSUME TypeOK, LevelsLive, \E p \in DOMAIN before[opp] : HasShrunk(book[opp], before[opp], p)
    PROVE  book[opp] # before[opp]
<1> SUFFICES ASSUME book[opp] = before[opp]
             PROVE  FALSE
  OBVIOUS
<1>1. PICK p \in DOMAIN book[opp] : HasShrunk(book[opp], book[opp], p)
  OBVIOUS
<1>2. book[opp][p] \in Seq(RestingOrder) /\ book[opp][p] # <<>>
  BY TypeFacts DEF IsLevelMap, LevelsLive
<1>3. Len(book[opp][p]) \in Nat /\ book[opp][p][1] \in RestingOrder
  BY <1>2
<1>4. QED
  BY <1>1, <1>3 DEF HasShrunk, RestingOrder

(***************************************************************************)
(* PushOrder returns when Match has used up the whole order.               *)
(***************************************************************************)
LEMMA FullyMatchedIInv ==
    ASSUME IInv, FullyMatched
    PROVE  IInv'
<1>1. /\ phase = "run" /\ phase' = "idle" /\ order' = order /\ before' = before
      /\ book' = book /\ qty' = qty /\ out' = out /\ dirty' = dirty
  BY DEF FullyMatched, Return
<1>2. TypeOK'
  BY <1>1, Zenon DEF IInv, TypeOK
<1>3. NoCrossedBook' /\ LevelsLive' /\ NoTradeThrough'
  BY <1>1 DEF IInv, NoCrossedBook, LevelsLive, NoTradeThrough, opp, IsFill
<1>4. DirtyInv'
  <2>1. dirty => book[opp] # before[opp]
    BY <1>1, ShrunkDiffers DEF IInv, DirtyInv
  <2>2. QED
    BY <1>1, <2>1 DEF IInv, DirtyInv
<1>5. QED
  BY <1>2, <1>3, <1>4 DEF IInv

(***************************************************************************)
(* Rest joins a level that the opposite side does not reach: begin() of    *)
(* the opposite map exists unless it is empty, and it did not cross.       *)
(***************************************************************************)
LEMMA RestIInv ==
    ASSUME IInv, Rest
    PROVE  IInv'
<1> DEFINE m == book[order.side]
           p == order.price
           o == [client_id |-> order.client_id, qty |-> qty, seq |-> order.seq]
           r == Result(order.client_id, "kAccepted", order.side, p, qty, order.seq)
           m2 == PushBack(m, p, o)
<1>1. /\ book' = [book EXCEPT ![order.side] = m2]
      /\ out' = Append(out, r) /\ phase' = "idle" /\ order' = order
      /\ before' = before /\ qty' = qty /\ dirty' = TRUE
  BY DEF Rest, Return
<1>2. phase = "run" /\ IsNew /\ qty > 0 /\ MatchEnds
  BY DEF Rest
<1>3. p \in 1..INT32_MAX /\ qty \in Nat
  BY <1>2, TypeFacts, Int32Props DEF IInv, TypeOK, IsNew
<1>4. o \in RestingOrder /\ o.qty > 0
  BY <1>2, <1>3, TypeFacts DEF IInv, RestingOrder
<1>5. r \in OrderResult /\ r.type = "kAccepted"
  BY TypeFacts, ResultTyped DEF IInv, TypeOK, ResultType
<1>6. IsLevelMap(m) /\ order.side \in Side
  BY TypeFacts DEF IInv
<1> HIDE DEF m, p, o, r
<1>7. /\ IsLevelMap(m2)
      /\ DOMAIN m2 = DOMAIN m \cup {p}
      /\ \A q \in DOMAIN m2 : q # p => q \in DOMAIN m /\ m2[q] = m[q]
      /\ \A q \in DOMAIN m2 : q = p => m2[q] = Append(Fifo(m, p), o)
      /\ Fifo(m, p) \in Seq(RestingOrder)
  BY <1>3, <1>4, <1>6, PushBackProps
<1> HIDE DEF m2
<1>8. /\ book' = [s \in Side |-> book'[s]]
      /\ book'[order.side] = m2
      /\ book'[OppSide(order.side)] = book[OppSide(order.side)]
  <2>1. book = [s \in Side |-> book[s]]
    BY DEF IInv, TypeOK
  <2>2. QED
    BY <1>1, <1>6, <2>1, BookUpdate
<1>9. TypeOK'
  <2>1. out' \in Seq(OrderResult)
    BY <1>1, <1>5 DEF IInv, TypeOK
  <2>2. \A s \in Side : IsLevelMap(book'[s])
    BY <1>6, <1>7, <1>8, OppSideProps, TypeFacts, Zenon DEF IInv
  <2>3. QED
    BY <1>1, <1>8, <2>1, <2>2, Zenon DEF IInv, TypeOK
<1>10. NoCrossedBook'
  <2>1. DOMAIN book[opp] \subseteq 1..INT32_MAX /\ opp \in Side
    BY TypeFacts DEF IInv, IsLevelMap
  <2>2. \A q \in DOMAIN book[opp] : ~IsCross(order.side, p, q)
    <3> SUFFICES ASSUME NEW q \in DOMAIN book[opp]
                 PROVE  ~IsCross(order.side, p, q)
      OBVIOUS
    <3>1. PICK b \in DOMAIN book[opp] : IsBegin(opp, book[opp], b)
      BY <2>1, BeginExists
    <3>2. ~IsCross(order.side, p, b)
      BY <1>2, <1>3, <3>1 DEF MatchEnds, p
    <3>3. q = b \/ SortsBefore(opp, b, q)
      BY <3>1 DEF IsBegin
    <3>4. QED
      BY <1>3, <1>6, <2>1, <3>2, <3>3, Int32MaxNat DEF IsCross, SortsBefore, opp, OppSide, Side
  <2>3. CASE order.side = "kBuy"
    <3>1. opp = "kSell"
      BY <2>3 DEF opp, OppSide
    <3>2. \A q \in DOMAIN book["kSell"] : p < q
      BY <1>3, <2>1, <2>2, <2>3, <3>1, Int32MaxNat DEF IsCross
    <3>3. book'["kBuy"] = m2 /\ book'["kSell"] = book["kSell"] /\ m = book["kBuy"]
      BY <1>8, <2>3, <3>1 DEF opp, m
    <3>4. QED
      BY <1>7, <3>2, <3>3 DEF IInv, NoCrossedBook
  <2>4. CASE order.side = "kSell"
    <3>1. opp = "kBuy"
      BY <2>4 DEF opp, OppSide
    <3>2. \A q \in DOMAIN book["kBuy"] : q < p
      BY <1>3, <2>1, <2>2, <2>4, <3>1, Int32MaxNat DEF IsCross
    <3>3. book'["kSell"] = m2 /\ book'["kBuy"] = book["kBuy"] /\ m = book["kSell"]
      BY <1>8, <2>4, <3>1 DEF opp, m
    <3>4. QED
      BY <1>7, <3>2, <3>3 DEF IInv, NoCrossedBook
  <2>5. QED
    BY <1>6, <2>3, <2>4 DEF Side
<1>11. LevelsLive'
  <2> SUFFICES ASSUME NEW s \in Side, NEW q \in DOMAIN book'[s]
               PROVE  /\ book'[s][q] # <<>>
                      /\ \A j \in DOMAIN book'[s][q] : book'[s][q][j].qty > 0
    BY DEF LevelsLive
  <2>1. CASE s = order.side /\ q = p
    <3>1. book'[s][q] = Append(Fifo(m, p), o)
      BY <1>7, <1>8, <2>1
    <3>2. \A j \in DOMAIN Fifo(m, p) : Fifo(m, p)[j].qty > 0
      BY <1>6 DEF IInv, LevelsLive, m, Fifo
    <3>3. /\ DOMAIN Append(Fifo(m, p), o) = 1..(Len(Fifo(m, p)) + 1)
          /\ \A j \in 1..Len(Fifo(m, p)) : Append(Fifo(m, p), o)[j] = Fifo(m, p)[j]
          /\ Append(Fifo(m, p), o)[Len(Fifo(m, p)) + 1] = o
          /\ Append(Fifo(m, p), o) # <<>>
          /\ DOMAIN Fifo(m, p) = 1..Len(Fifo(m, p))
          /\ Len(Fifo(m, p)) \in Nat
      BY <1>4, <1>7
    <3>4. \A j \in 1..(Len(Fifo(m, p)) + 1) : j \in 1..Len(Fifo(m, p)) \/ j = Len(Fifo(m, p)) + 1
      BY <3>3
    <3>5. QED
      BY <1>4, <3>1, <3>2, <3>3, <3>4, Zenon
  <2>2. CASE s = order.side /\ q # p
    BY <1>6, <1>7, <1>8, <2>2 DEF IInv, LevelsLive, m
  <2>3. CASE s # order.side
    <3>1. book'[s] = book[s]
      BY <1>6, <1>8, <2>3, OppSideProps
    <3>2. QED
      BY <3>1 DEF IInv, LevelsLive
  <2>4. QED
    BY <2>1, <2>2, <2>3
<1>12. NoTradeThrough'
  <2>1. DOMAIN book'[opp] \subseteq DOMAIN book[opp]
    BY <1>8 DEF opp
  <2>2. QED
    BY <1>1, <1>5, <2>1, AppendNoFill DEF IInv
<1>13. DirtyInv'
  <2>1. m2 # m
    <3>1. CASE p \notin DOMAIN m
      BY <1>7, <3>1
    <3>2. CASE p \in DOMAIN m
      <4>1. m2[p] = Append(m[p], o) /\ m[p] \in Seq(RestingOrder)
        BY <1>7, <3>2 DEF Fifo
      <4>2. Len(Append(m[p], o)) = Len(m[p]) + 1 /\ Len(m[p]) \in Nat
        BY <1>4, <4>1
      <4>3. QED
        BY <4>1, <4>2
    <3>3. QED
      BY <3>1, <3>2
  <2>2. dirty => book[opp] # before[opp]
    BY <1>2, ShrunkDiffers DEF IInv, DirtyInv
  <2>3. ~dirty => book = before
    BY DEF IInv, DirtyInv
  <2>4. book' # before'
    BY <1>1, <1>8, <2>1, <2>2, <2>3 DEF m, opp
  <2>5. QED
    BY <1>1, <2>4 DEF DirtyInv
<1>14. QED
  BY <1>9, <1>10, <1>11, <1>12, <1>13 DEF IInv

(***************************************************************************)
(* One iteration of Match's inner loop.                                    *)
(***************************************************************************)
LEMMA MatchFillIInv ==
    ASSUME IInv, MatchFill
    PROVE  IInv'
<1>1. PICK p \in DOMAIN book[opp] :
         /\ IsBegin(opp, book[opp], p)
         /\ IsCross(order.side, order.price, p)
         /\ book[opp][p] # <<>>
         /\ Fill(p, book[opp][p][1], MinOf(qty, book[opp][p][1].qty))
  BY DEF MatchFill
<1> DEFINE m == book[opp]
           f == m[p]
           k == MinOf(qty, f[1].qty)
           f2 == FrontAfterFill(f, k)
           m2 == SetLevel(m, p, f2)
           r1 == Result(order.client_id, "kSuccess", order.side, p, k, order.seq)
           r2 == Result(f[1].client_id, "kSuccess", opp, p, k, f[1].seq)
<1>2. /\ book' = [book EXCEPT ![opp] = m2]
      /\ out' = Append(Append(out, r1), r2)
      /\ qty' = qty - k /\ dirty' = TRUE
      /\ phase' = phase /\ order' = order /\ before' = before
  BY <1>1 DEF MatchFill, Fill
<1>3. phase = "run" /\ IsNew /\ qty > 0
  BY DEF MatchFill
<1>4. opp \in Side /\ order.side \in Side /\ order.side = OppSide(opp) /\ opp' = opp
  BY <1>2, TypeFacts, OppSideProps DEF IInv, opp
<1>5. IsLevelMap(m) /\ p \in DOMAIN m /\ p \in 1..INT32_MAX
  BY <1>1, <1>4, TypeFacts DEF IInv, IsLevelMap
<1>6. /\ f \in Seq(RestingOrder) /\ f # <<>> /\ 1 \in DOMAIN f /\ f[1] \in RestingOrder
      /\ \A i \in DOMAIN f : f[i].qty > 0
  BY <1>1, <1>4, <1>5 DEF IsLevelMap, IInv, LevelsLive
<1>7. f[1].qty \in Nat /\ f[1].qty > 0 /\ f[1].seq \in Nat /\ f[1].client_id \in Clients
  BY <1>6 DEF RestingOrder
<1>8. k \in Nat /\ k > 0 /\ k <= f[1].qty /\ k <= qty /\ qty \in Int32 /\ k \in Int32
  <2>1. qty \in Int32
    BY DEF IInv, TypeOK
  <2>2. k \in Nat /\ k > 0 /\ k <= f[1].qty /\ k <= qty
    BY <1>3, <1>7, <2>1, Int32Props DEF MinOf
  <2>3. QED
    BY <2>1, <2>2, Int32Props
<1>9. p \in Int32
  BY <1>5, Int32Props
<1> HIDE DEF m, f, k
<1>10. /\ r1 \in OrderResult /\ r1.price = p
       /\ r2 \in OrderResult /\ r2.price = p
  <2>1. "kSuccess" \in ResultType /\ order.client_id \in Clients /\ order.seq \in Nat
    BY TypeFacts DEF IInv, ResultType
  <2>2. r1 \in OrderResult /\ r1.price = p
    BY <1>4, <1>8, <1>9, <2>1 DEF Result, OrderResult
  <2>3. r2 \in OrderResult /\ r2.price = p
    BY <1>4, <1>7, <1>8, <1>9, <2>1 DEF Result, OrderResult
  <2>4. QED
    BY <2>2, <2>3
<1> HIDE DEF r1, r2
<1>11. /\ f2 \in Seq(RestingOrder)
       /\ \A i \in DOMAIN f2 : f2[i].qty > 0
       /\ Len(f2) < Len(f) \/ (Len(f2) = Len(f) /\ f2[1].qty < f[1].qty)
  BY <1>6, <1>8, FrontAfterFillProps
<1> HIDE DEF f2
<1>12. /\ IsLevelMap(m2)
       /\ f2 = <<>> => DOMAIN m2 = DOMAIN m \ {p}
       /\ f2 # <<>> => DOMAIN m2 = DOMAIN m
       /\ \A q \in DOMAIN m2 : q # p => q \in DOMAIN m /\ m2[q] = m[q]
       /\ \A q \in DOMAIN m2 : q = p => m2[q] = f2
  BY <1>5, <1>11, SetLevelProps
<1> HIDE DEF m2
<1>13. DOMAIN m2 \subseteq DOMAIN m
  BY <1>12
<1>14. /\ book' = [s \in Side |-> book'[s]]
       /\ book'[opp] = m2
       /\ book'[order.side] = book[order.side]
  <2>1. book = [s \in Side |-> book[s]]
    BY DEF IInv, TypeOK
  <2>2. QED
    BY <1>2, <1>4, <2>1, BookUpdate
<1>15. TypeOK'
  <2>1. out' \in Seq(OrderResult)
    BY <1>2, <1>10 DEF IInv, TypeOK
  <2>2. \A s \in Side : IsLevelMap(book'[s])
    BY <1>4, <1>12, <1>14, OppSideProps, TypeFacts, Zenon DEF IInv
  <2>3. qty' \in Int32
    BY <1>2, <1>8, Int32Props
  <2>4. QED
    BY <1>2, <1>14, <2>1, <2>2, <2>3, Zenon DEF IInv, TypeOK
<1>16. NoCrossedBook'
  <2>1. \A s \in Side : DOMAIN book'[s] \subseteq DOMAIN book[s]
    BY <1>4, <1>13, <1>14, OppSideProps DEF m
  <2>2. QED
    BY <2>1 DEF IInv, NoCrossedBook, Side
<1>17. LevelsLive'
  <2> SUFFICES ASSUME NEW s \in Side, NEW q \in DOMAIN book'[s]
               PROVE  /\ book'[s][q] # <<>>
                      /\ \A j \in DOMAIN book'[s][q] : book'[s][q][j].qty > 0
    BY DEF LevelsLive
  <2>1. CASE s = opp /\ q = p
    BY <1>11, <1>12, <1>14, <2>1
  <2>2. CASE s = opp /\ q # p
    BY <1>4, <1>12, <1>14, <2>2 DEF IInv, LevelsLive, m
  <2>3. CASE s # opp
    <3>1. book'[s] = book[s]
      BY <1>4, <1>14, <2>3, OppSideProps
    <3>2. QED
      BY <3>1 DEF IInv, LevelsLive
  <2>4. QED
    BY <2>1, <2>2, <2>3
<1>18. NoTradeThrough'
  <2>1. out \in Seq(OrderResult) /\ Len(out) \in Nat
    BY DEF IInv, TypeOK
  <2>2. /\ DOMAIN out' = 1..(Len(out) + 2) /\ DOMAIN out = 1..Len(out)
        /\ \A i \in 1..Len(out) : out'[i] = out[i]
        /\ out'[Len(out) + 1] = r1 /\ out'[Len(out) + 2] = r2
    BY <1>2, <1>10, <2>1
  <2>3. \A i \in DOMAIN out' :
          \/ i \in DOMAIN out /\ out'[i] = out[i]
          \/ i \notin DOMAIN out /\ out'[i].price = p
    <3> SUFFICES ASSUME NEW i \in DOMAIN out', i \notin DOMAIN out
                 PROVE  out'[i].price = p
      BY <2>2
    <3>1. i = Len(out) + 1 \/ i = Len(out) + 2
      BY <2>1, <2>2
    <3>2. QED
      BY <1>10, <2>2, <3>1
  <2>4. \A q \in DOMAIN m : q = p \/ SortsBefore(opp, p, q)
    BY <1>1 DEF IsBegin, m
  <2> SUFFICES ASSUME NEW i \in DOMAIN out', IsFill(i)'
               PROVE  /\ IsCross(order.side, order.price, out'[i].price)
                      /\ \A q \in DOMAIN m2 :
                           q = out'[i].price \/ SortsBefore(opp, out'[i].price, q)
                      /\ \A j \in DOMAIN out' : IsFill(j)' /\ i < j =>
                           out'[j].price = out'[i].price
                             \/ SortsBefore(opp, out'[i].price, out'[j].price)
    BY <1>2, <1>4, <1>14 DEF NoTradeThrough
  <2>5. CASE i \in DOMAIN out
    <3>1. out'[i] = out[i] /\ IsFill(i)
      BY <2>3, <2>5 DEF IsFill
    <3>2. /\ IsCross(order.side, order.price, out[i].price)
          /\ \A q \in DOMAIN m : q = out[i].price \/ SortsBefore(opp, out[i].price, q)
          /\ \A j \in DOMAIN out : IsFill(j) /\ i < j =>
               out[j].price = out[i].price \/ SortsBefore(opp, out[i].price, out[j].price)
      BY <2>5, <3>1 DEF IInv, NoTradeThrough, m
    <3>3. ASSUME NEW j \in DOMAIN out', IsFill(j)', i < j
          PROVE  out'[j].price = out[i].price
                   \/ SortsBefore(opp, out[i].price, out'[j].price)
      <4>1. CASE j \in DOMAIN out
        BY <2>3, <3>2, <3>3, <4>1 DEF IsFill
      <4>2. CASE j \notin DOMAIN out
        BY <1>5, <2>3, <3>2, <4>2
      <4>3. QED
        BY <4>1, <4>2
    <3>4. QED
      BY <1>13, <3>1, <3>2, <3>3
  <2>6. CASE i \notin DOMAIN out
    <3>1. out'[i].price = p
      BY <2>3, <2>6
    <3>2. \A j \in DOMAIN out' : i < j => j \notin DOMAIN out
      BY <2>1, <2>2, <2>6
    <3>3. QED
      BY <1>1, <1>13, <2>3, <2>4, <3>1, <3>2
  <2>7. QED
    BY <2>5, <2>6
<1>19. DirtyInv'
  <2>1. \E q \in DOMAIN before[opp] : HasShrunk(m2, before[opp], q)
    <3>1. CASE ~dirty
      <4>1. before[opp] = m
        BY <3>1 DEF IInv, DirtyInv, m
      <4>2. HasShrunk(m2, m, p)
        BY <1>11, <1>12 DEF HasShrunk, f
      <4>3. QED
        BY <1>5, <4>1, <4>2
    <3>2. CASE dirty
      <4>1. PICK q \in DOMAIN before[opp] : HasShrunk(m, before[opp], q)
        BY <1>3, <3>2 DEF IInv, DirtyInv, m
      <4>2. CASE q # p \/ q \notin DOMAIN m2
        BY <1>12, <4>1, <4>2 DEF HasShrunk
      <4>3. CASE q = p /\ p \in DOMAIN m2
        <5>1. m2[p] = f2 /\ m[p] = f
          BY <1>12, <4>3 DEF f
        <5>2. before[opp][p] \in Seq(RestingOrder)
          BY <1>4, <4>1, <4>3 DEF IInv, TypeOK, IsLevelMap
        <5>3. Len(f) \in Nat /\ Len(f2) \in Nat /\ Len(before[opp][p]) \in Nat
          BY <1>6, <1>11, <5>2
        <5>4. \A e \in Seq(RestingOrder) : e # <<>> => e[1] \in RestingOrder
          OBVIOUS
        <5>5. \A e \in RestingOrder : e.qty \in Nat
          BY DEF RestingOrder
        <5>6. /\ f2 # <<>> => f2[1].qty \in Nat
              /\ before[opp][p] # <<>> => before[opp][p][1].qty \in Nat
          BY <1>11, <5>2, <5>4, <5>5, Zenon
        <5>7. \/ Len(f) < Len(before[opp][p])
              \/ Len(f) = Len(before[opp][p]) /\ f[1].qty < before[opp][p][1].qty
          BY <1>5, <4>1, <4>3, <5>1 DEF HasShrunk
        <5>8. \/ Len(f2) < Len(before[opp][p])
              \/ Len(f2) = Len(before[opp][p]) /\ f2[1].qty < before[opp][p][1].qty
          <6>1. CASE Len(f2) < Len(f)
            BY <5>3, <5>7, <6>1
          <6>2. CASE Len(f2) = Len(f) /\ f2[1].qty < f[1].qty
            <7>1. f2 # <<>> /\ (Len(f) = Len(before[opp][p]) => before[opp][p] # <<>>)
              BY <1>6, <1>11, <5>2, <6>2
            <7>2. QED
              BY <1>7, <5>3, <5>6, <5>7, <6>2, <7>1
          <6>3. QED
            BY <1>11, <6>1, <6>2
        <5>9. QED
          BY <4>1, <4>3, <5>1, <5>8 DEF HasShrunk
      <4>4. QED
        BY <4>2, <4>3
    <3>3. QED
      BY <3>1, <3>2
  <2>2. IsNew'
    BY <1>2, <1>3 DEF IsNew
  <2>3. QED
    BY <1>2, <1>3, <1>4, <1>14, <2>1, <2>2 DEF DirtyInv
<1>20. QED
  BY <1>15, <1>16, <1>17, <1>18, <1>19 DEF IInv

(***************************************************************************)
(* Every step of the engine preserves the invariant.                       *)
(***************************************************************************)
LEMMA NextIInv == IInv /\ [Next]_vars => IInv'
<1> SUFFICES ASSUME IInv, [Next]_vars
             PROVE  IInv'
  OBVIOUS
<1>1. ASSUME NEW c \in Clients, NEW s \in Side, NEW p \in Prices, NEW q \in Qtys,
             NEW n \in Seqs, PushOrder(c, s, p, q, n)
      PROVE  IInv'
  BY <1>1, PushOrderIInv
<1>2. CASE CancelFound
  BY <1>2, CancelFoundIInv
<1>3. CASE CancelMissing \/ RejectInvalid
  BY <1>3, RejectIInv
<1>4. CASE MatchFill
  BY <1>4, MatchFillIInv
<1>5. CASE FullyMatched
  BY <1>5, FullyMatchedIInv
<1>6. CASE Rest
  BY <1>6, RestIInv
<1>7. CASE UNCHANGED vars
  BY <1>7, Zenon DEF vars, IInv, TypeOK, NoCrossedBook, LevelsLive, NoTradeThrough,
                     DirtyInv, IsFill, opp, IsNew
<1>8. QED
  BY <1>1, <1>2, <1>3, <1>4, <1>5, <1>6, <1>7 DEF Next, Step

(***************************************************************************)
(* The strengthened invariant holds of every reachable state.              *)
(***************************************************************************)
THEOREM IInvInvariant == Spec => []IInv
BY InitIInv, NextIInv, PTL DEF Spec

(***************************************************************************)
(* Type correctness: the maps only ever hold positive int32 prices and     *)
(* well-formed FIFOs, and what is left of an order stays an int32.         *)
(***************************************************************************)
THEOREM TypeCorrect == Spec => []TypeOK
<1>1. IInv => TypeOK
  BY DEF IInv
<1>2. QED
  BY <1>1, IInvInvariant, PTL

(***************************************************************************)
(* The book is never crossed, whatever orders arrive.                      *)
(***************************************************************************)
THEOREM NeverCrossed == Spec => []NoCrossedBook
<1>1. IInv => NoCrossedBook
  BY DEF IInv
<1>2. QED
  BY <1>1, IInvInvariant, PTL

(***************************************************************************)
(* Match and Cancel leave no empty level and no used-up order behind.      *)
(***************************************************************************)
THEOREM AlwaysLive == Spec => []LevelsLive
<1>1. IInv => LevelsLive
  BY DEF IInv
<1>2. QED
  BY <1>1, IInvInvariant, PTL

(***************************************************************************)
(* No order trades through a better resting price or its own limit.        *)
(***************************************************************************)
THEOREM NeverTradesThrough == Spec => []NoTradeThrough
<1>1. IInv => NoTradeThrough
  BY DEF IInv
<1>2. QED
  BY <1>1, IInvInvariant, PTL

(***************************************************************************)
(* The dirty flag that gates the broadcast is exact.                       *)
(***************************************************************************)
THEOREM DirtyExact == Spec => []DirtyIffChanged
<1>1. IInv => DirtyIffChanged
  <2> SUFFICES ASSUME IInv
               PROVE  DirtyIffChanged
    OBVIOUS
  <2>1. dirty \in BOOLEAN /\ phase \in {"idle", "run"}
    BY DEF IInv, TypeOK
  <2>2. ~dirty => book = before
    BY DEF IInv, DirtyInv
  <2>3. phase = "idle" /\ dirty => book # before
    BY DEF IInv, DirtyInv
  <2>4. phase = "run" /\ dirty => book # before
    BY ShrunkDiffers DEF IInv, DirtyInv
  <2>5. QED
    BY <2>1, <2>2, <2>3, <2>4 DEF DirtyIffChanged
<1>2. QED
  BY <1>1, IInvInvariant, PTL

=============================================================================
