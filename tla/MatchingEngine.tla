--------------------------- MODULE MatchingEngine ---------------------------
(***************************************************************************)
(* common/matchengine.cpp, at the grain of one iteration of Match's inner  *)
(* loop.  bids_ and asks_ are book["kBuy"] and book["kSell"]: each maps    *)
(* the prices that have a level (the keys of the std::map) to the FIFO of  *)
(* resting orders at that price.                                           *)
(*                                                                         *)
(* A call PushOrder(client_id, order, dirty) is the step PushOrder, which  *)
(* clears the results, followed by the steps of the branch it takes, while *)
(* phase = "run".  Between calls phase = "idle" and out, dirty hold what   *)
(* the last call returned.  Only the engine thread touches this state, so  *)
(* nothing else happens to it within a call.                               *)
(***************************************************************************)
EXTENDS Protocol, Sequences, FiniteSets, FiniteSetsExt, SequencesExt

CONSTANTS
    Clients,     \* client ids
    Prices,      \* values of OrderPacket.price that arrive
    Qtys,        \* values of OrderPacket.qty that arrive (0 is a cancel)
    Seqs,        \* values of OrderPacket.seq that arrive
    MaxResting   \* bound: no new order comes in when this many rest

ASSUME EngineAssumption ==
    /\ \A p \in Prices : p \in Int32
    /\ \A q \in Qtys : q \in Int32
    /\ \A n \in Seqs : n \in Nat

VARIABLES
    book,     \* bids_ and asks_
    phase,    \* "idle" between calls, "run" inside PushOrder
    order,    \* client_id and the OrderPacket of the call
    qty,      \* the local `qty`: what is left of the order
    out,      \* the vector of OrderResults
    dirty,    \* the out-parameter `dirty`
    before    \* history: the book when the call started

vars == <<book, phase, order, qty, out, dirty, before>>

RestingOrder == [client_id : Clients, qty : Nat, seq : Nat]

Call == [client_id : Clients, side : Side, price : Int32, qty : Int32, seq : Nat]

OrderResult == [client_id : Clients, type : ResultType, side : Side,
                price : Int32, qty : Int32, seq : Nat]

IsLevelMap(m) ==
    /\ DOMAIN m \subseteq 1..INT32_MAX
    /\ m \in [DOMAIN m -> Seq(RestingOrder)]

(***************************************************************************)
(* Type invariant.                                                         *)
(***************************************************************************)
TypeOK ==
    /\ book = [s \in Side |-> book[s]]
    /\ before = [s \in Side |-> before[s]]
    /\ \A s \in Side : IsLevelMap(book[s]) /\ IsLevelMap(before[s])
    /\ phase \in {"idle", "run"}
    /\ order \in Call
    /\ qty \in Int32
    /\ out \in Seq(OrderResult)
    /\ dirty \in BOOLEAN

-----------------------------------------------------------------------------
(* The maps. *)

NoLevels == [p \in {} |-> <<>>]

Fifo(m, p) == IF p \in DOMAIN m THEN m[p] ELSE <<>>

\* m[p] = fifo; a level whose FIFO has become empty is erased.
SetLevelKeepEmpty(m, p, fifo) == [m EXCEPT ![p] = fifo]

SetLevel(m, p, fifo) ==
    IF fifo = <<>> THEN [q \in DOMAIN m \ {p} |-> m[q]]
                   ELSE [m EXCEPT ![p] = fifo]

\* A wrong insertion, at the front: newest first.
PushFront(m, p, o) ==
    [q \in DOMAIN m \cup {p} |-> IF q = p THEN <<o>> \o Fifo(m, p) ELSE m[q]]

\* m[p].push_back(o): operator[] creates the level when it is missing.
PushBack(m, p, o) ==
    [q \in DOMAIN m \cup {p} |-> IF q = p THEN Append(Fifo(m, p), o) ELSE m[q]]

\* p is the key of m.begin(), the best price of `side`.
IsBeginAnyLevel(side, m, p) == p \in DOMAIN m

IsBegin(side, m, p) ==
    /\ p \in DOMAIN m
    /\ \A q \in DOMAIN m : q = p \/ SortsBefore(side, p, q)

RestingCount ==
    MapThenSumSet(LAMBDA s : MapThenSumSet(LAMBDA p : Len(book[s][p]), DOMAIN book[s]),
                  Side)

-----------------------------------------------------------------------------
(* PushOrder and the branches it dispatches to. *)

opp == OppSide(order.side)

IsCancel == order.qty = 0

IsInvalid == order.qty < 0 \/ (order.qty # 0 /\ order.price <= 0)

IsNewAnyPrice == order.qty > 0

IsNew == order.qty > 0 /\ order.price > 0

PushOrder(client_id, side, price, q, seq) ==
    /\ phase = "idle"
    /\ q > 0 => RestingCount < MaxResting
    /\ order' = [client_id |-> client_id, side |-> side, price |-> price,
                 qty |-> q, seq |-> seq]
    /\ qty' = q
    /\ out' = <<>>
    /\ dirty' = FALSE
    /\ phase' = "run"
    /\ before' = book
    /\ UNCHANGED book

Return == phase' = "idle" /\ UNCHANGED <<order, before>>

\* The first order of the client in the FIFO of (side, price), if any.
IsFirstOfClient(fifo, i) ==
    /\ i \in DOMAIN fifo
    /\ fifo[i].client_id = order.client_id
    /\ \A j \in 1..(i - 1) : fifo[j].client_id # order.client_id

CancelFoundStaysClean ==
    /\ phase = "run" /\ IsCancel
    /\ \E i \in DOMAIN Fifo(book[order.side], order.price) :
         /\ IsFirstOfClient(Fifo(book[order.side], order.price), i)
         /\ book' = [book EXCEPT ![order.side] =
                        SetLevel(@, order.price, RemoveAt(@[order.price], i))]
    /\ out' = Append(out, Result(order.client_id, "kCancelled", order.side,
                                 order.price, 0, order.seq))
    /\ Return
    /\ UNCHANGED <<qty, dirty>>

CancelFound ==
    /\ phase = "run" /\ IsCancel
    /\ \E i \in DOMAIN Fifo(book[order.side], order.price) :
         /\ IsFirstOfClient(Fifo(book[order.side], order.price), i)
         /\ book' = [book EXCEPT ![order.side] =
                        SetLevel(@, order.price, RemoveAt(@[order.price], i))]
    /\ dirty' = TRUE
    /\ out' = Append(out, Result(order.client_id, "kCancelled", order.side,
                                 order.price, 0, order.seq))
    /\ Return
    /\ UNCHANGED qty

CancelMissing ==
    /\ phase = "run" /\ IsCancel
    /\ \A i \in DOMAIN Fifo(book[order.side], order.price) :
         Fifo(book[order.side], order.price)[i].client_id # order.client_id
    /\ out' = Append(out, Result(order.client_id, "kReject", order.side,
                                 order.price, 0, order.seq))
    /\ Return
    /\ UNCHANGED <<book, qty, dirty>>

RejectInvalid ==
    /\ phase = "run" /\ IsInvalid
    /\ out' = Append(out, Result(order.client_id, "kReject", order.side,
                                 order.price, 0, order.seq))
    /\ Return
    /\ UNCHANGED <<book, qty, dirty>>

-----------------------------------------------------------------------------
(* Match: one iteration trades the remaining quantity against the front of *)
(* the best opposite level, erasing the order and the level it uses up.    *)

FrontAfterFill(fifo, matched) ==
    IF fifo[1].qty = matched
    THEN Tail(fifo)
    ELSE [fifo EXCEPT ![1] = [fifo[1] EXCEPT !.qty = fifo[1].qty - matched]]

Fill(rest_price, rest, matched) ==
    /\ qty' = qty - matched
    /\ book' = [book EXCEPT ![opp] =
                  SetLevel(@, rest_price, FrontAfterFill(@[rest_price], matched))]
    /\ out' = Append(Append(out,
                 Result(order.client_id, "kSuccess", order.side, rest_price,
                        matched, order.seq)),
                 Result(rest.client_id, "kSuccess", opp, rest_price, matched,
                        rest.seq))
    /\ dirty' = TRUE

MatchFill ==
    /\ phase = "run" /\ IsNew /\ qty > 0
    /\ \E p \in DOMAIN book[opp] :
         /\ IsBegin(opp, book[opp], p)
         /\ IsCross(order.side, order.price, p)
         /\ book[opp][p] # <<>>
         /\ Fill(p, book[opp][p][1], MinOf(qty, book[opp][p][1].qty))
    /\ UNCHANGED <<phase, order, before>>

\* The loop condition or the is_cross test ends Match.
MatchEndsAtLimit ==
    \/ qty = 0
    \/ \A p \in DOMAIN book[opp] :
         IsBegin(opp, book[opp], p) =>
           ~IsCross(order.side, order.price, p) \/ p = order.price

MatchEnds ==
    \/ qty = 0
    \/ \A p \in DOMAIN book[opp] :
         IsBegin(opp, book[opp], p) => ~IsCross(order.side, order.price, p)

FullyMatched ==
    /\ phase = "run" /\ IsNew /\ qty = 0
    /\ Return
    /\ UNCHANGED <<book, qty, out, dirty>>

Rest ==
    /\ phase = "run" /\ IsNew /\ qty > 0 /\ MatchEnds
    /\ book' = [book EXCEPT ![order.side] =
                  PushBack(@, order.price, [client_id |-> order.client_id,
                                            qty |-> qty, seq |-> order.seq])]
    /\ out' = Append(out, Result(order.client_id, "kAccepted", order.side,
                                 order.price, qty, order.seq))
    /\ dirty' = TRUE
    /\ Return
    /\ UNCHANGED qty

-----------------------------------------------------------------------------
Init ==
    /\ book = [s \in Side |-> NoLevels]
    /\ before = book
    /\ phase = "idle"
    /\ \E c \in Clients : order = [client_id |-> c, side |-> "kBuy", price |-> 0,
                                   qty |-> 0, seq |-> 0]
    /\ qty = 0
    /\ out = <<>>
    /\ dirty = FALSE

Step == \/ CancelFound \/ CancelMissing \/ RejectInvalid
        \/ MatchFill \/ FullyMatched \/ Rest

Next ==
    \/ \E c \in Clients, s \in Side, p \in Prices, q \in Qtys, n \in Seqs :
         PushOrder(c, s, p, q, n)
    \/ Step

Spec == Init /\ [][Next]_vars

\* The engine thread keeps running inside a call; calls arrive or do not.
FairSpec == Spec /\ WF_vars(Step)

-----------------------------------------------------------------------------
(* Safety. *)

(***************************************************************************)
(* The book is never crossed: every resting bid is below every resting     *)
(* ask, inside a call too.  Rest may only add what Match could not trade.  *)
(***************************************************************************)
NoCrossedBook ==
    \A b \in DOMAIN book["kBuy"], a \in DOMAIN book["kSell"] : b < a

(***************************************************************************)
(* No level is empty and no resting order has run out of quantity: Match   *)
(* and Cancel erase what they use up, so begin() always offers a trade and *)
(* ExtractOrderBook never publishes a price without quantity.              *)
(***************************************************************************)
LevelsLive ==
    \A s \in Side : \A p \in DOMAIN book[s] :
        /\ book[s][p] # <<>>
        /\ \A i \in DOMAIN book[s][p] : book[s][p][i].qty > 0

IsFill(i) == i \in DOMAIN out /\ out[i].type = "kSuccess"

(***************************************************************************)
(* No trade-through.  The fills of a call are within the taker's limit,    *)
(* walk the opposite side from its best price outwards, and leave behind   *)
(* no resting order with a better price than any of them.                  *)
(***************************************************************************)
NoTradeThrough ==
    \A i \in DOMAIN out : IsFill(i) =>
        /\ IsCross(order.side, order.price, out[i].price)
        /\ \A q \in DOMAIN book[opp] :
             q = out[i].price \/ SortsBefore(opp, out[i].price, q)
        /\ \A j \in DOMAIN out : IsFill(j) /\ i < j =>
             out[j].price = out[i].price
               \/ SortsBefore(opp, out[i].price, out[j].price)

(***************************************************************************)
(* dirty is exact: it is set when, and only when, the call has changed the *)
(* book.  EngineLoop extracts and broadcasts a snapshot only if it is set, *)
(* so a missed flag would leave every subscriber with a stale book.        *)
(***************************************************************************)
DirtyIffChanged == dirty <=> book # before

=============================================================================
