---------------------------- MODULE SideProtocol ----------------------------
(***************************************************************************)
(* The order protocol of common/baseclient.cpp as each side of a process   *)
(* lives it: its SideState, the orders it has sent and the engine has not  *)
(* executed, what rests for it on the book, and the results it has not     *)
(* read.  Streams are FIFOs; whom and how much the engine trades with, and *)
(* when, is left open, and so is which sides a step moves: one order may   *)
(* trade with many.  TradingSystem behaves like this.                      *)
(***************************************************************************)
EXTENDS SideState, Sequences, SequencesExt

CONSTANTS
    Lines,        \* the sides of all processes
    side,         \* "kBuy" or "kSell", of each line
    Quantities,   \* quantities of its new orders: OrderQty()
    Targets       \* target prices

\* All are functions on Lines.
VARIABLES
    st,           \* bid_ or ask_
    orders,       \* sent, not yet executed
    resting,      \* price and quantity of the orders on the book
    results       \* not yet read

vars == <<st, orders, resting, results>>

-----------------------------------------------------------------------------
ResultOf(type, qty) == [type |-> type, qty |-> qty]

FillOf(result) == IF result.type = "kSuccess" THEN result.qty ELSE 0

\* Quantity filled according to the first k results.
Filled(rs, k) ==
    LET sum[i \in 0..Len(rs)] == IF i = 0 THEN 0 ELSE sum[i - 1] + FillOf(rs[i])
    IN  sum[k]

FilledBy(rs) == Filled(rs, Len(rs))

-----------------------------------------------------------------------------
(* The process. *)

Send(l, r) == st'[l] = r.st /\ orders'[l] = orders[l] \o r.sends

\* A policy calls Reconcile.
Target(l, desired, qty) ==
    /\ desired \in Int /\ qty \in Nat \ {0}
    /\ Send(l, Reconcile(st[l], side[l], desired, qty))
    /\ UNCHANGED <<resting[l], results[l]>>

\* One round of OeReader.
ReadResult(l, qty) ==
    /\ qty \in Nat \ {0} /\ results[l] # <<>>
    /\ Send(l, HandleResult(st[l], side[l], Head(results[l]), qty))
    /\ results'[l] = Tail(results[l])
    /\ UNCHANGED resting[l]

-----------------------------------------------------------------------------
(* The engine. *)

\* PushOrder of a cancel: it finds the order by its price, or not.
Found(l) == resting[l] # <<>> /\ Head(resting[l]).price = Head(orders[l]).price

Cancel(l) ==
    /\ orders[l] # <<>> /\ Head(orders[l]).qty = 0
    /\ orders'[l] = Tail(orders[l])
    /\ resting'[l] = IF Found(l) THEN Tail(resting[l]) ELSE resting[l]
    /\ results'[l] = Append(results[l], ResultOf(IF Found(l) THEN "kCancelled" ELSE "kReject", 0))
    /\ UNCHANGED st[l]

\* PushOrder of a new order: it trades, and what is left rests.
Execute(l) ==
    /\ orders[l] # <<>> /\ Head(orders[l]).qty > 0
    /\ orders'[l] = Tail(orders[l])
    /\ \E fills \in BoundedSeq(1..Head(orders[l]).qty, Head(orders[l]).qty) :
         LET reports == [i \in DOMAIN fills |-> ResultOf("kSuccess", fills[i])]
             left    == Head(orders[l]).qty - FilledBy(reports)
         IN  \/ /\ left = 0
                /\ results'[l] = results[l] \o reports
                /\ UNCHANGED resting[l]
             \/ /\ left > 0
                /\ results'[l] = results[l] \o Append(reports, ResultOf("kAccepted", left))
                /\ resting'[l] = Append(resting[l],
                                         [price |-> Head(orders[l]).price, qty |-> left])
    /\ UNCHANGED st[l]

RestingQty(l) == IF resting[l] = <<>> THEN 0 ELSE Head(resting[l]).qty

\* Somebody trades with the order that rests.
Fill(l, n) ==
    /\ n \in 1..RestingQty(l)
    /\ resting'[l] = IF n = RestingQty(l) THEN Tail(resting[l])
                                          ELSE [resting[l] EXCEPT ![1].qty = @ - n]
    /\ results'[l] = Append(results[l], ResultOf("kSuccess", n))
    /\ UNCHANGED <<st[l], orders[l]>>

-----------------------------------------------------------------------------
LineInit(l) == st[l] = NoOrder /\ orders[l] = <<>> /\ resting[l] = <<>> /\ results[l] = <<>>

Init == \A l \in Lines : LineInit(l)

\* The connection is lost, or the process or the server ends.
Disconnect(l) == LineInit(l)'

LineStep(l) ==
    \/ \E qty \in Quantities[l] :
         ReadResult(l, qty) \/ \E desired \in Targets : Target(l, desired, qty)
    \/ Cancel(l) \/ Execute(l) \/ Disconnect(l)
    \/ \E n \in 1..RestingQty(l) : Fill(l, n)

LineStays(l) == UNCHANGED <<st[l], orders[l], resting[l], results[l]>>

Next == \A l \in Lines : LineStep(l) \/ LineStays(l)

Spec == Init /\ [][Next]_vars

-----------------------------------------------------------------------------
(***************************************************************************)
(* At most one order of the side is in the system, on the book at the      *)
(* price the process believes, and at most a stale cancel besides it.      *)
(***************************************************************************)
OneOrder(l) ==
    /\ Len(resting[l]) <= 1 /\ Len(orders[l]) <= 2
    /\ \A i \in 1..Len(orders[l]) : orders[l][i].qty > 0 => i = Len(orders[l]) /\ resting[l] = <<>>
    /\ resting[l] # <<>> => Head(resting[l]).price = st[l].price

(***************************************************************************)
(* A side that waits or rests counts exactly what rests and the fills it   *)
(* has not read, once the order is executed and until a cancel succeeds;   *)
(* an idle side has neither an order nor a fill to come.                   *)
(***************************************************************************)
Exact(l) ==
    LET sent  == \E i \in 1..Len(orders[l]) : orders[l][i].qty > 0
        comes(type) == \E i \in 1..Len(results[l]) : results[l][i].type = type
    IN  CASE st[l].state = "kIdle" ->
               resting[l] = <<>> /\ ~sent /\ FilledBy(results[l]) = 0 /\ ~comes("kAccepted")
                 /\ ~comes("kCancelled")
          [] st[l].state # "kIdle" /\ sent ->
               orders[l][Len(orders[l])].qty = st[l].qty /\ FilledBy(results[l]) = 0
          [] st[l].state # "kIdle" /\ comes("kCancelled") ->
               /\ st[l].state = "kWaitCanceled" /\ resting[l] = <<>>
               /\ FilledBy(results[l]) < st[l].qty
          [] OTHER ->
               st[l].qty > 0 /\ FilledBy(results[l]) + RestingQty(l) = st[l].qty

(***************************************************************************)
(* The unbounded queue of results stays small: a result for each lot, the  *)
(* kAccepted and the answer to one cancel.                                 *)
(***************************************************************************)
Backlog(l) == Len(results[l]) <= st[l].qty + 2

=============================================================================
