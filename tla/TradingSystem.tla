---------------------------- MODULE TradingSystem ----------------------------
(***************************************************************************)
(* The order-entry path end to end: trading processes (BaseClient), the    *)
(* server's io thread (server.cpp: OeListener, OeReader, SendOrderResults),*)
(* the inbound queue, and the engine thread (EngineLoop), whose PushOrder  *)
(* is the price-time outcome that MatchingEngine implements.               *)
(*                                                                         *)
(* OeWriter's per-session queue wq and the TCP stream behind it are one    *)
(* FIFO, down[c].  The processes' targets are arbitrary here; MarketMaking *)
(* derives them from the published books.                                  *)
(***************************************************************************)
EXTENDS BaseClient, PriceTime

CONSTANTS
    Targets,              \* target prices the policies compute
    MaxTargets,           \* bound: targets computed, all together
    ServerMayStop,        \* the server may be stopped
    kSeedClientId,
    SeedBids, SeedAsks,   \* prices of InitBook's orders
    kSeedQty

ASSUME SystemAssumption ==
    /\ Targets \subseteq Int /\ MaxTargets \in Nat /\ ServerMayStop \in BOOLEAN
    /\ kSeedClientId \notin Clients
    /\ kSeedQty \in Nat \ {0} /\ IsFiniteSet(SeedBids) /\ IsFiniteSet(SeedAsks)
    /\ \A b \in SeedBids, a \in SeedAsks : 0 < b /\ b < a

VARIABLES
    targets,    \* number of targets computed so far
    listener,   \* the connection OeListener is shaking hands with, if any
    sessions,   \* keys of oe_sessions_
    inbound,    \* the ConcurrentQueue inbound_
    queue,      \* the engine's book
    posted      \* result vectors posted to the io thread and not yet handled

serverVars == <<listener, sessions, inbound, queue, posted>>

vars == <<clientVars, targets, serverVars>>

-----------------------------------------------------------------------------
(* The server's io thread. *)

\* OeListener accepts c, assigns it an id and writes the id to the socket.
OeAccept(c) ==
    /\ server = "up" /\ listener = {} /\ conn[c] = "start"
    /\ listener' = {c}
    /\ conn' = [conn EXCEPT ![c] = "assigned"]
    /\ UNCHANGED <<server, slot, next_seq, inflight, up, down, targets,
                   sessions, inbound, queue, posted>>

\* The write completes: register the session and spawn its OeReader.
OeRegister(c) ==
    /\ listener = {c}
    /\ listener' = {}
    /\ sessions' = sessions \cup {c}
    /\ UNCHANGED <<clientVars, targets, inbound, queue, posted>>

\* The write fails because the process is gone: no session.
OeHandshakeFails(c) ==
    /\ listener = {c} /\ conn[c] = "closed"
    /\ listener' = {}
    /\ up' = [up EXCEPT ![c] = <<>>]
    /\ UNCHANGED <<server, conn, slot, next_seq, inflight, down, targets,
                   sessions, inbound, queue, posted>>

\* OeReader reads an order and pushes it to the inbound queue.
ServerOeReader(c) ==
    /\ c \in sessions /\ up[c] # <<>>
    /\ inbound' = Append(inbound, [client_id |-> c, order |-> Head(up[c])])
    /\ up' = [up EXCEPT ![c] = Tail(@)]
    /\ UNCHANGED <<server, conn, slot, next_seq, inflight, down, targets,
                   listener, sessions, queue, posted>>

\* OeReader's read fails: end of stream, or a reset that loses what was unread.
ServerOeReaderEnds(c) ==
    /\ c \in sessions /\ conn[c] = "closed"
    /\ sessions' = sessions \ {c}
    /\ up' = [up EXCEPT ![c] = <<>>]
    /\ UNCHANGED <<server, conn, slot, next_seq, inflight, down, targets,
                   listener, inbound, queue, posted>>

PacketWithoutSeq(r) == [type |-> r.type, side |-> r.side, price |-> r.price,
                        qty |-> r.qty, seq |-> 0]

Packet(r) == [type |-> r.type, side |-> r.side, price |-> r.price,
              qty |-> r.qty, seq |-> r.seq]

\* Every session gets every result.
PacketsForAll(c, results) == [i \in DOMAIN results |-> Packet(results[i])]

\* What a result vector holds for client c.
PacketsFor(c, results) ==
    FlattenSeq([i \in DOMAIN results |-> OneIf(results[i].client_id = c, Packet(results[i]))])

\* The posted handler: results of clients without a session are dropped, and
\* what is written to a closed socket is lost.
SendOrderResults ==
    /\ posted # <<>>
    /\ down' = [c \in Clients |->
                  IF c \in sessions /\ conn[c] # "closed"
                  THEN down[c] \o PacketsFor(c, Head(posted)) ELSE down[c]]
    /\ posted' = Tail(posted)
    /\ UNCHANGED <<server, conn, slot, next_seq, inflight, up, targets,
                   listener, sessions, inbound, queue>>

\* Server::Stop and the end of the process: the connections break, the book,
\* the orders not yet executed and the results not yet written are gone.
ServerStops ==
    /\ ServerMayStop /\ server = "up"
    /\ server' = "down"
    /\ up' = [c \in Clients |-> <<>>]
    /\ listener' = {} /\ sessions' = {} /\ inbound' = <<>> /\ posted' = <<>>
    /\ queue' = [s \in Side |-> <<>>]
    /\ UNCHANGED <<conn, slot, next_seq, inflight, down, targets>>

-----------------------------------------------------------------------------
(* The engine thread: one round of EngineLoop. *)

\* The order at the head of inbound_, and what PushOrder makes of it.
Popped ==
    LET item == Head(inbound)
    IN  Outcome(queue, [client_id |-> item.client_id, side |-> item.order.side,
                        price |-> item.order.price, qty |-> item.order.qty,
                        seq |-> item.order.seq])

EngineLoop ==
    /\ inbound # <<>>
    /\ queue' = Popped.queue
    /\ posted' = Append(posted, Popped.out)
    /\ inbound' = Tail(inbound)
    /\ UNCHANGED <<clientVars, targets, listener, sessions>>

-----------------------------------------------------------------------------
Init ==
    /\ ClientInit
    /\ targets = 0
    /\ listener = {} /\ sessions = {} /\ inbound = <<>> /\ posted = <<>>
    /\ queue = [kBuy  |-> InitBook("kBuy", SeedBids, kSeedClientId, kSeedQty),
                kSell |-> InitBook("kSell", SeedAsks, kSeedClientId, kSeedQty)]

\* A policy computes a target.  The two of a Client may be any: an ask that is
\* too wide for its field is read as 0, and then the ask target is below the
\* bid.  A Consumer's price is at least 1.
Retarget(c) ==
    /\ \/ \E bid, ask \in Targets : OnOrderBook(c, bid, ask)
       \/ \E side \in Side, price \in Targets, qty \in OrderQty(c) :
            price >= 1 /\ Tick(c, side, price, qty)
    /\ UNCHANGED serverVars

NewTarget(c) == targets < MaxTargets /\ targets' = targets + 1 /\ Retarget(c)

ReadResult(c) ==
    (\E qty \in OrderQty(c) : OeReader(c, qty)) /\ UNCHANGED <<targets, serverVars>>

ConnectionStep(c) ==
    (ReadId(c) \/ OeReaderEnds(c) \/ Stop(c)) /\ UNCHANGED <<targets, serverVars>>

ServerStep(c) ==
    \/ OeAccept(c) \/ OeRegister(c) \/ OeHandshakeFails(c)
    \/ ServerOeReader(c) \/ ServerOeReaderEnds(c)

ServiceStep ==
    \/ \E c \in Clients : ReadResult(c) \/ ConnectionStep(c) \/ ServerStep(c)
    \/ SendOrderResults \/ EngineLoop \/ ServerStops

Next == ServiceStep \/ \E c \in Clients : NewTarget(c)

Spec == Init /\ [][Next]_vars

\* The same without the bound: targets keep coming.
EndlessNext == ServiceStep \/ \E c \in Clients : Retarget(c) /\ UNCHANGED targets

(***************************************************************************)
(* The server's two threads and a process's io thread keep serving what is *)
(* ready; targets, connections, disconnections and the server's stop come  *)
(* or do not come.                                                         *)
(***************************************************************************)
Fairness ==
    /\ WF_vars(EngineLoop)
    /\ WF_vars(SendOrderResults)
    /\ \A c \in Clients : WF_vars(OeRegister(c)) /\ WF_vars(ServerOeReader(c))
                            /\ WF_vars(ReadResult(c))

FairSpec == Init /\ [][EndlessNext]_vars /\ Fairness

-----------------------------------------------------------------------------
(* What is on its way for a process, and what rests for it. *)

\* Its orders among the items of the inbound queue.
Queued(c, items) ==
    FlattenSeq([i \in DOMAIN items |-> OneIf(items[i].client_id = c, items[i].order)])

OrdersFrom(c) == Queued(c, inbound) \o up[c]

ResultsTo(c) == down[c] \o PacketsFor(c, FlattenSeq(posted))

\* Its orders in one side of the book.
RestingFor(c, q) ==
    FlattenSeq([i \in DOMAIN q |->
        OneIf(q[i].client_id = c, [price |-> q[i].price, qty |-> q[i].qty])])

\* The orders, and the results, of one side.
OrdersOn(s, packets) ==
    FlattenSeq([i \in DOMAIN packets |->
        OneIf(packets[i].side = s, Order(s, packets[i].price, packets[i].qty))])

ResultsOn(s, packets) ==
    FlattenSeq([i \in DOMAIN packets |->
        OneIf(packets[i].side = s, [type |-> packets[i].type, qty |-> packets[i].qty])])

Ready == {c \in Clients : server = "up" /\ conn[c] = "ready"}

-----------------------------------------------------------------------------
(***************************************************************************)
(* Type invariant.                                                         *)
(***************************************************************************)
TypeOK ==
    /\ conn \in [Clients -> Connection]
    /\ slot \in [Clients -> [Side -> [state : OeState, price : Nat, qty : Nat,
                                      pending : Nat]]]
    /\ \A c \in Clients : inflight[c] \subseteq (0..(SeqRange - 1)) \X Side
    /\ \A c \in Clients : \A h \in inflight[c] : h[1] # next_seq[c]
    /\ listener \subseteq Clients /\ sessions \subseteq Clients
    /\ targets \in 0..MaxTargets

\* The sides of all processes, each seen by itself while its process is connected.
Lines == Clients \X Side

IfReady(l, view, none) == IF l[1] \in Ready THEN view ELSE none

LineState == [l \in Lines |-> IfReady(l, slot[l[1]][l[2]], NoOrder)]

LineOrders == [l \in Lines |-> IfReady(l, OrdersOn(l[2], OrdersFrom(l[1])), <<>>)]

LineResting == [l \in Lines |-> IfReady(l, RestingFor(l[1], queue[l[2]]), <<>>)]

LineResults == [l \in Lines |-> IfReady(l, ResultsOn(l[2], ResultsTo(l[1])), <<>>)]

Protocol == INSTANCE SideProtocol WITH
    side <- [l \in Lines |-> l[2]], Quantities <- [l \in Lines |-> OrderQty(l[1])],
    st <- LineState, orders <- LineOrders, resting <- LineResting, results <- LineResults

(***************************************************************************)
(* Whatever the other processes, the other side and the threads of the     *)
(* server do, each side of each connected process sees the engine as in    *)
(* SideProtocol: orders executed one by one in the order sent, fills of    *)
(* the one order that rests, and results in the order in which they arose. *)
(***************************************************************************)
FollowsProtocol == Protocol!Spec

(***************************************************************************)
(* A process has at most one order per side in the system, and it is at    *)
(* the price the process believes, so that a cancel by price always means  *)
(* that order.  Neither a fill racing a cancel nor a target that comes     *)
(* while an answer is awaited makes Reconcile send a second one.           *)
(***************************************************************************)
OneOrderPerSide == \A l \in Lines : Protocol!OneOrder(l)

(***************************************************************************)
(* The process's count of its remaining quantity is exact up to what is on *)
(* its way: an idle side has nothing anywhere; otherwise qty is what rests *)
(* plus what is still being sent plus the fills it has not read, unless    *)
(* the confirmation of a cancel is coming.                                 *)
(***************************************************************************)
ExposureExact == \A l \in Lines : Protocol!Exact(l)

(***************************************************************************)
(* The unbounded result queue of a session stays small: per side, at most  *)
(* one result for each lot of the order, its kAccepted and the answer to a *)
(* cancel are on their way.                                                *)
(***************************************************************************)
BacklogBounded == \A l \in Lines : Protocol!Backlog(l)

(***************************************************************************)
(* Latency samples are not lost: an order whose response is awaited is on  *)
(* its way to the engine, or a result with its seq is on its way back.     *)
(* Otherwise inflight_ would grow for ever.                                *)
(***************************************************************************)
InflightAnswered ==
    \A c \in Ready : \A h \in inflight[c] :
        \/ \E i \in DOMAIN OrdersFrom(c) : OrdersFrom(c)[i].seq = h[1]
        \/ \E i \in DOMAIN ResultsTo(c) : ResultsTo(c)[i].seq = h[1]

(***************************************************************************)
(* inflight_ stays small although nothing ever removes an order that gets  *)
(* no answer: at most a cancel and a new order are awaited per side, also  *)
(* after the server has gone and ticks go on.  The wait for an answer that *)
(* cannot come is what keeps a side from sending more.                     *)
(***************************************************************************)
InflightBounded ==
    \A c \in Clients, s \in Side : Cardinality({h \in inflight[c] : h[2] = s}) <= 2

(***************************************************************************)
(* No wait lasts for ever, however many targets keep coming: a process     *)
(* that has sent an order leaves kWaitAccepted, one that has sent a cancel *)
(* leaves kWaitCanceled, or it is stopped, or the server goes.  Each wait  *)
(* ends by itself: a handler may lead from one to the other and back.      *)
(***************************************************************************)
Waiting(c, s, wait) == c \in Ready /\ slot[c][s].state = wait

WaitEnds ==
    \A c \in Clients, s \in Side, wait \in {"kWaitAccepted", "kWaitCanceled"} :
        Waiting(c, s, wait) ~> ~Waiting(c, s, wait)

(***************************************************************************)
(* What the comments of baseclient.cpp say of a price change: the side     *)
(* that waits for the confirmation of its cancel keeps the target it will  *)
(* requote at.                                                             *)
(***************************************************************************)
PendingKept ==
    \A c \in Ready, s \in Side :
        slot[c][s].state = "kWaitCanceled" => slot[c][s].pending # 0

=============================================================================
