---------------------------- MODULE MarketMaking ----------------------------
(***************************************************************************)
(* The closed loop: TradingSystem with the market data channel.  EngineLoop*)
(* adds a snapshot of a changed book to what it posts, the io thread caches*)
(* and broadcasts it, and the processes act on what they read: a Client    *)
(* quotes by Q and N, a Consumer trades around the mid.                    *)
(*                                                                         *)
(* Results and books travel on two connections, so a process may read them *)
(* in either order.  feed[c] is the market data stream of c with the       *)
(* pending snapshot of its MdSession at the end, which a newer one         *)
(* replaces as long as it is not being written.                            *)
(***************************************************************************)
EXTENDS TradingSystem, OrderBook

CONSTANTS Q, N,      \* command-line arguments of each Client
          MaxFeed,   \* snapshots a market data stream and `pending` hold together
          MaxTicks   \* bound: rounds of the Consumers' TickLoops

VARIABLES
    snapshots,    \* for each element of posted, the snapshot in it or <<>>
    latest_book,
    subscribed,   \* processes whose market data connection is up
    feed,         \* snapshots on the way to each process
    mid2,         \* twice mid_ of each Consumer
    ticks         \* number of rounds so far

bookVars == <<snapshots, latest_book, subscribed, feed, mid2, ticks>>

mmVars == <<vars, bookVars>>

-----------------------------------------------------------------------------
(* The server. *)

\* The book is extracted before the order is pushed.
MMEngineLoopTooEarly ==
    /\ EngineLoop
    /\ snapshots' = Append(snapshots, IF Popped.dirty THEN <<ExtractOrderBook(queue)>> ELSE <<>>)
    /\ UNCHANGED <<latest_book, subscribed, feed, mid2, ticks>>

MMEngineLoop ==
    /\ EngineLoop
    /\ snapshots' = Append(snapshots, IF Popped.dirty
                                      THEN <<ExtractOrderBook(Popped.queue)>> ELSE <<>>)
    /\ UNCHANGED <<latest_book, subscribed, feed, mid2, ticks>>

\* MdSession: the snapshot replaces the pending one, unless there is none or
\* that one is already being written.
OfferedFirstStays(stream, pkt, written) == IF stream = <<>> THEN <<pkt>> ELSE stream

Offered(stream, pkt, written) ==
    IF stream = <<>> \/ (written /\ Len(stream) < MaxFeed)
    THEN Append(stream, pkt) ELSE Append(Front(stream), pkt)

BroadcastOrderBook(pkt) ==
    \E writing \in SUBSET {c \in subscribed : Len(feed[c]) \in 1..(MaxFeed - 1)} :
        feed' = [c \in Clients |-> IF c \in subscribed
                                   THEN Offered(feed[c], pkt, c \in writing) ELSE feed[c]]

\* The posted handler: results, then the snapshot.
Publish ==
    /\ SendOrderResults
    /\ snapshots' = Tail(snapshots)
    /\ IF Head(snapshots) = <<>>
       THEN UNCHANGED <<latest_book, feed>>
       ELSE /\ latest_book' = Head(snapshots)[1]
            /\ BroadcastOrderBook(Head(snapshots)[1])
    /\ UNCHANGED <<subscribed, mid2, ticks>>

\* ConnectMarketData of c, MdListener: the cached book comes first.
MdConnect(c) ==
    /\ OeReady(c) /\ c \notin subscribed
    /\ subscribed' = subscribed \cup {c}
    /\ feed' = [feed EXCEPT ![c] = <<latest_book>>]
    /\ UNCHANGED <<vars, snapshots, latest_book, mid2, ticks>>

-----------------------------------------------------------------------------
(* The processes. *)

\* One round of MdReader in a Client ...
Quote(c) ==
    /\ c \in Quoters /\ feed[c] # <<>>
    /\ feed' = [feed EXCEPT ![c] = Tail(@)]
    /\ LET best == CalcBestPrice(Parse(Head(feed[c])), Q[c], N[c])
       IN  IF best = {} THEN UNCHANGED clientVars
           ELSE \E t \in best : OnOrderBook(c, t["kBuy"], t["kSell"])
    /\ UNCHANGED <<targets, serverVars, snapshots, latest_book, subscribed, mid2, ticks>>

\* ... and in a Consumer.
FollowMid(c) ==
    /\ c \in Takers /\ feed[c] # <<>>
    /\ feed' = [feed EXCEPT ![c] = Tail(@)]
    /\ mid2' = [mid2 EXCEPT ![c] = MidAfter(@, Parse(Head(feed[c])))]
    /\ UNCHANGED <<vars, snapshots, latest_book, subscribed, ticks>>

\* One round of TickLoop, which OnReady starts once both channels are connected.
MMTick(c) ==
    /\ c \in Takers \cap subscribed /\ ticks < MaxTicks
    /\ \E side \in TickSides(mid2[c]), price \in TickPrices(mid2[c]), qty \in OrderQty(c) :
         Tick(c, side, price, qty)
    /\ ticks' = ticks + 1
    /\ UNCHANGED <<targets, serverVars, snapshots, latest_book, subscribed, feed, mid2>>

-----------------------------------------------------------------------------
MMInit ==
    /\ Init
    /\ snapshots = <<>>
    /\ latest_book = ExtractOrderBook(queue)
    /\ subscribed = {}
    /\ feed = [c \in Clients |-> <<>>]
    /\ mid2 = [c \in Takers |-> 2 * kSeedMid]
    /\ ticks = 0

OrderPath(c) ==
    /\ ReadResult(c) \/ OeAccept(c) \/ OeRegister(c) \/ ServerOeReader(c)
         \/ (ReadId(c) /\ UNCHANGED <<targets, serverVars>>)
    /\ UNCHANGED bookVars

MMNext ==
    \/ \E c \in Clients : OrderPath(c) \/ MdConnect(c) \/ Quote(c) \/ FollowMid(c) \/ MMTick(c)
    \/ MMEngineLoop \/ Publish

MMSpec == MMInit /\ [][MMNext]_mmVars

-----------------------------------------------------------------------------
\* Nothing is on its way any more.
Quiet ==
    /\ Clients \subseteq subscribed
    /\ inbound = <<>> /\ posted = <<>>
    /\ \A c \in Clients : up[c] = <<>> /\ down[c] = <<>> /\ feed[c] = <<>>

Best(c) == CalcBestPrice(Parse(latest_book), Q[c], N[c])

(***************************************************************************)
(* When nothing is on its way, no side waits, and an order of a Client that*)
(* rests is at the target that the current book gives: the target it went  *)
(* to is not one of a stale book.  (A side may be idle: a target that comes*)
(* during a wait is lost when the order is then filled.)                   *)
(***************************************************************************)
QuietAtTarget ==
    Quiet => \A c \in Quoters, s \in Side :
        /\ slot[c][s].state \in {"kIdle", "kResting"}
        /\ slot[c][s].state = "kResting" =>
             \A t \in Best(c) : t[s] > 0 => slot[c][s].price = t[s]

\* The published book has the order at its price, or is full of better prices.
Published(s, order) ==
    LET layers == Parse(latest_book)[s]
    IN  \/ \E i \in 1..kNumLayers : layers[i].price = order.price /\ layers[i].qty >= order.qty
        \/ \A i \in 1..kNumLayers :
              layers[i].qty > 0 /\ SortsBefore(s, layers[i].price, order.price)

(***************************************************************************)
(* When nothing is on its way, the orders that the processes count are in  *)
(* the book that was published last: what the results have told them, and  *)
(* what the snapshots tell everybody, agree in the end, although neither   *)
(* channel waits for the other.                                            *)
(***************************************************************************)
QuietBookAgrees ==
    Quiet => \A c \in Clients, s \in Side :
        slot[c][s].state = "kResting" => Published(s, slot[c][s])

=============================================================================
