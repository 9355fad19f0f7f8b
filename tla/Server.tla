------------------------------- MODULE Server -------------------------------
(***************************************************************************)
(* server/server.cpp: the coroutines of the io thread (listeners, readers, *)
(* writers, watchers and the handler posted by the engine) and the engine  *)
(* thread, for market-data subscribers and order-entry clients that come,  *)
(* read slowly and go.                                                     *)
(*                                                                         *)
(* The io thread runs one handler at a time, from a resumption to the next *)
(* co_await: that is one step here.  A co_spawned coroutine may start at   *)
(* once or later.  A book is its version: the number of dirty orders so    *)
(* far.  A result is its number among the results for its addressee; which *)
(* results an order produces is left open (MatchingEngine says which).     *)
(***************************************************************************)
EXTENDS Naturals, Sequences, SequencesExt

CONSTANTS
    Subscribers,   \* market-data connections
    Traders,       \* order-entry connections
    MaxOrders,     \* bound: orders sent by the traders
    MaxResults     \* bound: results of one order for one trader

ASSUME ServerAssumption ==
    Subscribers \cap Traders = {} /\ MaxOrders \in Nat /\ MaxResults \in Nat

VARIABLES
    running,       \* io.stop() has not been called
    md,            \* MdSession of each subscriber, its writers and its peer
    oe,            \* OeSession of each trader, its writers and its peer
    listener,      \* the trader OeListener is shaking hands with, if any
    inbound,       \* inbound_: orders, by sender
    posted,        \* handlers posted to the io thread by the engine
    latest_book,
    book,          \* the engine's book
    produced,      \* history: number of results produced for each trader
    orders         \* number of orders sent

vars == <<running, md, oe, listener, inbound, posted, latest_book, book, produced, orders>>

(***************************************************************************)
(* link is the connection as the peer sees it, reg says that the session   *)
(* is in md_sessions_ or oe_sessions_.  wr holds one entry per live writer *)
(* coroutine of the session: 0 before it starts, then what it is writing.  *)
(* seen and got are what the peer has received.                            *)
(***************************************************************************)
NoMd == [link |-> "none", reg |-> FALSE, pending |-> 0, has_pending |-> FALSE,
         writing |-> FALSE, wr |-> <<>>, seen |-> 0]

NoOe == [link |-> "none", reg |-> FALSE, wq |-> <<>>, writing |-> FALSE,
         wr |-> <<>>, up |-> 0, got |-> <<>>]

-----------------------------------------------------------------------------
(* Market data. *)

\* Note a snapshot for the session and make sure that a writer runs.
OfferTwoWriters(s, pkt) ==
    [s EXCEPT !.pending = pkt, !.has_pending = TRUE, !.writing = TRUE,
              !.wr = Append(@, 0)]

Offer(s, pkt) ==
    [s EXCEPT !.pending = pkt, !.has_pending = TRUE, !.writing = TRUE,
              !.wr = IF s.writing THEN @ ELSE Append(@, 0)]

\* MdListener: register the session and send it the cached book.
MdAccept(m) ==
    /\ running /\ md[m].link = "none"
    /\ md' = [md EXCEPT ![m] = Offer([NoMd EXCEPT !.link = "up", !.reg = TRUE], latest_book)]
    /\ UNCHANGED <<running, oe, listener, inbound, posted, latest_book, book, produced, orders>>

BroadcastOrderBook(pkt) ==
    md' = [m \in Subscribers |-> IF md[m].reg THEN Offer(md[m], pkt) ELSE md[m]]

\* The head of MdWriter's loop: take the latest snapshot, or finish.
MdWriterLoopOnce(s, i) ==
    IF s.wr[i] = 0
    THEN [s EXCEPT !.wr[i] = s.pending, !.has_pending = FALSE]
    ELSE [s EXCEPT !.wr = RemoveAt(@, i), !.writing = FALSE]

MdWriterLoopKeepsFlag(s, i) ==
    IF s.has_pending
    THEN [s EXCEPT !.wr[i] = s.pending, !.has_pending = FALSE]
    ELSE [s EXCEPT !.wr = RemoveAt(@, i)]

MdWriterLoop(s, i) ==
    IF s.has_pending
    THEN [s EXCEPT !.wr[i] = s.pending, !.has_pending = FALSE]
    ELSE [s EXCEPT !.wr = RemoveAt(@, i), !.writing = FALSE]

MdWriterStart(m) ==
    /\ running
    /\ \E i \in DOMAIN md[m].wr :
         /\ md[m].wr[i] = 0
         /\ md' = [md EXCEPT ![m] = MdWriterLoop(@, i)]
    /\ UNCHANGED <<running, oe, listener, inbound, posted, latest_book, book, produced, orders>>

\* The write completes.  Towards a peer that is gone it may still succeed.
MdReceive(s, i) == [s EXCEPT !.seen = IF s.link = "up" THEN s.wr[i] ELSE s.seen]

MdWriterDone(m) ==
    /\ running
    /\ \E i \in DOMAIN md[m].wr :
         /\ md[m].wr[i] # 0
         /\ md' = [md EXCEPT ![m] = MdWriterLoop(MdReceive(@, i), i)]
    /\ UNCHANGED <<running, oe, listener, inbound, posted, latest_book, book, produced, orders>>

\* The write fails: leave the loop.
MdWriterFails(m) ==
    /\ running /\ md[m].link = "down"
    /\ \E i \in DOMAIN md[m].wr :
         /\ md[m].wr[i] # 0
         /\ md' = [md EXCEPT ![m].wr = RemoveAt(@, i), ![m].writing = FALSE]
    /\ UNCHANGED <<running, oe, listener, inbound, posted, latest_book, book, produced, orders>>

\* MdWatch notices that the subscriber is gone.
MdWatch(m) ==
    /\ running /\ md[m].reg /\ md[m].link = "down"
    /\ md' = [md EXCEPT ![m].reg = FALSE]
    /\ UNCHANGED <<running, oe, listener, inbound, posted, latest_book, book, produced, orders>>

-----------------------------------------------------------------------------
(* Order entry. *)

\* OeListener accepts a trader and starts to write its id.
OeAccept(c) ==
    /\ running /\ listener = {} /\ oe[c].link = "none"
    /\ listener' = {c}
    /\ oe' = [oe EXCEPT ![c].link = "up"]
    /\ UNCHANGED <<running, md, inbound, posted, latest_book, book, produced, orders>>

\* The id is written: register the session, spawn its OeReader.
OeRegister(c) ==
    /\ running /\ listener = {c}
    /\ listener' = {}
    /\ oe' = [oe EXCEPT ![c].reg = TRUE]
    /\ UNCHANGED <<running, md, inbound, posted, latest_book, book, produced, orders>>

OeHandshakeFails(c) ==
    /\ running /\ listener = {c} /\ oe[c].link = "down"
    /\ listener' = {}
    /\ UNCHANGED <<running, md, oe, inbound, posted, latest_book, book, produced, orders>>

\* OeReader: an order arrives.
OeReader(c) ==
    /\ running /\ oe[c].reg /\ oe[c].up > 0
    /\ inbound' = Append(inbound, c)
    /\ oe' = [oe EXCEPT ![c].up = @ - 1]
    /\ UNCHANGED <<running, md, listener, posted, latest_book, book, produced, orders>>

\* OeReader: the read fails.
OeReaderEnds(c) ==
    /\ running /\ oe[c].reg /\ oe[c].link = "down"
    /\ oe' = [oe EXCEPT ![c].reg = FALSE, ![c].up = 0]
    /\ UNCHANGED <<running, md, listener, inbound, posted, latest_book, book, produced, orders>>

\* Queue results for the session and make sure that a writer runs.
EnqueueInFront(s, results) ==
    [s EXCEPT !.wq = results \o @, !.writing = TRUE,
              !.wr = IF s.writing THEN @ ELSE Append(@, 0)]

Enqueue(s, results) ==
    [s EXCEPT !.wq = @ \o results, !.writing = TRUE,
              !.wr = IF s.writing THEN @ ELSE Append(@, 0)]

SendOrderResults(results) ==
    oe' = [c \in Traders |->
             IF oe[c].reg /\ results[c] # <<>> THEN Enqueue(oe[c], results[c])
                                              ELSE oe[c]]

\* The head of OeWriter's loop: write the front, or finish.
OeWriterLoopOnce(s, i) ==
    IF s.wr[i] = 0
    THEN [s EXCEPT !.wr[i] = Head(s.wq)]
    ELSE [s EXCEPT !.wr = RemoveAt(@, i), !.writing = FALSE]

OeWriterLoop(s, i) ==
    IF s.wq # <<>>
    THEN [s EXCEPT !.wr[i] = Head(s.wq)]
    ELSE [s EXCEPT !.wr = RemoveAt(@, i), !.writing = FALSE]

OeWriterStart(c) ==
    /\ running
    /\ \E i \in DOMAIN oe[c].wr :
         /\ oe[c].wr[i] = 0
         /\ oe' = [oe EXCEPT ![c] = OeWriterLoop(@, i)]
    /\ UNCHANGED <<running, md, listener, inbound, posted, latest_book, book, produced, orders>>

\* The write completes: pop the front, which is still what was written.
OeReceive(s, i) ==
    [s EXCEPT !.wq = Tail(s.wq),
              !.got = IF s.link = "up" THEN Append(s.got, s.wr[i]) ELSE s.got]

OeWriterDone(c) ==
    /\ running
    /\ \E i \in DOMAIN oe[c].wr :
         /\ oe[c].wr[i] # 0
         /\ oe' = [oe EXCEPT ![c] = OeWriterLoop(OeReceive(@, i), i)]
    /\ UNCHANGED <<running, md, listener, inbound, posted, latest_book, book, produced, orders>>

OeWriterFails(c) ==
    /\ running /\ oe[c].link = "down"
    /\ \E i \in DOMAIN oe[c].wr :
         /\ oe[c].wr[i] # 0
         /\ oe' = [oe EXCEPT ![c].wr = RemoveAt(@, i), ![c].writing = FALSE]
    /\ UNCHANGED <<running, md, listener, inbound, posted, latest_book, book, produced, orders>>

-----------------------------------------------------------------------------
(* The engine thread, and the handler it posts. *)

\* EngineLoop: execute the order of trader c, with count[t] results for each
\* trader t.  c gets one; another trader only when they trade, and then its
\* order rests, so it has had results.
EngineLoop(count, dirty) ==
    /\ inbound # <<>>
    /\ count[Head(inbound)] > 0
    /\ \A t \in Traders \ {Head(inbound)} : count[t] > 0 => dirty /\ produced[t] > 0
    /\ produced' = [t \in Traders |-> produced[t] + count[t]]
    /\ posted' = Append(posted,
                    [results  |-> [t \in Traders |-> [i \in 1..count[t] |-> produced[t] + i]],
                     snapshot |-> IF dirty THEN <<book + 1>> ELSE <<>>])
    /\ book' = IF dirty THEN book + 1 ELSE book
    /\ inbound' = Tail(inbound)
    /\ UNCHANGED <<running, md, oe, listener, latest_book, orders>>

\* The handler: results first, then the snapshot, if there is one.
Publish ==
    /\ running /\ posted # <<>>
    /\ LET h == Head(posted)
       IN  /\ SendOrderResults(h.results)
           /\ IF h.snapshot = <<>>
              THEN UNCHANGED <<latest_book, md>>
              ELSE latest_book' = h.snapshot[1] /\ BroadcastOrderBook(h.snapshot[1])
    /\ posted' = Tail(posted)
    /\ UNCHANGED <<running, listener, inbound, book, produced, orders>>

\* The keyboard handler: Server::Stop, then io.stop().  The engine thread goes
\* on until inbound_ is empty; what it posts is not handled any more.
Stop ==
    /\ running
    /\ running' = FALSE
    /\ md' = [m \in Subscribers |->
                IF md[m].reg THEN [md[m] EXCEPT !.reg = FALSE, !.link = "down"] ELSE md[m]]
    /\ oe' = [c \in Traders |->
                IF oe[c].reg THEN [oe[c] EXCEPT !.reg = FALSE, !.link = "down"] ELSE oe[c]]
    /\ UNCHANGED <<listener, inbound, posted, latest_book, book, produced, orders>>

-----------------------------------------------------------------------------
(* The peers. *)

SendOrder(c) ==
    /\ oe[c].link = "up" /\ orders < MaxOrders
    /\ orders' = orders + 1
    /\ oe' = [oe EXCEPT ![c].up = @ + 1]
    /\ UNCHANGED <<running, md, listener, inbound, posted, latest_book, book, produced>>

SubscriberLeaves(m) ==
    /\ md[m].link = "up"
    /\ md' = [md EXCEPT ![m].link = "down"]
    /\ UNCHANGED <<running, oe, listener, inbound, posted, latest_book, book, produced, orders>>

TraderLeaves(c) ==
    /\ oe[c].link = "up"
    /\ oe' = [oe EXCEPT ![c].link = "down"]
    /\ UNCHANGED <<running, md, listener, inbound, posted, latest_book, book, produced, orders>>

-----------------------------------------------------------------------------
NoCachedBook == 0

\* The constructor seeds the book and caches it.
CachedBook == 1

Init ==
    /\ running = TRUE
    /\ md = [m \in Subscribers |-> NoMd]
    /\ oe = [c \in Traders |-> NoOe]
    /\ listener = {} /\ inbound = <<>> /\ posted = <<>>
    /\ book = 1 /\ latest_book = CachedBook
    /\ produced = [c \in Traders |-> 0] /\ orders = 0

MdNext(m) ==
    \/ MdAccept(m) \/ MdWriterStart(m) \/ MdWriterDone(m) \/ MdWriterFails(m)
    \/ MdWatch(m) \/ SubscriberLeaves(m)

OeNext(c) ==
    \/ OeAccept(c) \/ OeRegister(c) \/ OeHandshakeFails(c) \/ OeReader(c) \/ OeReaderEnds(c)
    \/ OeWriterStart(c) \/ OeWriterDone(c) \/ OeWriterFails(c)
    \/ SendOrder(c) \/ TraderLeaves(c)

Execute == \E count \in [Traders -> 0..MaxResults], dirty \in BOOLEAN : EngineLoop(count, dirty)

Next ==
    \/ \E m \in Subscribers : MdNext(m)
    \/ \E c \in Traders : OeNext(c)
    \/ Execute \/ Publish \/ Stop

Spec == Init /\ [][Next]_vars

(***************************************************************************)
(* Both threads keep running ready work, and a connected peer keeps        *)
(* reading (MdReader and OeReader of BaseClient loop), so writes complete. *)
(* Connections, orders, departures and the stop come or do not come.       *)
(***************************************************************************)
Fairness ==
    /\ WF_vars(Execute) /\ WF_vars(Publish)
    /\ \A m \in Subscribers : WF_vars(MdWriterStart(m)) /\ WF_vars(MdWriterDone(m))
    /\ \A c \in Traders : /\ WF_vars(OeRegister(c)) /\ WF_vars(OeReader(c))
                          /\ WF_vars(OeWriterStart(c)) /\ WF_vars(OeWriterDone(c))

FairSpec == Spec /\ Fairness

-----------------------------------------------------------------------------
(***************************************************************************)
(* Type invariant.                                                         *)
(***************************************************************************)
TypeOK ==
    /\ running \in BOOLEAN
    /\ md \in [Subscribers -> [link : {"none", "up", "down"}, reg : BOOLEAN,
                               pending : 0..book, has_pending : BOOLEAN,
                               writing : BOOLEAN, wr : Seq(0..book), seen : 0..book]]
    /\ oe \in [Traders -> [link : {"none", "up", "down"}, reg : BOOLEAN,
                           wq : Seq(Nat), writing : BOOLEAN, wr : Seq(Nat),
                           up : Nat, got : Seq(Nat)]]
    /\ listener \subseteq Traders
    /\ inbound \in Seq(Traders)
    /\ posted \in Seq([results : [Traders -> Seq(Nat)], snapshot : Seq(Nat)])
    /\ book \in Nat /\ latest_book \in 1..book
    /\ produced \in [Traders -> Nat] /\ orders \in Nat

(***************************************************************************)
(* At most one writer per socket, whatever the order of broadcasts, results*)
(* and completions: two would interleave their bytes on the stream.        *)
(***************************************************************************)
OneWriter ==
    /\ \A m \in Subscribers : Len(md[m].wr) <= 1
    /\ \A c \in Traders : Len(oe[c].wr) <= 1

Connected(s) == running /\ s.reg /\ s.link = "up"

(***************************************************************************)
(* Every result produced for a connected trader has reached it, is queued  *)
(* in its session, or is in a posted handler: exactly once and in order.   *)
(* No result comes before its session is registered.                       *)
(***************************************************************************)
ResultsInOrder ==
    \A c \in Traders : Connected(oe[c]) =>
        oe[c].got \o oe[c].wq
          \o FlattenSeq([i \in DOMAIN posted |-> posted[i].results[c]])
        = [i \in 1..produced[c] |-> i]

(***************************************************************************)
(* Nothing is stranded: a connected session without a writer has nothing   *)
(* left to write, and its subscriber has the latest book, which is the     *)
(* engine's once the posted handlers have run.                             *)
(***************************************************************************)
NothingStranded ==
    /\ \A c \in Traders : Connected(oe[c]) /\ oe[c].wr = <<>> => oe[c].wq = <<>>
    /\ \A m \in Subscribers : Connected(md[m]) /\ md[m].wr = <<>> =>
         /\ md[m].seen = latest_book
         /\ posted = <<>> => md[m].seen = book

(***************************************************************************)
(* Books never go backwards for a subscriber, although snapshots are       *)
(* coalesced and the first one comes from the cache.                       *)
(***************************************************************************)
BooksAdvance == [][\A m \in Subscribers : md'[m].seen >= md[m].seen]_vars

(***************************************************************************)
(* Every connected subscriber eventually sees every change of the book or  *)
(* a later one, or it goes, or the server stops.                           *)
(***************************************************************************)
EverySubscriberCatchesUp ==
    \A m \in Subscribers, v \in 1..(MaxOrders + 1) :
        Connected(md[m]) /\ book = v ~> md[m].seen >= v \/ ~Connected(md[m])

(***************************************************************************)
(* Every result produced for a connected trader eventually reaches it, or  *)
(* it goes, or the server stops.                                           *)
(***************************************************************************)
EveryResultArrives ==
    \A c \in Traders, n \in 1..(MaxOrders * MaxResults) :
        Connected(oe[c]) /\ produced[c] = n ~> Len(oe[c].got) >= n \/ ~Connected(oe[c])

=============================================================================
