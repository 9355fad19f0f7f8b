# A TLA+ model of the exchange

The repository is a small exchange over TCP: a `server` with a matching engine,
quoting `client` processes and random `consumer` processes. This directory holds
TLA+ modules that model it, TLC configurations that check them on small
instances, and TLAPS proofs. `PROJECT.json` lists components, runs, mutants, the
definition-to-source map, findings, hazards and theorems.

## The system

| Part | State | Operations | Talks to |
| --- | --- | --- | --- |
| Matching engine (`common/matchengine`) | two price-sorted maps of FIFOs | `PushOrder` (`Match`, `Rest`, `Cancel`), `ExtractOrderBook` | called by the engine thread |
| Inbound queue (`common/concurrentqueue.hpp`) | deque, mutex, condition variable | `Push`, `WaitPop` | io thread to engine thread |
| Server (`server/`) | sessions of both channels, cached book, id counters | `MdListener`, `MdWriter`, `MdWatch`, `OeListener`, `OeReader`, `OeWriter`, `EngineLoop`, the handler it posts, `Stop` | coroutines on one io thread, plus the engine thread |
| Client base (`common/baseclient`) | per side: state, price, quantity, pending target; sequence numbers; `inflight_` | `Reconcile`, `SendOrder`, `OeReader`, `MdReader`, connect, `Stop` | two sockets to the server |
| Quoting client (`client/`) | Q and N | `OnOrderBook` (`CalcBestPrice`) | drives `Reconcile` for both sides |
| Consumer (`consumer/`) | mid | `TickLoop`, `OnOrderBook` | drives `Reconcile` for a random side |
| Lifecycle (`keyboardinput.hpp`, mains) | objects of `main`, terminal mode | construction, key watcher or signal, stop, destruction | calls `Stop`, `io.stop` |
| Logger (`common/logger`) | level, mutex, console, shared file | `log`, `write` | called by all threads |
| Latency log, utilities, scripts | files | output only | everything |

An order goes: client `SendOrder`, TCP, server `OeReader`, inbound queue,
`EngineLoop` (`PushOrder`), posted handler on the io thread, `SendOrderResults`
into a session queue, `OeWriter`, TCP, client `OeReader`. If the order changed
the book, the same posted handler updates `latest_book_` and broadcasts it; a
slow subscriber only keeps the newest snapshot.

What is hard: two threads with a condition variable and a stop token; coroutines
that test a flag, suspend and are overtaken; results that cross cancels on the
wire, and books that overtake results on another connection; sessions that end
while results are on their way; a client state machine that only learns of its
order through a stream of results, and whose own orders are part of the book it
follows; synchronous writes into full buffers; destruction while a thread runs.

What makes each part correct:

- engine: price-time priority, uncrossed book, no empty level, exact dirty flag;
- queue: a FIFO that loses neither orders nor wakeups, and drains before exit;
- server: one writer per socket, results in order and exactly once, every
  subscriber ends up with the current book;
- client: at most one order per side, an exact count of its quantity, no wait
  that never ends, no leaked latency entry, also when the server goes away;
- policies: the target is N ticks behind the Q-th lot of the engine's book,
  through a text snapshot with narrow fields; the mid is inside the spread;
- closed loop: once all is quiet, what rests is at the target of the current book,
  and the published book has the orders that the processes count;
- lifecycle: what the engine thread uses outlives it, the terminal is restored,
  every process that starts to end does end;
- logger: whole lines, in one order on console and in the file.

## Modules

| Module | Models | Remarks |
| --- | --- | --- |
| `Protocol` | enums, results, side order, `is_cross` | shared vocabulary |
| `MatchingEngine` | `PushOrder`, one step per inner-loop iteration | `book["kBuy"]`, `book["kSell"]` are `bids_`, `asks_`; `before` is a history variable |
| `PriceTime` | the outcome of an order, without loops | each side is one sequence in priority order; `TradedUpTo` is what an order trades with the first n of it |
| `PriceTimeMarket` | abstract engine: an order executes in one step | `MatchingEngine` implements it |
| `MCMatchingEngine` | instance and refinement mapping | `Flatten` reads a map of FIFOs as one sequence |
| `MatchingEngineProofs` | theorems on the engine | |
| `OrderChannel` | abstract FIFO with close | |
| `ConcurrentQueue` | queue, io thread and engine thread at lock level | implements `OrderChannel` |
| `ConcurrentQueueProofs` | theorems on the queue | |
| `Server` | all coroutines of the server | books are version numbers, results are numbered per trader; an order may yield several results |
| `ServerProofs` | theorems on the server | |
| `SideState` | one side of a process: `SideState`, `Reconcile`, the switch of `OeReader` | operators only: a handler yields the new state and the orders it sends |
| `SideProtocol` | for each side of each process (a line): its state, its orders, its order on the book, its unread results | the protocol as each line lives it; when and with whom the engine trades, and which lines a step moves, is left open |
| `SideProtocolProofs` | theorems on the protocol | |
| `BaseClient` | client processes | two policies: `OnOrderBook` (client), `Tick` (consumer); targets are arguments |
| `TradingSystem` | clients, server order path, queue, engine | composes `BaseClient` with `PriceTime!Outcome`; targets are arbitrary; the server may stop at any step of a handshake or afterwards |
| `TradingProofs` | theorems on `TradingSystem` | that it implements `SideProtocol`, and what follows |
| `OrderBook` | `ExtractOrderBook`, `PutField`, `GetField`, `Parse`, `BestSidePrice`, `CalcBestPrice`, mid, draws of a tick | operators only; a field is a sequence of digits, blank when the value does not fit |
| `MarketData` | the engine's book, the snapshot, a consumer's mid | compares what a process computes from the text with the engine's own queues |
| `MarketMaking` | `TradingSystem` with the market data channel | targets come from the book a process has read |
| `MCMarketMaking` | instance: Q and N of the client | |
| `LifecycleProofs`, `LoggerProofs` | theorems on `Lifecycle` and `Logger` | |
| `SequenceLemmas` | lemmas on concatenation, flattening, filters written as a flattening (`Through`), `RemoveAt`, least naturals | used by the proofs |
| `Lifecycle` | the three `main` functions, `KeyboardInput`, signal waits, `BaseClient::Run`, destructors | `built` is the stack of objects; orders and sessions are only counted |
| `Backpressure` | all packet buffers between processes and server | packets are only counted |
| `Logger`, `MCLogger` | `log`, `write`, the shared file | a line is a process and a number |

`TradingSystem` uses the abstractions that the other modules justify:
`inbound` is the FIFO that `ConcurrentQueue` implements, the engine is the
outcome that `MatchingEngine` implements, and `down[c]` merges the session queue
with the TCP stream, which `Server`'s `ResultsInOrder` allows. `MarketMaking`
adds `feed[c]`, the market data stream with the pending snapshot of the session
at its end. It replaces no action of `TradingSystem`: by construction each of its
steps is a step of `TradingSystem` with a target computed from a book, or leaves
that part alone. The targets of `TradingSystem` are arbitrary, an ask target below
the bid target included: a best ask that is too wide for its field is read as 0,
and the client then offers at N, possibly through its own bid. So what is checked
for arbitrary targets covers the closed loop. `SideProtocol` is what is left of `TradingSystem` when one looks
at the sides of the processes one by one. Its variables are functions on `Lines`,
and `TradingSystem` follows it for every line at once (`FollowsProtocol`, with
`NoOrder` and empty streams while a process is not connected). An order that
trades with several others moves several lines in one step, so a step of
`SideProtocol` moves any set of lines. The implementation is checked and proved:
what is proved of a line of `SideProtocol` holds for each side in `TradingSystem`.

`TradingSystem` has two specifications. `Spec` bounds the number of targets
(`MaxTargets`) and serves safety and the proofs, which hold for every bound.
`FairSpec` has no such bound (`EndlessNext`) and serves liveness. `next_seq_` wraps
at `SeqRange`, which is 2^32 in the code. Without latency measurement nothing
depends on the numbers, so `SeqRange` = 1 makes the endless system finite.

Definitions such as `SetLevelKeepEmpty`, `PushFront`, `ReconcileAtOnce` or
`OfferTwoWriters` are deliberately wrong variants that no specification uses.
Each stands in for the correct definition that follows it, to show that a
property fails when the code has that bug (`mutants` in `PROJECT.json`).

### What one step is

- Engine: `PushOrder` records the call; each fill is a step; `Rest`,
  `FullyMatched`, `CancelFound`, `CancelMissing`, `RejectInvalid` return. Only
  the engine thread touches the book, so this grain serves the properties inside
  a call, not concurrency.
- Queue: a critical section is one step. The notification is a step of its own,
  after the lock is released, as in `Push`; `request_stop` sets the flag in one
  step and notifies in the next. `condition_variable_any::wait` is external: it
  decides under the lock, gives the lock up and blocks in one step, and may wake
  spuriously.
- Server: a handler runs from one resumption to the next `co_await`. `wr` holds
  one entry per live writer coroutine, so that a second writer is a state the
  model can reach. A spawned coroutine may start at once or later. Writes to a
  peer that has gone may succeed or fail.
- Client: a handler is a step, with all the orders it sends. When a process
  stops, what it has written may still arrive, or be lost with a reset. When the
  server stops, streams end and later writes succeed or fail; both only log.
- Market data: `Quote` is one round of `MdReader` in a client with the
  `Reconcile` of both sides. Whether the last snapshot of a stream is already
  being written when a newer one comes is a choice of `BroadcastOrderBook`.
- Integers: `AsInt` wraps at `IntMax`, as the code does when built without
  overflow checks. Overflow of a level's sum is undefined in C++; the properties
  that read sums assume that they fit.
- Lifecycle: the construction or destruction of one object is a step. A failing
  `bind` leaves `main` by an exception, without destructors. `io.run` returns
  after `io.stop` or when no operation is pending (`Work`).
- Backpressure: a handler chooses the orders it will send (`Handle`), then each
  synchronous write is a step that waits for room.
- Logger: `printf`, each insertion and `flush` are steps under the mutex.

## Runs

| Run | Configuration | Shows |
| --- | --- | --- |
| `engine` | 2 clients, prices 0..2, quantities -1, 0, 1, 3, at most 3 resting orders | types, `NoCrossedBook`, `LevelsLive`, `NoTradeThrough`, `DirtyIffChanged`; `ImplementsMarket`, with liveness: every call returns |
| `queue` | 2 orders, 4 pushes | `WakeupDue`, `ExitDrained`, `ImplementsChannel` |
| `server` | 1 subscriber, 2 traders, 2 orders, 1 result of an order for a trader | `OneWriter`, `ResultsInOrder`, `NothingStranded`, `BooksAdvance`, `EverySubscriberCatchesUp`, `EveryResultArrives` |
| `trading_safety` | 1 client, 1 consumer that may leave, orders of 2 lots and of 1 or 2, a server that may stop, 3 targets | `OneOrderPerSide`, `ExposureExact`, `InflightAnswered`, `InflightBounded`, `BacklogBounded` |
| `trading_protocol` | the same, 2 targets | `FollowsProtocol` |
| `trading_liveness` | 1 client with orders of 2 lots, a server that may stop, targets without end | `WaitEnds` |
| `trading_pending` | 1 client, 2 targets | violation: `PendingKept` |
| `market_view` | 2 layers, one-digit fields, prices up to 12, quantities up to 8, 4 resting orders, several Q and N | `TargetIsQthLot`, `TargetFound`, `MidInsideSpread` |
| `market_making` | 1 client that quotes without end, 1 consumer with one tick, streams of 2 snapshots | `QuietAtTarget`, `QuietBookAgrees` |
| `lifecycle` | server, 1 client, 1 consumer, 1 order | `EngineUsesLiveObjects`, `TerminalRestored`, `EndsForSure`, `OrphanExits` |
| `backpressure` | 2 processes, buffers of 1 packet, 4 orders | `BlockedWriteEnds` |
| `logger` | 2 processes with 2 threads, 4 calls | `LogsAgree` |

Bounds. Three resting orders give two levels of a side and a FIFO of two; a
quantity of 3 sweeps all of them, so one call crosses levels, stops at its limit
and rests a remainder. Price 0 and quantity -1 reach the reject branch. With
the cached book that a new subscriber gets, two orders let a second snapshot
replace a pending one during a write. A client's two quotes may cross, so two
targets are enough for a cancel that meets a fill under way: the bid rests, the
client's own ask fills it, and the client changes its mind before it has read the
fill. Three let the new order follow the stale cancel, or another process be the
one that trades. In `trading_liveness` no bound stops the targets: each wait has to end
while a side is kept busy for ever. That is why `WaitEnds` is stated for each wait
by itself. A handler may take a side from `kWaitAccepted` to `kWaitCanceled` and
another one back, so it need never leave the two together, but no handler leads
from a wait to the same wait. Fields of one
digit make 10 and more the first value that does not fit, so two orders of 8 at a
price blank a quantity and price 12 blanks a price; an `IntMax` of 31 lets
`best + n` overflow. With two layers and four resting orders a level is cut off
while the other side is not empty. In `market_making` the client is not bounded
either; one tick of the consumer is enough to trade with the client's quote,
partially or wholly, take a seed level or improve the price. It may leave only the
seed at 10, whose price does not fit. Two snapshots per stream are one on
the wire and one in `pending`. Two packets queued for a buffer of one fill every
direction. One order in `Lifecycle` is still in `inbound_` when the destructors
run. One result per order and trader lets two orders put two results into a queue;
the theorems on `Server` cover more. `MaxResting`, `MaxPushes`, `MaxOrders`,
`MaxResults`, `MaxTargets`, `MaxTicks`,
`MaxCalls`, `Stoppable` and `ServerMayStop` only bound what the environment does;
`MaxFeed` and `BufferLen` are the room in a TCP connection. Deadlock is checked
for the engine and for `MarketData`, which always accept another order; the other
systems rest when the environment has nothing more to send.

Fairness. Weak fairness of each thread's ready steps: the operating system
schedules both threads of the server, and asio runs ready handlers. Completion
of a write to a connected peer is fair because `MdReader` and `OeReader` of the
client read in a loop. No fairness is assumed of orders, targets, connections,
departures, spurious wakeups or the stop. In `Lifecycle` the threads and the
network are fair (a connect is answered or refused, a closed connection is
noticed); keys, signals, orders and failures are not. In `Backpressure` the
server's coroutines are resumed when their sockets are ready and a blocked write
goes on when there is room, but no process need ever read: `BlockedWriteEnds`
holds because the server's reader never waits for its writers. `MarketMaking`
has no fairness; see the feedback loop below.

### Findings

- `trading_pending`: `baseclient.cpp:92` and `:161` say that a price change is a
  cancel followed by a requote at the target kept in `pending`. When the target
  came before `kAccepted`, `OeReader` calls `Reconcile`, which stores the target
  in `pending`, and then clears `pending` (`:94`). After `kCancelled` the side
  stays idle until the next target.

### Observations

Met while modelling; no run is spent on them.

- A target that is in `pending` when the order is filled completely is not used:
  `kSuccess` makes the side idle without a look at `pending`
  (`baseclient.cpp:114`-`116`). It happens when the order trades on arrival, or
  when a book with a new price overtakes the fill. `baseclient.cpp:115` says that
  the new order comes with the next target, so a side may stay without an order
  until another book comes although `baseclient.hpp:26` speaks of one order kept
  per side. `QuietAtTarget` allows for it.

- `PutField` (`matchengine.cpp:12`) leaves a price that is too wide blank and the
  quantity of its level in place, so the view is not sorted by price as
  `matchengine.hpp:10` and `strategy.hpp:13` say: it has a level of price 0 with a
  quantity. `TargetIsQthLot` states the consequence (`ReadAs`): the client would
  offer at N.
- `consumer.hpp:3` and `definitions.hpp:47` say that a consumer draws prices around
  the seed mid; `consumer.cpp:39` draws them around the current mid.
- `protocol.hpp:67` says that a reject carries the quantity of the rejected order;
  `matchengine.cpp:40` sends 0. No client reads the field.
- `keyboardinput.hpp:60` says that an error of the read ends `io.run`; it only ends
  the watcher, and a server or client with open connections goes on.
- A client follows a book that holds its own orders. With the only quote on a
  side, it cancels because of a book without the quote and requotes because of
  the book with it, for as long as nobody else trades. Hence no property says
  that the loop settles; `QuietAtTarget` and `QuietBookAgrees` are about the states
  in which it has, and `WaitEnds` about each wait in it.
- A lost connection is never opened again, `oe_ready_` is not reset, and a
  consumer keeps ticking without a server; `InflightBounded` shows that this costs
  a bounded number of latency entries. A client whose watcher has ended does exit
  (`OrphanExits`); a consumer needs its signal.
- `Server::Stop` uses the throwing overloads of `close`; an exception there would
  skip `request_stop` and `io.stop`.
- The raw terminal keeps `ISIG` and the server and the client install no handler,
  so Ctrl-C leaves the terminal raw. `TerminalRestored` is about processes that
  end by themselves.

## Proofs

All proofs hold for every value of the constants: any number of processes,
orders, results and calls, any prices and quantities. They use the assumptions
`EngineAssumption` (prices and quantities are int32, sequence numbers are
naturals), `QueueAssumption`, `ServerAssumption` (subscribers are not traders),
`LoggerAssumption` (every process has a log level), `LifecycleAssumption`,
`ClientAssumption` (order quantities are positive) and `SystemAssumption` (targets
are integers, the seed book is finite and is no process's); `SeqRange` is any positive number; the bounds `MaxPushes`, `MaxOrders`, `MaxResults` and
`MaxCalls` need only be naturals, `MaxTargets` not even that. In each module `IInv` is the inductive
invariant and one lemma per action, or per kind of session, says that a step
preserves it.

`MatchingEngineProofs`: `IInv` is the conjunction of `TypeOK`, `NoCrossedBook`,
`LevelsLive`, `NoTradeThrough` and `DirtyInv`. The parts need one another:
`NoCrossedBook` is preserved by `Rest` because `begin()` of a non-empty map
exists (`BeginExists`, from the well-foundedness of the naturals, since keys are
positive int32) and did not cross; `NoTradeThrough` is preserved because a fill
is at `begin()` and levels only disappear during a match. `DirtyIffChanged` is
not inductive: that several fills do not restore the old book needs `DirtyInv`,
which says that some opposite level has become shorter, or as long with less
quantity at its front. The theorems are `TypeCorrect`, `NeverCrossed`,
`AlwaysLive`, `NeverTradesThrough` and `DirtyExact`.

`ConcurrentQueueProofs`: `IInv` adds to the checked properties that every pushed
order is queued, in the engine's hands, or served (`Conserved`). `TypeCorrect`,
`NoLostWakeup`, `ExitsDrained`, and `ImplementsFifo`: every step maps to a step of
`OrderChannel` or to a stutter.

`ServerProofs`: the checked properties say too little to be inductive. `MdOK`
says of a market data session that it has no writer and nothing pending, or a
writer that has not started and a pending book, or one that writes a book at
least as new as the one last seen and no newer than the pending one; and that
the newest of these is `latest_book_` while the session is registered. `OeOK` says the
same of a trader's queue, whose first result is the one being written, and that
what the trader has read, the queue, and the results in the handlers still
posted are together all its results (`Rest` flattens the handlers).
`SentByRegistered` is needed for a trader's first result: only a session that
was registered, and so gets its results, has sent orders. `SnapshotsAscend` orders
the snapshots in posted handlers, which `BooksOnlyAdvance` needs. `WritersExclusive`,
`ResultsDelivered` and `NoneStranded` follow from `IInv`; `BooksOnlyAdvance`
needs the step as well.

`SideProtocolProofs`: each line is in one of eight phases (`Phase`): idle; new order
sent; traded completely before any `kAccepted`; accepted, but not known to be;
resting; cancel sent; cancelled; or filled before the cancel arrived. Each
phase says what is on the book, which orders are under way and which results
are unread; the sum of the fills among these plus what rests is the quantity
the process still counts. A stale cancel, or its reject, may be left over in the
idle phase and precede the next order, no further: there is never a second.
`Inductive` says that no step leaves the phases. The critical ones: the
fills before `kAccepted` leave something (`AcceptedAt`), so they do not make
the side idle before `kAccepted` puts it into `kResting`; and the reject of a cancel
that came too late is behind the fills that make the side idle (`Missed`).
`OneOrderInSystem`, `CountIsExact` and
`BacklogSmall` follow. The sum of fills is a recursive function; that it exists, is monotone,
and splits at any place (`FilledShift`) is proved by the least counterexample,
without an induction principle.

`TradingProofs`: `TradingSystem` implements `SideProtocol`. The state of a line is
read off the system by views that select: `OrdersOn` of `Queued` and the stream,
`RestingFor` of the priority sequence, `ResultsOn` of the stream and the posted
vectors. All of them are flattenings, so `SequenceLemmas` shows once how a
selection meets append, tail, removal and insertion. What the engine does to the
views is `OutcomeLine`: with at most one order of the process on the side, an
order of somebody else, of the other side or of the process itself leaves a line
alone, fills its resting order, answers its cancel, or executes its new order
with fills that add up (`TakerLine`, `MakerLine`, `BystanderLine`: a taker's
fills go to the taker's side only, and a process that trades with itself has two
lines that move). The premise is what makes this circular: one order per side is
a theorem about `SideProtocol`, and is needed to show that a step follows
`SideProtocol`. `SysInv` breaks the circle. Its third part says that every line is
in one of its phases now (`P!IInv`), which gives the premise for the next step,
which follows the protocol and so leads to a phase again. Its second part,
`Connections`, is needed when a process becomes connected: it then has to start
with empty streams and no order in the book, hence nothing of a process that is
not ready is in the inbound queue, the book or the posted results (`NoTrace`), and no
order of it is read before its session is registered. Its first part is types, with
what makes the engine accept an order: a positive price. `SystemInductive` is
`Spec => []SysInv`; `ImplementsProtocol` is the refinement `Spec =>
FollowsProtocol`; `OneOrderOnEachSide`, `CountsAreExact` and `BacklogsAreBounded` are
the invariants of the run `trading_safety` for any number of processes and orders.

`LifecycleProofs`: the objects of a process are a prefix of `Objects`, so their
number says which exist (`Stacked`); the engine thread runs only below the
fifth (`EngineOwned`), and a raw terminal belongs to a full stack (`PhaseOK`).
`EngineSafe` and `TerminalSafe`.

`LoggerProofs`: a thread inside `write` is alone in its process, and its place
says what of its line is on the console, in the stream and in the file;
`WholeLines` says that each text in the file is followed by its newline. `MutualExclusion`
and `LogsReadable`, the latter by lemmas on the lines of a process in a file
to which another is appended.

Model-checked only:

- liveness, everywhere;
- `InflightAnswered` and `InflightBounded`, which are about sequence numbers, and
  `TradingSystem`'s `TypeOK`, which bounds the counts of a side also after the server
  has gone: the protocol leaves both out;
- the refinement of the engine (`ImplementsMarket`), whose mapping sums and
  flattens sequences;
- `OrderBook` and `MarketData` (sums and digits, and recursion over the text),
  `MarketMaking`, `Backpressure`.

## Not modelled

- The text of log lines and their tag (`SetInstanceId`), the latency file, argument
  parsing, the printed book (`util`), `pch.hpp`, scripts: output, constants and
  build files without state that a property could be about.
- The ticker field of the snapshot, which no process reads.
- The distribution of a consumer's draws: every draw of positive probability may
  happen. Time: a tick may come whenever its timer could have expired.
- A process that is killed, errors of `close`, and failures of memory allocation.
- Bytes: TCP streams are sequences of whole packets, as `async_read` of a fixed
  size makes them.

## Plan

1. Done: engine with refinement and proofs, queue with refinement and proofs,
   server sessions, client state machine and its composition with the server.
2. Done: snapshot codec and policies (`OrderBook`, `MarketData`), the closed loop
   (`MarketMaking`), failure of the server, full buffers, lifecycle, logger.
3. Done: proofs about `Server`, `Lifecycle`, `Logger` and the order protocol of a
   side.
4. Done: `TradingSystem` implements `SideProtocol`; its invariants from the protocol's.
5. To prove: `InflightAnswered` and `InflightBounded`, by an invariant on the sequence
   numbers under way of each side; `QuietAtTarget` of `MarketMaking`; the field codec of
   `OrderBook`, as far as it needs no induction over digits.
