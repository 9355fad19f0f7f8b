----------------------------- MODULE Lifecycle -----------------------------
(***************************************************************************)
(* Start and end of the processes: the main functions, KeyboardInput,      *)
(* BaseClient::Run with its connections, Server::Stop and the destructors. *)
(*                                                                         *)
(* A main function builds its objects in order, calls io.run and destroys  *)
(* them in reverse order.  io.run returns when io.stop was called or when  *)
(* no asynchronous operation is left.  A server or a Client ends on the    *)
(* key 'q', a Consumer on a signal.                                        *)
(***************************************************************************)
EXTENDS Naturals, Sequences, SequencesExt

CONSTANTS
    Srv,         \* the server process
    Quoters,     \* Client processes
    Takers,      \* Consumer processes
    MaxOrders    \* bound: orders read by the server

Clients == Quoters \cup Takers

Process == {Srv} \cup Clients

ASSUME LifecycleAssumption ==
    /\ Srv \notin Clients /\ Quoters \cap Takers = {} /\ MaxOrders \in Nat

VARIABLES
    main,        \* where each main function is
    built,       \* the objects of each process, in order of construction
    stopped,     \* io.stop was called
    watching,    \* processes whose Watch coroutine or signal wait is pending
    raw,         \* processes whose terminal is in raw mode
    listening,   \* listeners of the server that still accept
    sessions,    \* client and channel of the connections the server has accepted
    engine,      \* the engine thread
    stop_requested,
    inbound,     \* orders in inbound_
    orders,      \* number of orders read so far
    run,         \* what BaseClient::Run waits for
    oe_ready,    \* clients that have their id
    reading,     \* channels with a pending read
    ticking      \* Consumers whose TickLoop runs

serverVars == <<listening, sessions, engine, stop_requested, inbound, orders>>
clientVars == <<run, oe_ready, reading, ticking>>
mainVars == <<main, built, stopped, watching, raw>>
vars == <<mainVars, serverVars, clientVars>>

-----------------------------------------------------------------------------
(* Construction and destruction. *)

\* The engine thread declared before what it uses.
ObjectsThreadFirst(p) ==
    IF p = Srv THEN <<"io", "acceptors", "engine_thread_", "engine_", "inbound_", "quit">>
    ELSE <<"io", "client", "quit">>

\* The terminal made raw before anything can fail.
ObjectsQuitFirst(p) ==
    IF p = Srv THEN <<"io", "quit", "acceptors", "engine_", "inbound_", "engine_thread_">>
    ELSE <<"io", "client", "quit">>

\* Locals of main and, in their place, the members of the Server.
Objects(p) ==
    IF p = Srv THEN <<"io", "acceptors", "engine_", "inbound_", "engine_thread_", "quit">>
    ELSE <<"io", "client", "quit">>

NextObject(p) == Objects(p)[Len(built[p]) + 1]

Construct(p) ==
    /\ main[p] = "start" /\ Len(built[p]) < Len(Objects(p))
    /\ built' = [built EXCEPT ![p] = Append(@, NextObject(p))]
    /\ IF NextObject(p) = "quit"
       THEN watching' = watching \cup {p} /\ raw' = raw \cup ({p} \ Takers)
       ELSE UNCHANGED <<watching, raw>>
    /\ engine' = IF NextObject(p) = "engine_thread_" THEN "serving" ELSE engine
    /\ listening' = IF NextObject(p) = "engine_thread_" THEN {"md", "oe"} ELSE listening
    /\ run' = IF NextObject(p) = "client" THEN [run EXCEPT ![p] = "oe"] ELSE run
    /\ UNCHANGED <<main, stopped, sessions, stop_requested, inbound, orders, oe_ready, reading, ticking>>

\* The port is in use: the exception leaves main, no destructor runs.
ConstructFails ==
    /\ main[Srv] = "start" /\ Len(built[Srv]) < Len(Objects(Srv))
    /\ NextObject(Srv) = "acceptors"
    /\ main' = [main EXCEPT ![Srv] = "failed"]
    /\ UNCHANGED <<built, stopped, watching, raw, serverVars, clientVars>>

CallRun(p) ==
    /\ main[p] = "start" /\ built[p] = Objects(p)
    /\ main' = [main EXCEPT ![p] = "run"]
    /\ UNCHANGED <<built, stopped, watching, raw, serverVars, clientVars>>

\* A work guard that nobody resets.
WorkGuarded(p) == main[p] = "run"

\* Operations that keep io.run from returning.
Work(p) ==
    \/ p \in watching
    \/ p = Srv /\ (listening # {} \/ sessions # {})
    \/ p \in Clients /\ (run[p] # "up" \/ reading[p] # {} \/ p \in ticking)

RunReturns(p) ==
    /\ main[p] = "run" /\ (stopped[p] \/ ~Work(p))
    /\ main' = [main EXCEPT ![p] = "returned"]
    /\ UNCHANGED <<built, stopped, watching, raw, serverVars, clientVars>>

\* A join that does not request the stop.
JoinEngineOnly == main[Srv] = "returned" /\ UNCHANGED vars

\* The destructor of std::jthread requests the stop ...
JoinEngine ==
    /\ main[Srv] = "returned" /\ built[Srv] # <<>> /\ Last(built[Srv]) = "engine_thread_"
    /\ ~stop_requested
    /\ stop_requested' = TRUE
    /\ UNCHANGED <<mainVars, listening, sessions, engine, inbound, orders,
                   clientVars>>

\* ... and waits for the thread.  ~KeyboardInput restores the terminal.
Destroy(p) ==
    /\ main[p] = "returned" /\ built[p] # <<>>
    /\ Last(built[p]) = "engine_thread_" => stop_requested /\ engine = "exited"
    /\ built' = [built EXCEPT ![p] = Front(@)]
    /\ raw' = IF Last(built[p]) = "quit" THEN raw \ {p} ELSE raw
    /\ UNCHANGED <<main, stopped, watching, serverVars, clientVars>>

Exit(p) ==
    /\ main[p] = "returned" /\ built[p] = <<>>
    /\ main' = [main EXCEPT ![p] = "exited"]
    /\ reading' = IF p = Srv THEN reading ELSE [reading EXCEPT ![p] = {}]
    /\ UNCHANGED <<built, stopped, watching, raw, serverVars, run, oe_ready, ticking>>

-----------------------------------------------------------------------------
(* Keys and signals. *)

\* 'q' or SIGTERM: the callback calls Stop and io.stop.
Callback(p) ==
    /\ main[p] = "run" /\ ~stopped[p] /\ p \in watching
    /\ watching' = watching \ {p}
    /\ stopped' = [stopped EXCEPT ![p] = TRUE]
    /\ IF p = Srv
       THEN /\ listening' = {} /\ sessions' = {} /\ stop_requested' = TRUE
            /\ UNCHANGED <<engine, inbound, orders, clientVars>>
       ELSE /\ reading' = [reading EXCEPT ![p] = {}]
            /\ ticking' = ticking \ {p}
            /\ UNCHANGED <<serverVars, run, oe_ready>>
    /\ UNCHANGED <<main, built, raw>>

\* The read of stdin fails, as at its end: Watch just returns.
WatchFails(p) ==
    /\ main[p] = "run" /\ ~stopped[p] /\ p \in watching \ Takers
    /\ watching' = watching \ {p}
    /\ UNCHANGED <<main, built, stopped, raw, serverVars, clientVars>>

-----------------------------------------------------------------------------
(* The server. *)

ServerUp == main[Srv] = "run" /\ ~stopped[Srv]

\* async_accept fails, for instance for want of descriptors: the listener ends.
AcceptFails(ch) ==
    /\ ServerUp /\ ch \in listening
    /\ listening' = listening \ {ch}
    /\ UNCHANGED <<mainVars, sessions, engine, stop_requested, inbound,
                   orders, clientVars>>

\* OeReader or MdWatch: the client has closed its end.
SessionEnds(c, ch) ==
    /\ ServerUp /\ <<c, ch>> \in sessions /\ ch \notin reading[c]
    /\ sessions' = sessions \ {<<c, ch>>}
    /\ UNCHANGED <<mainVars, listening, engine, stop_requested, inbound,
                   orders, clientVars>>

ReadOrder(c) ==
    /\ ServerUp /\ <<c, "oe">> \in sessions /\ orders < MaxOrders
    /\ inbound' = inbound + 1 /\ orders' = orders + 1
    /\ UNCHANGED <<mainVars, listening, sessions, engine, stop_requested,
                   clientVars>>

\* The engine thread: WaitPop, PushOrder, post; it drains inbound_ and exits.
EngineStep ==
    /\ engine = "serving"
    /\ \/ inbound > 0 /\ inbound' = inbound - 1 /\ UNCHANGED engine
       \/ inbound = 0 /\ stop_requested /\ engine' = "exited" /\ UNCHANGED inbound
    /\ UNCHANGED <<mainVars, listening, sessions, stop_requested, orders,
                   clientVars>>

-----------------------------------------------------------------------------
(* BaseClient::Run and the readers. *)

\* ConnectOrderEntry waits for the id that OeListener sends.  A connection that
\* fails is not tried again, and Run goes on.
ConnectOrderEntry(c) ==
    /\ main[c] = "run" /\ ~stopped[c] /\ run[c] = "oe"
    /\ run' = [run EXCEPT ![c] = "md"]
    /\ \/ /\ ServerUp /\ "oe" \in listening
          /\ oe_ready' = oe_ready \cup {c}
          /\ reading' = [reading EXCEPT ![c] = {"oe"}]
          /\ sessions' = sessions \cup {<<c, "oe">>}
       \/ ~ServerUp /\ UNCHANGED <<oe_ready, reading, sessions>>
    /\ UNCHANGED <<mainVars, listening, engine, stop_requested, inbound,
                   orders, ticking>>

\* ConnectMarketData does not wait for MdListener.  OnReady starts TickLoop.
ConnectMarketData(c) ==
    /\ main[c] = "run" /\ ~stopped[c] /\ run[c] = "md"
    /\ run' = [run EXCEPT ![c] = "up"]
    /\ reading' = IF ServerUp THEN [reading EXCEPT ![c] = @ \cup {"md"}] ELSE reading
    /\ sessions' = IF ServerUp /\ "md" \in listening THEN sessions \cup {<<c, "md">>} ELSE sessions
    /\ ticking' = IF c \in oe_ready THEN ticking \cup ({c} \cap Takers) ELSE ticking
    /\ UNCHANGED <<mainVars, listening, engine, stop_requested, inbound,
                   orders, oe_ready>>

\* The server is gone: OeReader and MdReader return.
ReaderEnds(c, ch) ==
    /\ main[c] = "run" /\ ~ServerUp /\ ch \in reading[c]
    /\ reading' = [reading EXCEPT ![c] = @ \ {ch}]
    /\ UNCHANGED <<mainVars, serverVars, run, oe_ready, ticking>>

-----------------------------------------------------------------------------
Init ==
    /\ main = [p \in Process |-> "start"]
    /\ built = [p \in Process |-> <<>>]
    /\ stopped = [p \in Process |-> FALSE]
    /\ watching = {} /\ raw = {} /\ listening = {} /\ sessions = {}
    /\ oe_ready = {} /\ ticking = {}
    /\ engine = "none" /\ stop_requested = FALSE /\ inbound = 0 /\ orders = 0
    /\ run = [c \in Clients |-> "none"]
    /\ reading = [c \in Clients |-> {}]

MainStep(p) == Construct(p) \/ CallRun(p) \/ RunReturns(p) \/ Destroy(p) \/ Exit(p)

NetStep(c) ==
    \/ ConnectOrderEntry(c) \/ ConnectMarketData(c)
    \/ \E ch \in {"oe", "md"} : ReaderEnds(c, ch) \/ SessionEnds(c, ch)

Next ==
    \/ \E p \in Process : MainStep(p) \/ Callback(p) \/ WatchFails(p)
    \/ \E c \in Clients : NetStep(c) \/ ReadOrder(c)
    \/ \E ch \in {"oe", "md"} : AcceptFails(ch)
    \/ ConstructFails \/ JoinEngine \/ EngineStep

Spec == Init /\ [][Next]_vars

(***************************************************************************)
(* Threads that can go on do, and the network answers; keys, signals,      *)
(* orders and failures come or do not come.                                *)
(***************************************************************************)
Fairness ==
    /\ \A p \in Process : WF_vars(MainStep(p))
    /\ \A c \in Clients : WF_vars(NetStep(c))
    /\ WF_vars(JoinEngine) /\ WF_vars(EngineStep)

FairSpec == Spec /\ Fairness

-----------------------------------------------------------------------------
(***************************************************************************)
(* The engine thread uses inbound_, engine_ and the io_context until its   *)
(* end, also while main is already destroying the Server and the queue is  *)
(* drained: none of them is destroyed before.                              *)
(***************************************************************************)
EngineUsesLiveObjects ==
    engine = "serving" => {"io", "engine_", "inbound_"} \subseteq ToSet(built[Srv])

(***************************************************************************)
(* A process that ends by itself leaves the terminal as it was, also when  *)
(* the server cannot bind its ports and no destructor runs.                *)
(***************************************************************************)
TerminalRestored == \A p \in Process : main[p] \in {"exited", "failed"} => p \notin raw

(***************************************************************************)
(* Whatever made io.run return (a key, a signal, or no work left without   *)
(* Server::Stop), the destructors finish and the process ends.             *)
(***************************************************************************)
EndsForSure ==
    \A p \in Process : (stopped[p] \/ main[p] = "returned") ~> main[p] = "exited"

Orphaned(c) == main[c] = "run" /\ c \notin watching /\ main[Srv] = "exited"

(***************************************************************************)
(* A Client that can no longer be stopped with the key ends by itself once *)
(* the server has ended.                                                   *)
(***************************************************************************)
OrphanExits == \A c \in Quoters : Orphaned(c) ~> main[c] = "exited"

=============================================================================
