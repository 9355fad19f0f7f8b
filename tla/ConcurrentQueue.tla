--------------------------- MODULE ConcurrentQueue ---------------------------
(***************************************************************************)
(* common/concurrentqueue.hpp between the two threads that use it: the io  *)
(* thread pushes orders (Server::OeReader) and asks the engine to stop     *)
(* (Server::Stop); the engine thread runs EngineLoop, which blocks in      *)
(* WaitPop.                                                                *)
(*                                                                         *)
(* A critical section that only touches q_ is one step, taken when mtx_ is *)
(* free.  condition_variable_any is external: wait(lk, st, pred) holds     *)
(* mtx_ while it evaluates pred and the stop token, and gives it up and    *)
(* blocks in one step; a blocked thread runs again after a notification, or*)
(* spuriously.  The io thread notifies AFTER it has released mtx_, and     *)
(* request_stop sets the flag before it runs the callback that notifies.   *)
(***************************************************************************)
EXTENDS Naturals, Sequences

CONSTANTS
    Items,      \* InboundOrders
    MaxPushes   \* bound: orders pushed

ASSUME QueueAssumption == Items # {} /\ MaxPushes \in Nat

VARIABLES
    q,          \* q_
    mtx,        \* mtx_: "free" or held by the "engine"
    stop,       \* stop_requested() of the engine thread's token
    io,         \* where the io thread is
    engine,     \* where the engine thread is
    item,       \* EngineLoop's `item`
    served,     \* history: orders handed to the matching engine
    pushes      \* number of orders pushed

vars == <<q, mtx, stop, io, engine, item, served, pushes>>

(***************************************************************************)
(* Type invariant, with what each thread's position implies: mtx_ is held  *)
(* exactly while the engine decides in WaitPop, and the io thread pushes   *)
(* nothing once it has requested the stop.                                 *)
(***************************************************************************)
TypeOK ==
    /\ q \in Seq(Items) /\ served \in Seq(Items) /\ item \in Items
    /\ mtx \in {"free", "engine"}
    /\ stop \in BOOLEAN
    /\ io \in {"ready", "notify_one", "notify_all", "stopped"}
    /\ engine \in {"lock", "locked", "waiting", "work", "exit"}
    /\ pushes \in Nat
    /\ mtx = "engine" <=> engine = "locked"
    /\ stop <=> io \in {"notify_all", "stopped"}

-----------------------------------------------------------------------------
(* The io thread. *)

\* Push: the guarded push_back ...
Push(v) ==
    /\ io = "ready" /\ mtx = "free" /\ pushes < MaxPushes
    /\ q' = Append(q, v)
    /\ pushes' = pushes + 1
    /\ io' = "notify_one"
    /\ UNCHANGED <<mtx, stop, engine, item, served>>

Wake == engine' = IF engine = "waiting" THEN "lock" ELSE engine

\* ... then cv_.notify_one().
NotifyOneForgotten ==
    /\ io = "notify_one"
    /\ io' = "ready"
    /\ UNCHANGED <<q, mtx, stop, engine, item, served, pushes>>

NotifyOne ==
    /\ io = "notify_one"
    /\ io' = "ready"
    /\ Wake
    /\ UNCHANGED <<q, mtx, stop, item, served, pushes>>

\* Server::Stop: engine_thread_.request_stop() sets the flag ...
RequestStop ==
    /\ io = "ready"
    /\ stop' = TRUE
    /\ io' = "notify_all"
    /\ UNCHANGED <<q, mtx, engine, item, served, pushes>>

\* ... then runs the callback that wait registered.
NotifyAllForgotten ==
    /\ io = "notify_all"
    /\ io' = "stopped"
    /\ UNCHANGED <<q, mtx, stop, engine, item, served, pushes>>

NotifyAll ==
    /\ io = "notify_all"
    /\ io' = "stopped"
    /\ Wake
    /\ UNCHANGED <<q, mtx, stop, item, served, pushes>>

-----------------------------------------------------------------------------
(* The engine thread. *)

\* Take mtx_: on entry to WaitPop, or when wait has been woken.
Lock ==
    /\ engine = "lock" /\ mtx = "free"
    /\ mtx' = "engine"
    /\ engine' = "locked"
    /\ UNCHANGED <<q, stop, io, item, served, pushes>>

Unlock == mtx' = "free"

\* The predicate holds: move the front out and return true.
PopKeepsLock ==
    /\ engine = "locked" /\ q # <<>>
    /\ item' = Head(q)
    /\ q' = Tail(q)
    /\ engine' = "work"
    /\ UNCHANGED <<mtx, stop, io, served, pushes>>

Pop ==
    /\ engine = "locked" /\ q # <<>>
    /\ item' = Head(q)
    /\ q' = Tail(q)
    /\ engine' = "work"
    /\ Unlock
    /\ UNCHANGED <<stop, io, served, pushes>>

\* The predicate does not hold and a stop is requested: return false.
ReturnFalseUndrained ==
    /\ engine = "locked" /\ stop
    /\ engine' = "exit"
    /\ Unlock
    /\ UNCHANGED <<q, stop, io, item, served, pushes>>

ReturnFalse ==
    /\ engine = "locked" /\ q = <<>> /\ stop
    /\ engine' = "exit"
    /\ Unlock
    /\ UNCHANGED <<q, stop, io, item, served, pushes>>

\* Neither: give up mtx_ and block.
Block ==
    /\ engine = "locked" /\ q = <<>> /\ ~stop
    /\ engine' = "waiting"
    /\ Unlock
    /\ UNCHANGED <<q, stop, io, item, served, pushes>>

SpuriousWakeup ==
    /\ engine = "waiting"
    /\ engine' = "lock"
    /\ UNCHANGED <<q, mtx, stop, io, item, served, pushes>>

\* The body of EngineLoop: execute the order, post its results.
EngineLoop ==
    /\ engine = "work"
    /\ served' = Append(served, item)
    /\ engine' = "lock"
    /\ UNCHANGED <<q, mtx, stop, io, item, pushes>>

-----------------------------------------------------------------------------
Init ==
    /\ q = <<>>
    /\ mtx = "free"
    /\ stop = FALSE
    /\ io = "ready"
    /\ engine = "lock"
    /\ item \in Items
    /\ served = <<>>
    /\ pushes = 0

Io == NotifyOne \/ NotifyAll

Engine == Lock \/ Pop \/ ReturnFalse \/ Block \/ EngineLoop

Next ==
    \/ \E v \in Items : Push(v)
    \/ RequestStop
    \/ Io
    \/ Engine
    \/ SpuriousWakeup

Spec == Init /\ [][Next]_vars

(***************************************************************************)
(* Both threads are scheduled: the io thread finishes a notification it    *)
(* has begun and the engine thread runs when it is not blocked.  Orders,   *)
(* the stop and spurious wakeups come or do not come.                      *)
(***************************************************************************)
FairSpec == Spec /\ WF_vars(Io) /\ WF_vars(Engine)

-----------------------------------------------------------------------------
(***************************************************************************)
(* No wakeup is lost: when the engine is blocked although there is an      *)
(* order, or although a stop has been requested, the io thread has yet to  *)
(* notify it.                                                              *)
(***************************************************************************)
WakeupDue ==
    engine = "waiting" =>
        /\ q # <<>> => io = "notify_one"
        /\ stop => io = "notify_all"

(***************************************************************************)
(* The engine thread exits drained: every order that was pushed before the *)
(* stop has been executed.                                                 *)
(***************************************************************************)
ExitDrained == engine = "exit" => stop /\ q = <<>> /\ Len(served) = pushes

\* The refinement mapping: Take is the pop.
Channel == INSTANCE OrderChannel WITH
    buf    <- q,
    taken  <- IF engine = "work" THEN Append(served, item) ELSE served,
    closed <- stop,
    left   <- engine = "exit"

(***************************************************************************)
(* The mutex, the condition variable and the stop token implement the FIFO *)
(* that TradingSystem takes inbound_ for: nothing lost, duplicated or      *)
(* reordered, every order taken, and the engine leaves after a stop.       *)
(***************************************************************************)
ImplementsChannel == Channel!FairSpec

=============================================================================
