-------------------------- MODULE PriceTimeMarket ---------------------------
(***************************************************************************)
(* What MatchingEngine::PushOrder promises: an order executes in a single  *)
(* step, with the outcome that price-time priority prescribes.  The        *)
(* loop-level engine of MatchingEngine implements this specification, and  *)
(* TradingSystem composes the clients with its Outcome.                    *)
(***************************************************************************)
EXTENDS PriceTime

CONSTANTS Clients, Prices, Qtys, Seqs

VARIABLES
    queue,    \* per side, the resting orders in priority order
    busy,     \* an order has been submitted and not yet executed
    order,    \* the order submitted last, with its client_id
    out,      \* the results of the order executed last
    dirty     \* it changed the book

vars == <<queue, busy, order, out, dirty>>

-----------------------------------------------------------------------------
Init ==
    /\ queue = [s \in Side |-> <<>>]
    /\ busy = FALSE
    /\ \E c \in Clients : order = [client_id |-> c, side |-> "kBuy", price |-> 0,
                                   qty |-> 0, seq |-> 0]
    /\ out = <<>>
    /\ dirty = FALSE

Submit(c, s, p, q, n) ==
    /\ ~busy
    /\ busy' = TRUE
    /\ order' = [client_id |-> c, side |-> s, price |-> p, qty |-> q, seq |-> n]
    /\ out' = <<>>
    /\ dirty' = FALSE
    /\ UNCHANGED queue

Execute ==
    /\ busy
    /\ busy' = FALSE
    /\ LET r == Outcome(queue, order)
       IN  queue' = r.queue /\ out' = r.out /\ dirty' = r.dirty
    /\ UNCHANGED order

Next ==
    \/ \E c \in Clients, s \in Side, p \in Prices, q \in Qtys, n \in Seqs :
         Submit(c, s, p, q, n)
    \/ Execute

FairSpec == Init /\ [][Next]_vars /\ WF_vars(Execute)

=============================================================================
