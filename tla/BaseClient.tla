----------------------------- MODULE BaseClient -----------------------------
(***************************************************************************)
(* common/baseclient.cpp and the order policies of client/ and consumer/.  *)
(*                                                                         *)
(* Every trading process keeps one SideState per side (bid_ and ask_) and  *)
(* moves it towards a target price: Reconcile, driven by the book for a    *)
(* Client and by a timer for a Consumer, sends orders; OeReader applies    *)
(* the results.  All of it runs on the process's single io thread, so a    *)
(* handler is one step.  A process talks to the server over one TCP stream *)
(* per direction, up[c] and down[c].                                       *)
(*                                                                         *)
(* Which target the policies compute is left to the modules that use this  *)
(* one.  The server may go away: then what is written is lost, whether or  *)
(* not the write reports it, and OeReader returns, but oe_ready_ stays set.*)
(***************************************************************************)
EXTENDS SideState, Sequences, SequencesExt

CONSTANTS
    Quoters,      \* Client processes: quote both sides, fixed quantity
    Takers,       \* Consumer processes: one side per tick, random quantity
    Measured,     \* processes started with measure_latency
    kOrderQty,    \* quantity of a Client's order
    kMaxQty,      \* largest quantity of a Consumer's order
    SeqRange,     \* 2^32, the numbers that next_seq_ can hold; smaller in a run
    Stoppable     \* bound: processes that the user may stop

Clients == Quoters \cup Takers

ASSUME ClientAssumption ==
    /\ Quoters \cap Takers = {} /\ Measured \subseteq Clients /\ Stoppable \subseteq Clients
    /\ kOrderQty \in Nat \ {0} /\ kMaxQty \in Nat \ {0} /\ SeqRange \in Nat \ {0}

VARIABLES
    server,     \* "up" or "down"
    conn,       \* the order-entry connection, see Connection
    slot,       \* bid_ and ask_ of each process
    next_seq,
    inflight,   \* inflight_: seq and side of the orders whose first response is awaited
    up,         \* OrderPackets written by the process and not yet read
    down        \* OrderResultPackets on the way to the process

clientVars == <<server, conn, slot, next_seq, inflight, up, down>>

\* oe_ready_ is set in the states "ready" and "lost"; in "lost" OeReader has
\* returned, in "failed" the handshake has failed, in "closed" the process ends.
Connection == {"start", "assigned", "ready", "lost", "failed", "closed"}

OeReady(c) == conn[c] \in {"ready", "lost"}

\* OrderQty(): fixed for a Client, random for a Consumer.
OrderQty(c) == IF c \in Quoters THEN {kOrderQty} ELSE 1..kMaxQty

-----------------------------------------------------------------------------
(* Steps of a process. *)

\* The number of the i-th of several orders: next_seq_++ of a uint32_t.
Seqno(first, i) == (first + i - 1) % SeqRange

\* SendOrder, for each order in turn: number it, note it when latency is
\* measured, write it to the stream.  An error of the write is only logged.
SendOrders(c, sends) ==
    /\ up' = [up EXCEPT ![c] = IF server = "down" THEN @ ELSE
                @ \o [i \in DOMAIN sends |->
                        [side |-> sends[i].side, price |-> sends[i].price,
                         qty |-> sends[i].qty, seq |-> Seqno(next_seq[c], i)]]]
    /\ next_seq' = [next_seq EXCEPT ![c] = Seqno(@, Len(sends) + 1)]

NewHistoryPreIncrement(c, sends) ==
    IF c \in Measured THEN {<<Seqno(next_seq[c], i + 1), sends[i].side>> : i \in DOMAIN sends} ELSE {}

NewHistory(c, sends) ==
    IF c \in Measured THEN {<<Seqno(next_seq[c], i), sends[i].side>> : i \in DOMAIN sends} ELSE {}

\* ConnectOrderEntry: the assigned id arrives, or the read of it fails.
ReadId(c) ==
    /\ conn[c] = "assigned"
    /\ \/ conn' = [conn EXCEPT ![c] = "ready"]
       \/ server = "down" /\ conn' = [conn EXCEPT ![c] = "failed"]
    /\ UNCHANGED <<server, slot, next_seq, inflight, up, down>>

\* Client::OnOrderBook with the two targets of CalcBestPrice.
OnOrderBook(c, bid, ask) ==
    /\ OeReady(c) /\ c \in Quoters
    /\ LET b == Reconcile(slot[c]["kBuy"], "kBuy", bid, kOrderQty)
           a == Reconcile(slot[c]["kSell"], "kSell", ask, kOrderQty)
       IN  /\ slot' = [slot EXCEPT ![c] = [kBuy |-> b.st, kSell |-> a.st]]
           /\ SendOrders(c, b.sends \o a.sends)
           /\ inflight' = [inflight EXCEPT ![c] = @ \cup NewHistory(c, b.sends \o a.sends)]
    /\ UNCHANGED <<server, conn, down>>

\* One round of Consumer::TickLoop.
Tick(c, side, price, qty) ==
    /\ OeReady(c) /\ c \in Takers /\ qty \in OrderQty(c)
    /\ LET r == Reconcile(slot[c][side], side, price, qty)
       IN  /\ slot' = [slot EXCEPT ![c][side] = r.st]
           /\ SendOrders(c, r.sends)
           /\ inflight' = [inflight EXCEPT ![c] = @ \cup NewHistory(c, r.sends)]
    /\ UNCHANGED <<server, conn, down>>

\* inflight_.erase: the response to order seq is here.
AnsweredKept(c, seq) == inflight[c]

Answered(c, seq) == {h \in inflight[c] : h[1] # seq}

\* One round of OeReader.
OeReader(c, qty) ==
    /\ conn[c] = "ready" /\ down[c] # <<>> /\ qty \in OrderQty(c)
    /\ LET pack == Head(down[c])
           r    == HandleResult(slot[c][pack.side], pack.side, pack, qty)
       IN  /\ slot' = [slot EXCEPT ![c][pack.side] = r.st]
           /\ SendOrders(c, r.sends)
           /\ inflight' = [inflight EXCEPT ![c] = Answered(c, pack.seq) \cup NewHistory(c, r.sends)]
    /\ down' = [down EXCEPT ![c] = Tail(@)]
    /\ UNCHANGED <<server, conn>>

\* OeReader's read fails, with or without the results that were under way.
OeReaderEnds(c) ==
    /\ conn[c] = "ready" /\ server = "down"
    /\ conn' = [conn EXCEPT ![c] = "lost"]
    /\ down' = [down EXCEPT ![c] = <<>>]
    /\ UNCHANGED <<server, slot, next_seq, inflight, up>>

\* Stop, then the process exits: its memory is gone and what it has not read
\* is lost, what it has written may still reach the server.
Stop(c) ==
    /\ c \in Stoppable /\ conn[c] \notin {"start", "closed"}
    /\ conn' = [conn EXCEPT ![c] = "closed"]
    /\ slot' = [slot EXCEPT ![c] = [s \in Side |-> NoOrder]]
    /\ inflight' = [inflight EXCEPT ![c] = {}]
    /\ down' = [down EXCEPT ![c] = <<>>]
    /\ UNCHANGED <<server, next_seq, up>>

ClientInit ==
    /\ server = "up"
    /\ conn = [c \in Clients |-> "start"]
    /\ slot = [c \in Clients |-> [s \in Side |-> NoOrder]]
    /\ next_seq = [c \in Clients |-> 1]
    /\ inflight = [c \in Clients |-> {}]
    /\ up = [c \in Clients |-> <<>>]
    /\ down = [c \in Clients |-> <<>>]

=============================================================================
