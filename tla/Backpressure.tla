---------------------------- MODULE Backpressure ----------------------------
(***************************************************************************)
(* Who waits for whom when the TCP buffers are full.  A process sends its  *)
(* orders with a synchronous write on its only thread: while the write     *)
(* waits, nothing is read.  The server writes asynchronously: results      *)
(* queue up in wq, snapshots in `pending`, and the readers go on.          *)
(*                                                                         *)
(* Packets are only counted.  A process may stop reading at any moment.    *)
(***************************************************************************)
EXTENDS Naturals

CONSTANTS
    Clients,
    BufferLen,   \* packets that fit in a TCP connection, per direction
    MaxOrders    \* bound: orders sent, all together

ASSUME BackpressureAssumption ==
    BufferLen \in Nat \ {0} /\ MaxOrders \in Nat

VARIABLES
    to_send,   \* orders the running handler of a process has still to write
    sent,      \* number of orders so far
    up,        \* orders in the connection
    inbound,   \* orders of each process in inbound_
    wq,        \* results queued in the OeSession
    down,      \* results in the connection
    pending,   \* processes with a snapshot in their MdSession
    books      \* snapshots in the connection

vars == <<to_send, sent, up, inbound, wq, down, pending, books>>

Add(f, c, n) == [f EXCEPT ![c] = @ + n]
Drop(f, c) == [f EXCEPT ![c] = @ - 1]

-----------------------------------------------------------------------------
(* A process: OeReader, MdReader and TickLoop call Reconcile, which may send *)
(* an order for each side.                                                   *)

Handle(c) ==
    /\ to_send[c] = 0
    /\ \/ down[c] > 0  /\ down' = Drop(down, c) /\ UNCHANGED books
       \/ books[c] > 0 /\ books' = Drop(books, c) /\ UNCHANGED down
       \/ UNCHANGED <<down, books>>
    /\ \E n \in 0..2 : /\ sent + n <= MaxOrders
                       /\ to_send' = [to_send EXCEPT ![c] = n] /\ sent' = sent + n
    /\ UNCHANGED <<up, inbound, wq, pending>>

\* The write of SendOrder returns when the packet fits in the buffer.
SendOrder(c) ==
    /\ to_send[c] > 0 /\ up[c] < BufferLen
    /\ to_send' = Drop(to_send, c)
    /\ up' = Add(up, c, 1)
    /\ UNCHANGED <<sent, inbound, wq, down, pending, books>>

-----------------------------------------------------------------------------
(* The server. *)

\* The synchronous server: the next order is read when the last is answered.
OeReaderInStep(c) ==
    /\ up[c] > 0 /\ inbound[c] = 0 /\ wq[c] = 0
    /\ up' = Drop(up, c)
    /\ inbound' = Add(inbound, c, 1)
    /\ UNCHANGED <<to_send, sent, wq, down, pending, books>>

OeReader(c) ==
    /\ up[c] > 0
    /\ up' = Drop(up, c)
    /\ inbound' = Add(inbound, c, 1)
    /\ UNCHANGED <<to_send, sent, wq, down, pending, books>>

\* EngineLoop and the handler it posts: results for the sender, and for
\* another process when they trade; a snapshot for all when the book changed.
EngineLoop(c) ==
    /\ inbound[c] > 0
    /\ inbound' = Drop(inbound, c)
    /\ \E own \in 1..2, maker \in Clients \cup {c} :
         wq' = IF maker = c THEN Add(wq, c, own) ELSE Add(Add(wq, c, own), maker, 1)
    /\ pending' \in {pending, Clients}
    /\ UNCHANGED <<to_send, sent, up, down, books>>

OeWriter(c) ==
    /\ wq[c] > 0 /\ down[c] < BufferLen
    /\ wq' = Drop(wq, c)
    /\ down' = Add(down, c, 1)
    /\ UNCHANGED <<to_send, sent, up, inbound, pending, books>>

MdWriter(c) ==
    /\ c \in pending /\ books[c] < BufferLen
    /\ pending' = pending \ {c}
    /\ books' = Add(books, c, 1)
    /\ UNCHANGED <<to_send, sent, up, inbound, wq, down>>

-----------------------------------------------------------------------------
None == [c \in Clients |-> 0]

Init ==
    /\ to_send = None /\ up = None /\ inbound = None /\ wq = None /\ down = None /\ books = None
    /\ sent = 0 /\ pending = {}

ClientStep(c) == Handle(c) \/ SendOrder(c)

ServerStep(c) == OeReader(c) \/ EngineLoop(c) \/ OeWriter(c) \/ MdWriter(c)

Next == \E c \in Clients : ClientStep(c) \/ ServerStep(c)

\* Each coroutine of the server is resumed when its socket is ready, and a
\* process that waits in write goes on when there is room; none need read.
FairSpec ==
    /\ Init /\ [][Next]_vars
    /\ \A c \in Clients :
         /\ WF_vars(OeReader(c)) /\ WF_vars(EngineLoop(c))
         /\ WF_vars(OeWriter(c)) /\ WF_vars(MdWriter(c))
         /\ WF_vars(SendOrder(c))

-----------------------------------------------------------------------------
(***************************************************************************)
(* The synchronous write of an order returns, although the process reads   *)
(* no results meanwhile and other processes may not read at all: no cycle  *)
(* of full buffers holds the server's reader.                              *)
(***************************************************************************)
BlockedWriteEnds == \A c \in Clients : to_send[c] > 0 ~> to_send[c] = 0

=============================================================================
