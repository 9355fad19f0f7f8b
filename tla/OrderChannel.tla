---------------------------- MODULE OrderChannel -----------------------------
(***************************************************************************)
(* What ConcurrentQueue promises to the two threads that share it: an      *)
(* unbounded FIFO.  Orders put before it is closed are all taken, in       *)
(* order, and the engine leaves only when it is closed and empty.          *)
(***************************************************************************)
EXTENDS Naturals, Sequences

CONSTANT Items

VARIABLES
    buf,      \* orders put and not yet taken
    taken,    \* all orders taken so far, in order
    closed,   \* no more orders will be put
    left      \* the engine has left

chanVars == <<buf, taken, closed, left>>

Init ==
    /\ buf = <<>>
    /\ taken = <<>>
    /\ closed = FALSE
    /\ left = FALSE

Put(v) ==
    /\ ~closed
    /\ buf' = Append(buf, v)
    /\ UNCHANGED <<taken, closed, left>>

Take ==
    /\ ~left /\ buf # <<>>
    /\ taken' = Append(taken, Head(buf))
    /\ buf' = Tail(buf)
    /\ UNCHANGED <<closed, left>>

Close ==
    /\ ~closed
    /\ closed' = TRUE
    /\ UNCHANGED <<buf, taken, left>>

Leave ==
    /\ closed /\ ~left /\ buf = <<>>
    /\ left' = TRUE
    /\ UNCHANGED <<buf, taken, closed>>

Next == (\E v \in Items : Put(v)) \/ Take \/ Close \/ Leave

Spec == Init /\ [][Next]_chanVars

FairSpec == Spec /\ WF_chanVars(Take) /\ WF_chanVars(Leave)

=============================================================================
