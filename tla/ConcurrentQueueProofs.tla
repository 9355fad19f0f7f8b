------------------------ MODULE ConcurrentQueueProofs ------------------------
(***************************************************************************)
(* Machine-checked proofs about ConcurrentQueue, for every set of orders   *)
(* and every number of them.                                               *)
(***************************************************************************)
EXTENDS ConcurrentQueue, SequenceTheorems, TLAPS

\* Every order pushed is queued, in the engine's hands, or served.
Conserved ==
    pushes = Len(served) + (IF engine = "work" THEN 1 ELSE 0) + Len(q)

IInv == TypeOK /\ WakeupDue /\ ExitDrained /\ Conserved

(***************************************************************************)
(* The initial state satisfies the invariant.                              *)
(***************************************************************************)
LEMMA InitIInv == Init => IInv
<1> SUFFICES ASSUME Init
             PROVE  IInv
  OBVIOUS
<1>1. q \in Seq(Items) /\ served \in Seq(Items) /\ Len(q) = 0 /\ Len(served) = 0
  BY DEF Init
<1>2. TypeOK
  BY <1>1 DEF Init, TypeOK
<1>3. WakeupDue /\ ExitDrained /\ Conserved
  BY <1>1 DEF Init, WakeupDue, ExitDrained, Conserved
<1>4. QED
  BY <1>2, <1>3 DEF IInv

(***************************************************************************)
(* Push and pop move the lengths by one.                                   *)
(***************************************************************************)
LEMMA AppendTail ==
    ASSUME NEW S, NEW s \in Seq(S), NEW v \in S
    PROVE  /\ Append(s, v) \in Seq(S) /\ Len(Append(s, v)) = Len(s) + 1
           /\ Append(s, v) # <<>>
           /\ s # <<>> => /\ Head(s) \in S /\ Tail(s) \in Seq(S)
                          /\ Len(Tail(s)) = Len(s) - 1
<1>1. Append(s, v) \in Seq(S) /\ Len(Append(s, v)) = Len(s) + 1 /\ Append(s, v) # <<>>
  BY AppendProperties
<1>2. s # <<>> => Head(s) \in S /\ Tail(s) \in Seq(S) /\ Len(Tail(s)) = Len(s) - 1
  BY HeadTailProperties
<1>3. QED
  BY <1>1, <1>2

(***************************************************************************)
(* Every step of either thread preserves the invariant.                    *)
(***************************************************************************)
LEMMA NextIInv == IInv /\ [Next]_vars => IInv'
<1> SUFFICES ASSUME IInv, [Next]_vars
             PROVE  IInv'
  OBVIOUS
<1> USE DEF IInv
<1>0. Len(q) \in Nat /\ Len(served) \in Nat /\ pushes \in Nat /\ Len(<<>>) = 0
  BY DEF TypeOK
<1>1. ASSUME NEW v \in Items, Push(v)
      PROVE  IInv'
  <2>1. q' \in Seq(Items) /\ Len(q') = Len(q) + 1
    BY <1>1, AppendTail DEF Push, TypeOK
  <2>2. TypeOK'
    BY <1>1, <2>1 DEF Push, TypeOK
  <2>3. WakeupDue' /\ ExitDrained'
    BY <1>1 DEF Push, TypeOK, WakeupDue, ExitDrained
  <2>4. Conserved'
    <3>1. pushes' = pushes + 1 /\ served' = served /\ engine' = engine
      BY <1>1 DEF Push
    <3>2. CASE engine = "work"
      BY <1>0, <2>1, <3>1, <3>2 DEF Conserved
    <3>3. CASE engine # "work"
      BY <1>0, <2>1, <3>1, <3>3 DEF Conserved
    <3>4. QED
      BY <3>2, <3>3
  <2>5. QED
    BY <2>2, <2>3, <2>4
<1>2. CASE NotifyOne
  <2>1. TypeOK'
    BY <1>2 DEF NotifyOne, Wake, TypeOK
  <2>2. WakeupDue' /\ ExitDrained' /\ Conserved'
    BY <1>2 DEF NotifyOne, Wake, TypeOK, WakeupDue, ExitDrained, Conserved
  <2>3. QED
    BY <2>1, <2>2
<1>3. CASE NotifyAll
  <2>1. TypeOK'
    BY <1>3 DEF NotifyAll, Wake, TypeOK
  <2>2. WakeupDue' /\ ExitDrained' /\ Conserved'
    BY <1>3 DEF NotifyAll, Wake, TypeOK, WakeupDue, ExitDrained, Conserved
  <2>3. QED
    BY <2>1, <2>2
<1>4. CASE RequestStop
  BY <1>4 DEF RequestStop, TypeOK, WakeupDue, ExitDrained, Conserved
<1>5. CASE Lock
  BY <1>5 DEF Lock, TypeOK, WakeupDue, ExitDrained, Conserved
<1>6. CASE Pop
  <2>1. item' \in Items /\ q' \in Seq(Items) /\ Len(q') = Len(q) - 1
    BY <1>6, AppendTail DEF Pop, TypeOK
  <2>2. TypeOK'
    BY <1>6, <2>1 DEF Pop, Unlock, TypeOK
  <2>3. WakeupDue' /\ ExitDrained'
    BY <1>6 DEF Pop, WakeupDue, ExitDrained
  <2>4. Conserved'
    BY <1>0, <1>6, <2>1 DEF Pop, Conserved
  <2>5. QED
    BY <2>2, <2>3, <2>4
<1>7. CASE ReturnFalse
  <2>1. TypeOK' /\ WakeupDue'
    BY <1>7 DEF ReturnFalse, Unlock, TypeOK, WakeupDue
  <2>2. ExitDrained' /\ Conserved'
    BY <1>0, <1>7 DEF ReturnFalse, ExitDrained, Conserved
  <2>3. QED
    BY <2>1, <2>2
<1>8. CASE Block
  BY <1>8 DEF Block, Unlock, TypeOK, WakeupDue, ExitDrained, Conserved
<1>9. CASE SpuriousWakeup
  BY <1>9 DEF SpuriousWakeup, TypeOK, WakeupDue, ExitDrained, Conserved
<1>10. CASE EngineLoop
  <2>1. served' \in Seq(Items) /\ Len(served') = Len(served) + 1
    BY <1>10, AppendTail DEF EngineLoop, TypeOK
  <2>2. TypeOK'
    BY <1>10, <2>1 DEF EngineLoop, TypeOK
  <2>3. WakeupDue' /\ ExitDrained'
    BY <1>10 DEF EngineLoop, WakeupDue, ExitDrained
  <2>4. Conserved'
    BY <1>0, <1>10, <2>1 DEF EngineLoop, Conserved
  <2>5. QED
    BY <2>2, <2>3, <2>4
<1>11. CASE UNCHANGED vars
  BY <1>11 DEF vars, TypeOK, WakeupDue, ExitDrained, Conserved
<1>12. QED
  BY <1>1, <1>2, <1>3, <1>4, <1>5, <1>6, <1>7, <1>8, <1>9, <1>10, <1>11
     DEF Next, Io, Engine

(***************************************************************************)
(* The strengthened invariant holds of every reachable state.              *)
(***************************************************************************)
THEOREM IInvInvariant == Spec => []IInv
BY InitIInv, NextIInv, PTL DEF Spec

(***************************************************************************)
(* What is queued and served are orders, and the threads, the stop request *)
(* and the notifications are in states the code has.                       *)
(***************************************************************************)
THEOREM TypeCorrect == Spec => []TypeOK
<1>1. IInv => TypeOK
  BY DEF IInv
<1>2. QED
  BY <1>1, IInvInvariant, PTL

(***************************************************************************)
(* The engine thread never sleeps on an order or on a stop without a       *)
(* notification still to come.                                             *)
(***************************************************************************)
THEOREM NoLostWakeup == Spec => []WakeupDue
<1>1. IInv => WakeupDue
  BY DEF IInv
<1>2. QED
  BY <1>1, IInvInvariant, PTL

(***************************************************************************)
(* When the engine thread exits, every pushed order has been served.       *)
(***************************************************************************)
THEOREM ExitsDrained == Spec => []ExitDrained
<1>1. IInv => ExitDrained
  BY DEF IInv
<1>2. QED
  BY <1>1, IInvInvariant, PTL

(***************************************************************************)
(* Every step of the threads is a step of the abstract FIFO or invisible   *)
(* to it: the lock-level queue implements OrderChannel.                    *)
(***************************************************************************)
THEOREM ImplementsFifo == Spec => Channel!Spec
<1>1. Init => Channel!Init
  BY DEF Init, Channel!Init
<1>2. IInv /\ [Next]_vars => [Channel!Next]_(Channel!chanVars)
  <2> SUFFICES ASSUME IInv, [Next]_vars
               PROVE  [Channel!Next]_(Channel!chanVars)
    OBVIOUS
  <2> USE DEF IInv, TypeOK
  <2>1. ASSUME NEW v \in Items, Push(v)
        PROVE  Channel!Put(v)
    BY <2>1 DEF Push, Channel!Put
  <2>2. CASE RequestStop
    BY <2>2 DEF RequestStop, Channel!Close, Channel!Next
  <2>3. CASE Pop
    BY <2>3 DEF Pop, Channel!Take, Channel!Next
  <2>4. CASE ReturnFalse
    BY <2>4 DEF ReturnFalse, Channel!Leave, Channel!Next
  <2>5. CASE EngineLoop
    BY <2>5 DEF EngineLoop, Channel!chanVars
  <2>6. CASE NotifyOne \/ NotifyAll \/ Lock \/ Block \/ SpuriousWakeup
    BY <2>6 DEF NotifyOne, NotifyAll, Wake, Lock, Block, SpuriousWakeup, Channel!chanVars
  <2>7. CASE UNCHANGED vars
    BY <2>7 DEF vars, Channel!chanVars
  <2>8. QED
    BY <2>1, <2>2, <2>3, <2>4, <2>5, <2>6, <2>7 DEF Next, Io, Engine, Channel!Next
<1>3. QED
  BY <1>1, <1>2, IInvInvariant, PTL DEF Spec, Channel!Spec

=============================================================================
