-------------------------- MODULE LifecycleProofs --------------------------
(***************************************************************************)
(* Machine-checked proofs about Lifecycle, for every set of processes and  *)
(* every number of orders.                                                 *)
(***************************************************************************)
EXTENDS Lifecycle, SequenceTheorems, TLAPS

Phases == {"start", "run", "returned", "exited", "failed"}

Part == {"io", "acceptors", "engine_", "inbound_", "engine_thread_", "quit", "client"}

Typed ==
    /\ main \in [Process -> Phases]
    /\ built \in [Process -> Seq(Part)]

\* Objects are built in the order of Objects and destroyed in the reverse order,
\* so those that exist are the first ones, and their number tells which.
Stacked(p) ==
    /\ Len(built[p]) <= Len(Objects(p))
    /\ \A i \in 1..Len(built[p]) : built[p][i] = Objects(p)[i]

\* What the phase of a process and its terminal say about that number.
PhaseOK(p) ==
    /\ main[p] = "exited" => Len(built[p]) = 0
    /\ main[p] = "failed" => Len(built[p]) = 1
    /\ p \in raw => Len(built[p]) = Len(Objects(p))

\* The engine thread runs only while engine_thread_ exists, the fifth object.
EngineOwned == engine = "serving" => Len(built[Srv]) >= 5

IInv ==
    /\ Typed
    /\ \A p \in Process : Stacked(p) /\ PhaseOK(p)
    /\ EngineOwned

(***************************************************************************)
(* The places of the objects that the invariant is about.                  *)
(***************************************************************************)
LEMMA ObjectPlaces ==
    ASSUME NEW p \in Process
    PROVE  /\ Objects(p) \in Seq(Part)
           /\ Len(Objects(p)) = IF p = Srv THEN 6 ELSE 3
           /\ \A i \in 1..Len(Objects(p)) :
                /\ Objects(p)[i] = "quit" <=> i = Len(Objects(p))
                /\ Objects(p)[i] = "engine_thread_" <=> p = Srv /\ i = 5
                /\ Objects(p)[i] = "acceptors" <=> p = Srv /\ i = 2
           /\ p = Srv => /\ Objects(p)[1] = "io"
                         /\ Objects(p)[3] = "engine_" /\ Objects(p)[4] = "inbound_"
<1>1. CASE p = Srv
  <2>1. Objects(p) = <<"io", "acceptors", "engine_", "inbound_", "engine_thread_", "quit">>
    BY <1>1 DEF Objects
  <2>2. Len(Objects(p)) = 6 /\ Objects(p) \in Seq(Part)
    <3>1. Objects(p) \in Seq(Part)
      BY <2>1 DEF Part
    <3>2. Len(Objects(p)) = 6
      BY <2>1
    <3>3. QED
      BY <3>1, <3>2
  <2>3. /\ Objects(p)[1] = "io" /\ Objects(p)[2] = "acceptors"
        /\ Objects(p)[3] = "engine_" /\ Objects(p)[4] = "inbound_"
        /\ Objects(p)[5] = "engine_thread_" /\ Objects(p)[6] = "quit"
    BY <2>1
  <2>4. \A i \in 1..6 : i = 1 \/ i = 2 \/ i = 3 \/ i = 4 \/ i = 5 \/ i = 6
    OBVIOUS
  <2>5. QED
    BY <1>1, <2>2, <2>3, <2>4
<1>2. CASE p # Srv
  <2>1. Objects(p) = <<"io", "client", "quit">>
    BY <1>2 DEF Objects
  <2>2. Len(Objects(p)) = 3 /\ Objects(p) \in Seq(Part)
    <3>1. Objects(p) \in Seq(Part)
      BY <2>1 DEF Part
    <3>2. Len(Objects(p)) = 3
      BY <2>1
    <3>3. QED
      BY <3>1, <3>2
  <2>3. Objects(p)[1] = "io" /\ Objects(p)[2] = "client" /\ Objects(p)[3] = "quit"
    BY <2>1
  <2>4. \A i \in 1..3 : i = 1 \/ i = 2 \/ i = 3
    OBVIOUS
  <2>5. QED
    BY <1>2, <2>2, <2>3, <2>4
<1>3. QED
  BY <1>1, <1>2

(***************************************************************************)
(* Before main has built anything the invariant holds.                     *)
(***************************************************************************)
LEMMA InitIInv == Init => IInv
<1> SUFFICES ASSUME Init
             PROVE  IInv
  OBVIOUS
<1>1. Typed
  BY DEF Init, Typed, Phases
<1>2. ASSUME NEW p \in Process
      PROVE  Stacked(p) /\ PhaseOK(p)
  <2>1. built[p] = <<>> /\ Len(built[p]) = 0 /\ main[p] = "start" /\ p \notin raw
    BY DEF Init
  <2>2. QED
    BY <2>1, ObjectPlaces DEF Stacked, PhaseOK
<1>3. EngineOwned
  BY DEF Init, EngineOwned
<1>4. QED
  BY <1>1, <1>2, <1>3 DEF IInv

(***************************************************************************)
(* A step that changes neither the objects nor the terminal, and neither   *)
(* ends a process nor starts the engine thread, preserves the invariant.   *)
(***************************************************************************)
LEMMA Frame ==
    ASSUME IInv, UNCHANGED <<built, raw>>,
           main' \in [Process -> Phases],
           engine' = engine \/ engine' = "exited",
           \A p \in Process : main'[p] = main[p] \/ main'[p] \in {"run", "returned"}
    PROVE  IInv'
<1>1. Typed'
  BY DEF IInv, Typed
<1>2. ASSUME NEW p \in Process
      PROVE  Stacked(p)' /\ PhaseOK(p)'
  <2>1. Stacked(p) /\ PhaseOK(p)
    BY DEF IInv
  <2>2. QED
    BY <2>1 DEF Stacked, PhaseOK, Objects
<1>3. EngineOwned'
  BY DEF IInv, EngineOwned
<1>4. QED
  BY <1>1, <1>2, <1>3 DEF IInv

(***************************************************************************)
(* Only process p moves: what has to hold of it and of the engine.         *)
(***************************************************************************)
LEMMA OneProcess ==
    ASSUME IInv, NEW p \in Process, Typed', EngineOwned', Stacked(p)', PhaseOK(p)',
           \A r \in Process \ {p} :
             main'[r] = main[r] /\ built'[r] = built[r] /\ (r \in raw' <=> r \in raw)
    PROVE  IInv'
<1>1. ASSUME NEW r \in Process \ {p}
      PROVE  Stacked(r)' /\ PhaseOK(r)'
  <2>1. Stacked(r) /\ PhaseOK(r)
    BY DEF IInv
  <2>2. QED
    BY <2>1 DEF Stacked, PhaseOK, Objects
<1>2. QED
  BY <1>1 DEF IInv

(***************************************************************************)
(* Construction puts the next object on the stack; quit is the last one,   *)
(* so no process is in raw mode before it is complete.                     *)
(***************************************************************************)
LEMMA ConstructIInv ==
    ASSUME IInv, NEW p \in Process, Construct(p)
    PROVE  IInv'
<1> DEFINE n == Len(built[p])
           x == Objects(p)[n + 1]
<1>1. /\ Typed /\ Stacked(p) /\ PhaseOK(p) /\ EngineOwned
      /\ main[p] = "start" /\ n < Len(Objects(p)) /\ main' = main
      /\ built' = [built EXCEPT ![p] = Append(built[p], x)]
      /\ (x = "quit" /\ raw' = raw \cup ({p} \ Takers)) \/ (x # "quit" /\ raw' = raw)
      /\ engine' = IF x = "engine_thread_" THEN "serving" ELSE engine
  BY DEF IInv, Construct, NextObject
<1>2. /\ built[p] \in Seq(Part) /\ n \in Nat /\ n + 1 \in 1..Len(Objects(p))
      /\ Objects(p) \in Seq(Part)
  BY <1>1, ObjectPlaces DEF Typed
<1>3. x \in Part
  BY <1>2
<1>4. /\ built'[p] \in Seq(Part) /\ Len(built'[p]) = n + 1
      /\ built'[p][n + 1] = x /\ \A i \in 1..n : built'[p][i] = built[p][i]
  <2>1. built'[p] = Append(built[p], x)
    BY <1>1 DEF Typed
  <2>2. QED
    BY <2>1, <1>2, <1>3, AppendProperties
<1>5. Typed'
  BY <1>1, <1>4 DEF Typed
<1>6. Stacked(p)'
  BY <1>1, <1>2, <1>4 DEF Stacked, Objects
<1>7. PhaseOK(p)'
  <2>1. p \notin raw
    BY <1>1, <1>2 DEF PhaseOK
  <2>2. p \in raw' => n + 1 = Len(Objects(p))
    BY <1>1, <1>2, <2>1, ObjectPlaces
  <2>3. Objects(p)' = Objects(p)
    BY DEF Objects
  <2>4. QED
    BY <1>1, <1>4, <2>2, <2>3 DEF PhaseOK
<1>8. EngineOwned'
  <2>1. CASE p = Srv
    <3>1. x = "engine_thread_" => n + 1 = 5
      BY <1>2, <2>1, ObjectPlaces
    <3>2. QED
      BY <1>1, <1>2, <1>4, <2>1, <3>1 DEF EngineOwned
  <2>2. CASE p # Srv
    <3>1. x # "engine_thread_"
      BY <1>2, <2>2, ObjectPlaces
    <3>2. built'[Srv] = built[Srv]
      BY <1>1, <2>2 DEF Typed, Process
    <3>3. QED
      BY <1>1, <3>1, <3>2 DEF EngineOwned
  <2>3. QED
    BY <2>1, <2>2
<1>9. \A r \in Process \ {p} :
        main'[r] = main[r] /\ built'[r] = built[r] /\ (r \in raw' <=> r \in raw)
  BY <1>1 DEF Typed
<1>10. QED
  BY <1>5, <1>6, <1>7, <1>8, <1>9, OneProcess

(***************************************************************************)
(* Destruction takes the last object off the stack: quit leaves raw mode,  *)
(* and engine_thread_ goes only after the thread has exited.               *)
(***************************************************************************)
LEMMA DestroyIInv ==
    ASSUME IInv, NEW p \in Process, Destroy(p)
    PROVE  IInv'
<1> DEFINE n == Len(built[p])
           x == built[p][n]
<1>1. /\ Typed /\ Stacked(p) /\ PhaseOK(p) /\ EngineOwned
      /\ main[p] = "returned" /\ built[p] # <<>> /\ main' = main /\ engine' = engine
      /\ x = "engine_thread_" => engine = "exited"
      /\ built' = [built EXCEPT ![p] = SubSeq(built[p], 1, n - 1)]
      /\ raw' = IF x = "quit" THEN raw \ {p} ELSE raw
  BY DEF IInv, Destroy, Last, Front, serverVars
<1>2. built[p] \in Seq(Part) /\ n \in Nat /\ n > 0
  BY <1>1, EmptySeq DEF Typed
<1>3. x = Objects(p)[n] /\ n \in 1..Len(Objects(p)) /\ Len(Objects(p)) \in Nat
  BY <1>1, <1>2, ObjectPlaces DEF Stacked
<1>4. /\ built'[p] \in Seq(Part) /\ Len(built'[p]) = n - 1
      /\ \A i \in 1..(n - 1) : built'[p][i] = built[p][i]
  <2>1. built'[p] = SubSeq(built[p], 1, n - 1)
    BY <1>1 DEF Typed
  <2>2. QED
    BY <2>1, <1>2, SubSeqProperties
<1>5. Typed'
  BY <1>1, <1>4 DEF Typed
<1>6. Stacked(p)'
  BY <1>1, <1>2, <1>3, <1>4 DEF Stacked, Objects
<1>7. PhaseOK(p)'
  <2>1. p \notin raw'
    BY <1>1, <1>3, ObjectPlaces DEF PhaseOK
  <2>2. QED
    BY <1>1, <2>1 DEF PhaseOK
<1>8. EngineOwned'
  <2>1. CASE p = Srv
    <3>1. engine = "serving" => n = 6
      BY <1>1, <1>3, <2>1, ObjectPlaces DEF EngineOwned
    <3>2. 6 - 1 = 5 /\ 5 >= 5
      OBVIOUS
    <3>3. ASSUME engine = "serving"
          PROVE  Len(built'[p]) = 5
      BY <1>4, <3>1, <3>2, <3>3, Zenon
    <3>4. EngineOwned' <=> (engine' = "serving" => Len(built'[Srv]) >= 5)
      BY DEF EngineOwned
    <3>5. QED
      BY <1>1, <2>1, <3>2, <3>3, <3>4, Zenon
  <2>2. CASE p # Srv
    <3>1. built'[Srv] = built[Srv]
      BY <1>1, <2>2 DEF Typed, Process
    <3>2. QED
      BY <1>1, <3>1 DEF EngineOwned
  <2>3. QED
    BY <2>1, <2>2
<1>9. \A r \in Process \ {p} :
        main'[r] = main[r] /\ built'[r] = built[r] /\ (r \in raw' <=> r \in raw)
  BY <1>1 DEF Typed
<1>10. QED
  BY <1>5, <1>6, <1>7, <1>8, <1>9, OneProcess

(***************************************************************************)
(* The ends of main: with nothing left, or by the exception of a bind,     *)
(* when only io exists.                                                    *)
(***************************************************************************)
LEMMA EndIInv ==
    ASSUME IInv, NEW p \in Process, Exit(p) \/ (p = Srv /\ ConstructFails)
    PROVE  IInv'
<1>1. Typed /\ Stacked(p) /\ PhaseOK(p) /\ EngineOwned
  BY DEF IInv
<1>2. /\ built' = built /\ raw' = raw /\ engine' = engine
      /\ \/ main' = [main EXCEPT ![p] = "exited"] /\ built[p] = <<>>
         \/ main' = [main EXCEPT ![p] = "failed"] /\ Len(built[p]) = 1
  <2>1. CASE Exit(p)
    BY <2>1 DEF Exit, serverVars
  <2>2. CASE p = Srv /\ ConstructFails
    <3>1. Len(built[p]) + 1 \in 1..Len(Objects(p)) /\ Objects(p)[Len(built[p]) + 1] = "acceptors"
      BY <1>1, <2>2, ObjectPlaces DEF ConstructFails, NextObject, Typed
    <3>2. Len(built[p]) + 1 = 2
      BY <3>1, ObjectPlaces
    <3>3. Len(built[p]) = 1
      <4>1. Len(built[p]) \in Nat
        BY <1>1 DEF Typed
      <4>2. \A k \in Nat : k + 1 = 2 => k = 1
        OBVIOUS
      <4>3. QED
        BY <3>2, <4>1, <4>2
    <3>4. QED
      BY <2>2, <3>3 DEF ConstructFails, serverVars
  <2>3. QED
    BY <2>1, <2>2
<1>3. Typed' /\ main'[p] \in {"exited", "failed"}
  BY <1>1, <1>2 DEF Typed, Phases
<1>4. Stacked(p)' /\ EngineOwned'
  BY <1>1, <1>2 DEF Stacked, EngineOwned, Objects
<1>5. PhaseOK(p)'
  <2>1. Len(built[p]) \in {0, 1} /\ (main'[p] = "exited" => Len(built[p]) = 0)
                             /\ (main'[p] = "failed" => Len(built[p]) = 1)
    BY <1>1, <1>2 DEF Typed
  <2>2. p \notin raw
    BY <1>1, <2>1, ObjectPlaces DEF PhaseOK
  <2>3. QED
    BY <1>2, <2>1, <2>2 DEF PhaseOK
<1>6. \A r \in Process \ {p} :
        main'[r] = main[r] /\ built'[r] = built[r] /\ (r \in raw' <=> r \in raw)
  BY <1>1, <1>2 DEF Typed
<1>7. QED
  BY <1>3, <1>4, <1>5, <1>6, OneProcess

(***************************************************************************)
(* Every step of every process preserves the invariant.                    *)
(***************************************************************************)
LEMMA NextIInv == IInv /\ [Next]_vars => IInv'
<1> SUFFICES ASSUME IInv, [Next]_vars
             PROVE  IInv'
  OBVIOUS
<1> USE DEF mainVars, serverVars, clientVars
<1>0. main \in [Process -> Phases] /\ Srv \in Process
  BY DEF IInv, Typed, Process
<1>1. ASSUME NEW p \in Process, MainStep(p)
      PROVE  IInv'
  <2>1. CASE CallRun(p) \/ RunReturns(p)
    <3>1. UNCHANGED <<built, raw, engine>>
      BY <2>1 DEF CallRun, RunReturns
    <3>2. /\ main' \in [Process -> Phases]
          /\ \A r \in Process : main'[r] = main[r] \/ main'[r] \in {"run", "returned"}
      BY <1>0, <2>1 DEF CallRun, RunReturns, Phases
    <3>3. QED
      BY <3>1, <3>2, Frame
  <2>2. QED
    BY <1>1, <2>1, ConstructIInv, DestroyIInv, EndIInv DEF MainStep
<1>2. ASSUME NEW p \in Process, Callback(p) \/ WatchFails(p)
      PROVE  IInv'
  <2>1. UNCHANGED <<main, built, raw, engine>>
    BY <1>2 DEF Callback, WatchFails
  <2>2. QED
    BY <1>0, <2>1, Frame
<1>3. ASSUME NEW c \in Clients, NetStep(c) \/ ReadOrder(c)
      PROVE  IInv'
  <2>1. UNCHANGED <<main, built, raw, engine>>
    BY <1>3 DEF NetStep, ReadOrder, ConnectOrderEntry, ConnectMarketData, ReaderEnds, SessionEnds
  <2>2. QED
    BY <1>0, <2>1, Frame
<1>4. ASSUME NEW ch \in {"oe", "md"}, AcceptFails(ch)
      PROVE  IInv'
  BY <1>0, <1>4, Frame DEF AcceptFails
<1>5. CASE ConstructFails
  BY <1>0, <1>5, EndIInv
<1>6. CASE JoinEngine
  BY <1>0, <1>6, Frame DEF JoinEngine
<1>7. CASE EngineStep
  BY <1>0, <1>7, Frame DEF EngineStep
<1>8. CASE UNCHANGED vars
  BY <1>0, <1>8, Frame DEF vars
<1>9. QED
  BY <1>1, <1>2, <1>3, <1>4, <1>5, <1>6, <1>7, <1>8 DEF Next

(***************************************************************************)
(* The invariant holds throughout the life of the processes.               *)
(***************************************************************************)
THEOREM Inductive == Spec => []IInv
BY InitIInv, NextIInv, PTL DEF Spec

(***************************************************************************)
(* While the engine thread runs, io, engine_ and inbound_ exist, however   *)
(* the server ends.                                                        *)
(***************************************************************************)
THEOREM EngineSafe == Spec => []EngineUsesLiveObjects
<1>1. IInv => EngineUsesLiveObjects
  <2> SUFFICES ASSUME IInv, engine = "serving"
               PROVE  {"io", "engine_", "inbound_"} \subseteq ToSet(built[Srv])
    BY DEF EngineUsesLiveObjects
  <2>1. Srv \in Process /\ Len(built[Srv]) \in Nat /\ Len(built[Srv]) >= 5 /\ Stacked(Srv)
    BY DEF IInv, Typed, EngineOwned, Process
  <2>2. built[Srv][1] = "io" /\ built[Srv][3] = "engine_" /\ built[Srv][4] = "inbound_"
    BY <2>1, ObjectPlaces DEF Stacked
  <2>3. ToSet(built[Srv]) = {built[Srv][i] : i \in 1..Len(built[Srv])}
    BY <2>1 DEF ToSet, IInv, Typed
  <2>4. QED
    BY <2>1, <2>2, <2>3
<1>2. QED
  BY <1>1, Inductive, PTL

(***************************************************************************)
(* No process that has ended by itself leaves its terminal in raw mode.    *)
(***************************************************************************)
THEOREM TerminalSafe == Spec => []TerminalRestored
<1>1. IInv => TerminalRestored
  <2> SUFFICES ASSUME IInv, NEW p \in Process, main[p] \in {"exited", "failed"}
               PROVE  p \notin raw
    BY DEF TerminalRestored
  <2>1. PhaseOK(p)
    BY DEF IInv
  <2>2. Len(Objects(p)) \notin {0, 1}
    BY ObjectPlaces
  <2>3. QED
    BY <2>1, <2>2 DEF PhaseOK
<1>2. QED
  BY <1>1, Inductive, PTL

=============================================================================
