----------------------------- MODULE SideState -----------------------------
(***************************************************************************)
(* One side (bid_ or ask_) of a trading process, common/baseclient.cpp:    *)
(* the SideState and its handlers.                                         *)
(***************************************************************************)
EXTENDS Protocol

OeState == {"kIdle", "kWaitAccepted", "kResting", "kWaitCanceled"}

NoOrder == [state |-> "kIdle", price |-> 0, qty |-> 0, pending |-> 0]

-----------------------------------------------------------------------------
(* Handlers of one side.  Each yields the new SideState and the orders that *)
(* SendOrder is called with.                                                *)

Order(side, price, qty) == [side |-> side, price |-> price, qty |-> qty]

Effect(st, sends) == [st |-> st, sends |-> sends]

\* A Reconcile that requotes without waiting for the confirmation of its cancel.
ReconcileAtOnce(st, side, desired, qty) ==
    IF desired > 0 /\ st.state = "kResting" /\ st.price # desired
    THEN Effect([state |-> "kWaitAccepted", price |-> desired, qty |-> qty, pending |-> 0],
                <<Order(side, st.price, 0), Order(side, desired, qty)>>)
    ELSE IF desired > 0 /\ st.state = "kIdle"
    THEN Effect([state |-> "kWaitAccepted", price |-> desired, qty |-> qty, pending |-> 0],
                <<Order(side, desired, qty)>>)
    ELSE Effect(st, <<>>)

Reconcile(st, side, desired, qty) ==
    CASE desired <= 0 ->
           Effect(st, <<>>)
      [] desired > 0 /\ st.state = "kIdle" ->
           Effect([state |-> "kWaitAccepted", price |-> desired, qty |-> qty,
                   pending |-> 0],
                  <<Order(side, desired, qty)>>)
      [] desired > 0 /\ st.state = "kResting" /\ st.price = desired ->
           Effect(st, <<>>)
      [] desired > 0 /\ st.state = "kResting" /\ st.price # desired ->
           Effect([st EXCEPT !.state = "kWaitCanceled", !.pending = desired],
                  <<Order(side, st.price, 0)>>)
      [] desired > 0 /\ st.state \in {"kWaitAccepted", "kWaitCanceled"} ->
           Effect([st EXCEPT !.pending = desired], <<>>)

\* kAccepted and kCancelled: enter the state, then reconcile with the target
\* that came in the meantime and forget it.
EnterAndReconcile(st, state, side, qty) ==
    LET entered == [st EXCEPT !.state = state]
        r       == Reconcile(entered, side, st.pending, qty)
    IN  IF st.pending # 0
        THEN Effect([r.st EXCEPT !.pending = 0], r.sends)
        ELSE Effect(entered, <<>>)

AfterFillOffByOne(st, filled) ==
    [st EXCEPT !.qty   = st.qty - filled,
               !.state = IF st.qty - filled < 0 THEN "kIdle" ELSE st.state]

AfterFill(st, filled) ==
    [st EXCEPT !.qty   = st.qty - filled,
               !.state = IF st.qty - filled <= 0 THEN "kIdle" ELSE st.state]

HandleResult(st, side, pack, qty) ==
    CASE pack.type = "kAccepted"  -> EnterAndReconcile(st, "kResting", side, qty)
      [] pack.type = "kCancelled" -> EnterAndReconcile(st, "kIdle", side, qty)
      [] pack.type = "kReject"    -> Effect(st, <<>>)
      [] pack.type = "kSuccess"   -> Effect(AfterFill(st, pack.qty), <<>>)

=============================================================================
