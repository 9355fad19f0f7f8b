------------------------------ MODULE Protocol ------------------------------
(***************************************************************************)
(* The order-entry vocabulary of common/protocol.hpp, shared by the        *)
(* matching engine, the server and the trading clients.  Enumerators keep  *)
(* their C++ names.                                                        *)
(***************************************************************************)
EXTENDS Integers

Side == {"kBuy", "kSell"}

ResultType == {"kSuccess", "kReject", "kCancelled", "kAccepted"}

OppSide(side) == IF side = "kBuy" THEN "kSell" ELSE "kBuy"

\* price and qty travel as int32_t.
INT32_MAX == 2147483647

Int32 == {n \in Int : -INT32_MAX - 1 <= n /\ n <= INT32_MAX}

\* An OrderResult: what the engine reports to client_id about its order seq.
Result(client_id, type, side, price, qty, seq) ==
    [client_id |-> client_id, type |-> type, side |-> side,
     price |-> price, qty |-> qty, seq |-> seq]

(***************************************************************************)
(* Map order of the two sides: bids_ is sorted by std::greater, asks_ by   *)
(* std::less.  SortsBefore(side, p, q) says that level p is visited before q.   *)
(***************************************************************************)
SortsBefore(side, p, q) == IF side = "kBuy" THEN p > q ELSE p < q

\* is_cross: a taker on `side` limited to `price` may trade at rest_price.
IsCross(side, price, rest_price) ==
    IF side = "kBuy" THEN rest_price <= price ELSE rest_price >= price

MinOf(a, b) == IF a <= b THEN a ELSE b

=============================================================================
