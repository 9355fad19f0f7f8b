--------------------------- MODULE MCMarketMaking ---------------------------
(***************************************************************************)
(* Small instances of MarketMaking: the arguments of the Clients.          *)
(***************************************************************************)
EXTENDS MarketMaking

\* Quote at the best price that has any quantity.
MCQ == [c \in Quoters |-> 1]
MCN == [c \in Quoters |-> 0]

=============================================================================
