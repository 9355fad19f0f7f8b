------------------------------ MODULE MCLogger ------------------------------
(***************************************************************************)
(* A process started with -d and one without it.                           *)
(***************************************************************************)
EXTENDS Logger

CONSTANTS p1, p2

MCLogLevel == (p1 :> "kDebug") @@ (p2 :> "kInfo")

=============================================================================
