------------------------------ MODULE MCLogger ------------------------------
(* Small instances of Logger for TLC: one thread logs twice.               *)
EXTENDS Logger, TLC

CONSTANTS main, t1, handler

MCCalls == (main :> 2) @@ (t1 :> 1) @@ (handler :> 1)
=============================================================================
