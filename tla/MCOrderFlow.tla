------------------------------ MODULE MCOrderFlow ------------------------------
(* A finite instance of OrderFlow: two requests that draw the same id.     *)
EXTENDS OrderFlow

CONSTANTS r1, r2, d1, o1
=============================================================================
