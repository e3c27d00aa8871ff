----------------------------- MODULE MCUartInit -----------------------------
(* The rates of the unit tests and the edges of the divisor's range. *)
EXTENDS UartInit
=============================================================================
