------------------------------ MODULE MCUartIrq ------------------------------
(* The interrupt-driven echo on small instances; the .cfg files give the bounds. *)
EXTENDS UartIrq
=============================================================================
