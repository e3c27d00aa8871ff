------------------------------ MODULE MCUartTx ------------------------------
(* Small instances of UartTx for TLC.                                      *)
EXTENDS UartTx, TLC

ThreadSymmetry == Permutations(Threads)
=============================================================================
