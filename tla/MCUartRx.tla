------------------------------ MODULE MCUartRx ------------------------------
(* Small instances of UartRx for TLC.                                      *)
EXTENDS UartRx

\* Two disjoint buffers and one that overlaps both.
MCBlocks == {[addr |-> 1, len |-> 2], [addr |-> 3, len |-> 1], [addr |-> 2, len |-> 2]}
=============================================================================
