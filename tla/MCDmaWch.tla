------------------------------ MODULE MCDmaWch ------------------------------
(* Small instances of DmaWch for TLC.                                      *)
EXTENDS DmaWch

Plain ==
  [null |-> FALSE, chained |-> FALSE, burst |-> FALSE, fancy |-> FALSE,
   width |-> 1, destWidth |-> 1, size |-> 2, src |-> 4, dst |-> 8,
   srcInc |-> TRUE, dstInc |-> FALSE, dir |-> "M2P", cyclic |-> FALSE,
   cb |-> TRUE, half |-> FALSE, errdis |-> FALSE]

\* A circular transfer from a peripheral with half-completion callbacks and
\* two-byte elements; a memory copy without callback; and one request for each
\* validation step that refuses.
MCRequests ==
  {[Plain EXCEPT !.dir = "P2M", !.width = 2, !.destWidth = 2, !.size = 4,
                 !.srcInc = FALSE, !.dstInc = TRUE, !.cyclic = TRUE, !.half = TRUE],
   [Plain EXCEPT !.dir = "M2M", !.cb = FALSE, !.size = 1],
   [Plain EXCEPT !.null = TRUE],
   [Plain EXCEPT !.chained = TRUE],
   [Plain EXCEPT !.width = 3, !.destWidth = 3],
   [Plain EXCEPT !.destWidth = 2],
   [Plain EXCEPT !.burst = TRUE],
   [Plain EXCEPT !.size = 0],
   [Plain EXCEPT !.size = 5],
   [Plain EXCEPT !.width = 2, !.destWidth = 2, !.src = 5],
   [Plain EXCEPT !.fancy = TRUE],
   [Plain EXCEPT !.dir = "other"],
   [Plain EXCEPT !.dir = "M2M", !.cyclic = TRUE]}

\* A block of two bytes, and reloads that are empty or too long.
MCReloads ==
  {[src |-> 12, dst |-> 8, size |-> 2], [src |-> 12, dst |-> 8, size |-> 0],
   [src |-> 12, dst |-> 8, size |-> 16]}
=============================================================================
