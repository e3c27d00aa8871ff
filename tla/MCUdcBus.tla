------------------------------ MODULE MCUdcBus ------------------------------
(* The USB driver on small instances; the .cfg files give the bounds.      *)
EXTENDS UdcBus

Board ==
  [pll_hz |-> 144, hclk |-> 144, sws_pll |-> TRUE, hpre |-> FALSE,
   release_sdi |-> TRUE, usbpre |-> 1, sdi |-> "swd"]

MCBoard == {Board}

\* ... one that keeps its debug pins, and those that are not supported.
MCBoards ==
  {Board, [Board EXCEPT !.pll_hz = 96, !.hclk = 96, !.release_sdi = FALSE],
   [Board EXCEPT !.hclk = 72], [Board EXCEPT !.pll_hz = 72, !.hclk = 72],
   [Board EXCEPT !.sws_pll = FALSE], [Board EXCEPT !.hpre = TRUE]}
=============================================================================
