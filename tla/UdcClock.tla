------------------------------ MODULE UdcClock ------------------------------
(***************************************************************************)
(* What bringing the USB device up and down does to the rest of the chip   *)
(* (drivers/usb/udc_wch_ch32v203.h): the USB clock gate, the USB divider   *)
(* of the PLL and the debug pins that USB shares, as functions of one      *)
(* record.  Bringing up may fail at any of its steps.                      *)
(***************************************************************************)
EXTENDS Integers

CONSTANT Boards  \* device tree (MHz) and clock tree, divider and pins at boot

ASSUME BoardsAssumption ==
  Boards \subseteq [pll_hz : Nat, hclk : Nat, sws_pll : BOOLEAN, hpre : BOOLEAN,
                    release_sdi : BOOLEAN, usbpre : 1..3, sdi : {"reset", "swd", "disable"}]

\* The steps that may fail; "none" is a call that succeeds.
PrepareFaults == {"none", "clock not ready", "usb clock", "afio clock"}

BootClock(board) ==
  [board |-> board, usbpre |-> board.usbpre, sdi |-> board.sdi, usb |-> FALSE,
   afio |-> FALSE, saved_usbpre |-> 1, saved_sdi |-> "reset"]

Supported(b) ==
  b.pll_hz = b.hclk /\ b.sws_pll /\ ~b.hpre /\ b.pll_hz \in {48, 96, 144}

\* Mutation: the divider stays.
Undone_KeepsDivider(c) == [c EXCEPT !.usb = FALSE]

\* The AFIO clock failed: divider and clock gate as they were.
Undone(c) == [c EXCEPT !.usb = FALSE, !.usbpre = c.saved_usbpre]

Prepared(c, fault) ==
  /\ fault \notin {"clock not ready", "usb clock"}
  /\ Supported(c.board)
  /\ c.board.release_sdi => fault # "afio clock"

wch_prepare(c, fault) ==
  LET divided == [c EXCEPT !.usb = TRUE, !.usbpre = c.board.pll_hz \div 48,
                           !.saved_usbpre = c.usbpre]
  IN IF Prepared(c, fault)
     THEN IF c.board.release_sdi
          THEN [divided EXCEPT !.afio = TRUE, !.sdi = "disable", !.saved_sdi = c.sdi]
          ELSE divided
     ELSE IF fault = "afio clock" /\ Supported(c.board) THEN Undone(divided) ELSE c

wch_unprepare(c) ==
  [c EXCEPT !.sdi = IF c.board.release_sdi THEN c.saved_sdi ELSE @,
            !.usbpre = c.saved_usbpre, !.usb = FALSE]
=============================================================================
