------------------------------ MODULE UartTxInv ------------------------------
(***************************************************************************)
(* The inductive invariant of asynchronous transmission (module UartTx).   *)
(***************************************************************************)
EXTENDS UartTx

-----------------------------------------------------------------------------
(* The inductive invariant.                                                *)

\* One byte of buffer b, if that is what the register holds.
Held(b, register) == IF register = b THEN 1 ELSE 0

\* A buffer that is lent has its bytes in order: sent, in the transmitter,
\* handed over by DMA, and those still to come.
LoanInv(b) ==
  /\ loan[b].length = 0 => loan[b] = NoLoan
  /\ loan[b].length # 0 =>
       /\ loan[b].sent + Held(b, datar) + Held(b, shift) <= loan[b].fed
       /\ loan[b].fed <= loan[b].length

\* A notification under way is about a buffer that is lent, that no transfer and
\* no other notification holds, and that is all sent if it says so.
NoteInv(x) ==
  note[x] # NoNote =>
    LET n == note[x] IN
    /\ n.type \in {"DONE", "ABORTED"}
    /\ n.buffer \in Buffers /\ n.buffer # tx.buffer
    /\ loan[n.buffer].length # 0 /\ n.length <= loan[n.buffer].length
    /\ n.type = "DONE" => n.length = loan[n.buffer].length /\ loan[n.buffer].sent = n.length
    /\ x = "worker" => loan[n.buffer].left = 0
    /\ \A y \in Contexts \ {x} : note[y].buffer # n.buffer

\* The transfer in progress: the loan, the channel and the transmitter agree on
\* how far it has come.
TransferInv ==
  tx.phase # "IDLE" =>
    LET l == loan[tx.buffer] IN
    /\ tx.buffer \in Buffers /\ tx.length # 0 /\ ~tx.needs_tc
    /\ l.length = tx.length /\ l.left = tx.deadline
    /\ l.fed = tx.length - dma.cntr
    /\ l.sent + Held(tx.buffer, datar) + Held(tx.buffer, shift) = l.fed
    /\ dma.maddr = tx.buffer /\ dma.cntr <= tx.length
    /\ {datar, shift} \subseteq {Null, tx.buffer}
    /\ ~tc /\ dma.cntr # tx.length => ~Drained

\* What each phase means for the channel and the interrupts.
PhaseInv ==
  /\ tx.phase = "IDLE" =>
       /\ tx.buffer = Null /\ tx.length = 0 /\ tx.deadline = Off
       /\ ~dmat /\ ~tcie /\ dma.state # "RUNNING"
       /\ tc \/ ~tx.needs_tc => Drained
  /\ tx.phase = "DMA" =>
       /\ dmat /\ ~tcie /\ dma.state = "RUNNING"
       /\ tc => ~CanMove(dma)
       /\ "TC" \in flags => dma.cntr = 0
  /\ tx.phase = "WAIT_TC" =>
       ~dmat /\ tcie /\ dma.state = "CONFIGURED" /\ dma.cntr = 0

TxInv ==
  /\ TypeOK
  /\ ByteChannel(dma)
  /\ tc => Drained
  /\ PhaseInv
  /\ TransferInv
  /\ \A b \in Buffers : LoanInv(b)
  /\ \A x \in Contexts : NoteInv(x)

-----------------------------------------------------------------------------
(* The driver implements the contract.                                     *)

BusyView(b) ==
  [state |-> "busy", length |-> tx.length, sent |-> loan[b].sent, cb |-> tx.callback,
   type |-> "none", count |-> 0]

EndedView(b, n) ==
  [state |-> "ended", length |-> loan[b].length, sent |-> loan[b].sent, cb |-> n.cb,
   type |-> n.type, count |-> n.length]

\* Each buffer has at most one holder, which decides what the contract sees.
Views ==
  \A b \in Buffers :
    /\ tx.buffer = b => Abstract(b) = BusyView(b)
    /\ \A x \in Contexts : note[x].buffer = b => Abstract(b) = EndedView(b, note[x])
    /\ tx.buffer # b /\ (\A x \in Contexts : note[x].buffer # b) => Abstract(b) = Contract!Mine
=============================================================================
