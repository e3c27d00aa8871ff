------------------------------ MODULE UartRxInv ------------------------------
(***************************************************************************)
(* The inductive invariant of asynchronous reception (module UartRx).      *)
(***************************************************************************)
EXTENDS UartRx

-----------------------------------------------------------------------------
(* The inductive invariant.                                                *)

Session ==
  [phase : {"IDLE", "ACTIVE", "STOPPING"}, buffer : Blocks \cup {Null},
   next : Blocks \cup {Null}, request_open : BOOLEAN, dispatching : BOOLEAN,
   generation : 0 .. (Generations - 1)]
NoteRecord ==
  [type : {"RDY", "STOPPED", "RELEASED", "REQUEST", "DISABLED"},
   block : Blocks \cup {Null}, len : Nat, generation : 0 .. (Generations - 1)]
Account ==
  [lent : BOOLEAN, stored : Nat, reported : Nat, stopped : BOOLEAN, unknown : BOOLEAN]

RxType ==
  /\ rx \in Session /\ notes \in Seq(NoteRecord) /\ callback \in Callbacks \cup {"null"}
  /\ flags \subseteq Flags /\ pending \in BOOLEAN /\ dmar \in BOOLEAN /\ rxne \in BOOLEAN
  /\ err \subseteq {"ORE", "LINE"} /\ pc \in [Contexts -> {"idle", "dispatch", "callback"}]
  /\ loan \in [Blocks -> Account] /\ missing \in BOOLEAN

Tells(n, type, b) == n.type = type /\ n.block = b

Unreported(q, b) == \A i \in 1 .. Len(q) : ~Tells(q[i], "RDY", b)

\* What note j of queue q, which releases a buffer, owes to the buffer's account
\* a: every byte stored is reported, by then or by a note on its way, or it is
\* said that their number is unknown.
Settles(q, j, a) ==
  LET b == q[j].block IN
  \/ /\ ~a.unknown
     /\ \E i \in 1 .. (j - 1) : Tells(q[i], "RDY", b) /\ a.reported + q[i].len = a.stored
  \/ ~a.unknown /\ Unreported(q, b) /\ a.reported = a.stored
  \/ /\ a.unknown /\ Unreported(q, b)
     /\ a.stopped \/ \E i \in 1 .. (j - 1) : Tells(q[i], "STOPPED", b)

\* A queue of notes in an order the application can rely on, with accounts l: a
\* buffer's news come before its release, and neither its data nor its release
\* is told twice.
QueueInv(q, l) ==
  /\ \A i \in 1 .. Len(q) :
       /\ q[i].type \in {"RDY", "STOPPED"} =>
            /\ q[i].block \in Blocks
            /\ \E j \in (i + 1) .. Len(q) : Tells(q[j], "RELEASED", q[i].block)
       /\ q[i].type = "RDY" => q[i].len > 0
       /\ q[i].type = "RELEASED" => q[i].block \in Blocks /\ Settles(q, i, l[q[i].block])
  /\ \A i, j \in 1 .. Len(q) :
       i # j /\ q[i].type \in {"RDY", "RELEASED"} => ~Tells(q[j], q[i].type, q[i].block)

\* What each phase means for the channel, the current buffer and the queue.
PhaseInv ==
  /\ rx.phase # "ACTIVE" =>
       /\ rx.buffer = Null /\ rx.next = Null /\ ~rx.request_open
       /\ ~dmar /\ dma.state # "RUNNING"
  /\ rx.phase # "IDLE" => callback # "null"
  /\ rx.phase = "IDLE" => notes = <<>>
  /\ rx.phase = "STOPPING" =>
       /\ Len(notes) \in 1 .. 7 /\ notes[Len(notes)].type = "DISABLED"
       /\ \A i \in 1 .. (Len(notes) - 1) : notes[i].type # "DISABLED"

ActiveInv ==
  rx.phase = "ACTIVE" =>
    /\ rx.buffer \in Blocks /\ rx.buffer # rx.next
    /\ dmar /\ dma.state = "RUNNING" /\ dma.maddr = rx.buffer.addr
    /\ "TC" \in flags => dma.cntr = 0
    /\ loan[rx.buffer].stored + dma.cntr = rx.buffer.len
    /\ loan[rx.buffer].reported = 0 /\ ~loan[rx.buffer].unknown
    /\ rx.next # Null => ~rx.request_open /\ loan[rx.next] = [NoLoan EXCEPT !.lent = TRUE]
    /\ rx.request_open \/ rx.next # Null => notes = <<>>
    /\ ~rx.request_open /\ rx.next = Null =>
         /\ Len(notes) \in 1 .. 3
         /\ notes[Len(notes)].type = "REQUEST"
         /\ notes[Len(notes)].generation = rx.generation
         /\ \A i \in 1 .. (Len(notes) - 1) : notes[i].type \in {"RDY", "RELEASED"}

\* A buffer is lent while the session or a release on its way holds it; no two
\* hold the same buffer, and no two buffers lent share a byte.
LoanInv ==
  /\ \A b \in Blocks :
       /\ loan[b].lent <=> \/ rx.buffer = b \/ rx.next = b
                           \/ \E j \in 1 .. Len(notes) : Tells(notes[j], "RELEASED", b)
       /\ ~loan[b].lent => loan[b] = NoLoan
       /\ loan[b].stored <= b.len
       /\ rx.buffer = b \/ rx.next = b =>
            \A j \in 1 .. Len(notes) : ~Tells(notes[j], "RELEASED", b)
  /\ \A a, b \in Blocks : a # b /\ loan[a].lent /\ loan[b].lent => ~Overlap(a, b)

\* At most one context is in the callback, and the driver knows.
DispatchInv ==
  /\ \A x, y \in Contexts : pc[x] = "callback" /\ pc[y] = "callback" => x = y
  /\ rx.dispatching <=> \E x \in Contexts : pc[x] = "callback"

RxInv ==
  /\ RxType
  /\ ByteChannel(dma)
  /\ PhaseInv
  /\ ActiveInv
  /\ QueueInv(notes, loan)
  /\ LoanInv
  /\ DispatchInv
  /\ NoSilentLoss

-----------------------------------------------------------------------------
(* Queues.                                                                 *)

News == {"RDY", "STOPPED", "RELEASED"}

\* The accounts after note n is delivered.
Follows(n, l, m) ==
  /\ m \in [Blocks -> Account]
  /\ \A b \in Blocks \ {n.block} : m[b] = l[b]
  /\ n.type \notin News => m = l
  /\ n.type = "RDY" => m[n.block] = [l[n.block] EXCEPT !.reported = @ + n.len]
  /\ n.type = "STOPPED" => m[n.block] = [l[n.block] EXCEPT !.stopped = TRUE]
  /\ n.type \in {"RDY", "STOPPED"} =>
       (m[n.block].lent <=> l[n.block].lent) /\ m[n.block].stored = l[n.block].stored
  /\ n.type = "RELEASED" => m[n.block] = NoLoan

\* s is what is left of queue q when the notes up to i are taken.
IsRest(s, q, i) ==
  /\ s \in Seq(NoteRecord) /\ Len(q) \in Nat /\ Len(s) = Len(q) - i
  /\ \A k \in 1 .. Len(s) : i + k \in 1 .. Len(q) /\ s[k] = q[i + k]
  /\ i = Len(q) => Len(s) = 0 /\ s = <<>>
  /\ i # Len(q) =>
       /\ Len(s) \in 1 .. (Len(q) - 1) /\ s[Len(s)] = q[Len(q)]
       /\ \A k \in 1 .. (Len(s) - 1) : i + k \in 1 .. (Len(q) - 1) /\ s[k] = q[i + k]

\* What usart_wch_rx_finish() may be told of a session: `count' bytes of the
\* current buffer are still to be reported, unless their number is unknown and
\* there is a reason to stop; none of the next buffer.
Accounted(cur, next, count, stopped, l) ==
  /\ cur \in Blocks /\ next \in Blocks \cup {Null} /\ next # cur
  /\ count \in Nat /\ stopped \in BOOLEAN /\ l \in [Blocks -> Account]
  /\ next # Null => ~l[next].unknown /\ l[next].reported = l[next].stored
  /\ ~l[cur].unknown => l[cur].reported + count = l[cur].stored
  /\ l[cur].unknown => stopped /\ count = 0

\* A queue in order that releases the session's buffers and ends it.
Ends(F, cur, next, l) ==
  /\ F \in Seq(NoteRecord) /\ QueueInv(F, l)
  /\ Len(F) \in 2 .. 5 /\ (next = Null => Len(F) <= 4)
  /\ F[Len(F)].type = "DISABLED"
  /\ \A i \in 1 .. (Len(F) - 1) : F[i].type \in News
  /\ \A i \in 1 .. Len(F) : F[i].type \in News => F[i].block \in {cur, next} \ {Null}
  /\ \A b \in {cur, next} \ {Null} : \E j \in 1 .. Len(F) : Tells(F[j], "RELEASED", b)

-----------------------------------------------------------------------------
(* The steps.                                                              *)

\* A short queue that tells nothing of buffers cur and next.
SilentOn(q, cur, next) ==
  /\ q \in Seq(NoteRecord) /\ Len(q) <= 3 /\ (next # Null => Len(q) = 0)
  /\ \A i \in 1 .. Len(q) : q[i].type # "DISABLED"
  /\ \A i \in 1 .. Len(q) : q[i].type \in News => q[i].block \notin {cur, next}

\* The accounts l when cur and next are held and the releases of q on their way.
Lending(q, cur, next, l) ==
  /\ \A b \in Blocks :
       /\ l[b].lent <=> \/ b = cur \/ b = next
                        \/ \E j \in 1 .. Len(q) : Tells(q[j], "RELEASED", b)
       /\ ~l[b].lent => l[b] = NoLoan
       /\ l[b].stored <= b.len
  /\ \A a, b \in Blocks : a # b /\ l[a].lent /\ l[b].lent => ~Overlap(a, b)

\* What the callers of usart_wch_rx_finish() do to the rest of the state.
Gated ==
  /\ ByteChannel(dma') /\ dma'.state # "RUNNING" /\ flags' = {} /\ pending' \in BOOLEAN
  /\ callback' = callback /\ pc' \in [Contexts -> {"idle", "dispatch", "callback"}]
  /\ \A x \in Contexts : pc'[x] = "callback" <=> pc[x] = "callback"

\* Queue q with the notes for a full buffer b.
WithFull(q, b) == q \o ReadyNote(b, b.len) \o ReleaseNote(b)

\* A buffer every byte of which is stored and still to be reported.
Full(b) ==
  /\ b \in Blocks /\ loan[b] \in Account
  /\ loan[b].reported = 0 /\ loan[b].stored = b.len /\ ~loan[b].unknown

\* Its notes are a queue in order.
FullNotes(q, b) ==
  /\ q \in Seq(NoteRecord) /\ Len(q) = 2 /\ QueueInv(q, loan)
  /\ q[1].type = "RDY" /\ q[2].type = "RELEASED" /\ q[1].block = b /\ q[2].block = b

-----------------------------------------------------------------------------
(* The driver implements the contract.                                     *)

\* What the contract sees of the buffers is what the history records.
Held == [b \in Blocks |-> Abstract(b)] = loan

\* What a step must leave alone to leave the contract's session alone: whether it
\* is open, its callback, and who is in the callback.
SessionStays ==
  /\ (rx'.phase = "IDLE") <=> (rx.phase = "IDLE")
  /\ callback' = callback
  /\ \A x \in Contexts : pc'[x] = "callback" <=> pc[x] = "callback"
=============================================================================
