---------------------------- MODULE UartRxProofs ----------------------------
(***************************************************************************)
(* Proofs about asynchronous reception (module UartRx), for every set of   *)
(* threads, buffers and callbacks.                                         *)
(***************************************************************************)
EXTENDS UartRxInv, DmaChannelProofs, TLAPS

-----------------------------------------------------------------------------
(* Queues.                                                                 *)

\* What the constants are, as the steps need it.
LEMMA Bounds ==
  /\ MaxBlock \in Nat \ {0} /\ Generations \in Nat \ {0} /\ 0 \in 0 .. (Generations - 1)
  /\ Null \notin Blocks /\ Isrs \subseteq Contexts /\ Threads \subseteq Contexts
  /\ \A b \in Blocks : b.addr \in Nat \ {0} /\ b.len \in 1 .. MaxBlock /\ b.len \in Nat
<1>1. Null.addr = 0
  BY Zenon DEF Null
<1> QED
  BY <1>1, RxConstants, MaxBlockAssumption DEF Isrs, Contexts

\* Accounts that stay where a release is on its way keep the queue in order.
LEMMA QueueAccounts ==
  ASSUME NEW q \in Seq(NoteRecord), NEW l, NEW m, QueueInv(q, l),
         \A j \in 1 .. Len(q) : q[j].type = "RELEASED" => m[q[j].block] = l[q[j].block]
  PROVE  QueueInv(q, m)
  BY Zenon DEF QueueInv

\* Two queues in order that tell of different buffers make one.
LEMMA QueueJoin ==
  ASSUME NEW q \in Seq(NoteRecord), NEW f \in Seq(NoteRecord), NEW l,
         QueueInv(q, l), QueueInv(f, l),
         \A i \in 1 .. Len(q), j \in 1 .. Len(f) :
           q[i].type \in News /\ f[j].type \in News => q[i].block # f[j].block
  PROVE  QueueInv(q \o f, l)
<1> DEFINE s == q \o f
<1>1. /\ s \in Seq(NoteRecord) /\ Len(s) = Len(q) + Len(f) /\ Len(q) \in Nat /\ Len(f) \in Nat
      /\ \A i \in 1 .. Len(q) : i \in 1 .. Len(s) /\ s[i] = q[i]
      /\ \A i \in 1 .. Len(f) : Len(q) + i \in 1 .. Len(s) /\ s[Len(q) + i] = f[i]
  OBVIOUS
<1> HIDE DEF s
<1>2. ASSUME NEW i \in 1 .. Len(s), i \notin 1 .. Len(q)
      PROVE  \E k \in 1 .. Len(f) : i = Len(q) + k /\ s[i] = f[k]
  <2>1. \E k \in 1 .. Len(f) : i = Len(q) + k
    <3>1. i - Len(q) \in 1 .. Len(f) /\ i = Len(q) + (i - Len(q))
      BY <1>1, <1>2
    <3> QED
      BY <3>1, Zenon
  <2> QED
    BY <1>1, <2>1, Zenon
<1>3. ASSUME NEW i \in 1 .. Len(s), NEW j \in 1 .. Len(s), i # j,
             s[i].type \in {"RDY", "RELEASED"}, Tells(s[j], s[i].type, s[i].block)
      PROVE  FALSE
  <2>1. CASE i \in 1 .. Len(q) /\ j \in 1 .. Len(q)
    BY <1>1, <1>3, <2>1, Zenon DEF QueueInv
  <2>2. CASE i \in 1 .. Len(q) /\ j \notin 1 .. Len(q)
    <3>1. PICK k \in 1 .. Len(f) : s[j] = f[k]
      BY <1>2, <2>2, Zenon
    <3> QED
      BY <1>1, <1>3, <2>2, <3>1, ZenonT(60) DEF Tells, News
  <2>3. CASE i \notin 1 .. Len(q) /\ j \in 1 .. Len(q)
    <3>1. PICK k \in 1 .. Len(f) : s[i] = f[k]
      BY <1>2, <2>3, Zenon
    <3> QED
      BY <1>1, <1>3, <2>3, <3>1 DEF Tells, News
  <2>4. CASE i \notin 1 .. Len(q) /\ j \notin 1 .. Len(q)
    <3>1. PICK k \in 1 .. Len(f) : i = Len(q) + k /\ s[i] = f[k]
      BY <1>2, <2>4, Zenon
    <3>2. PICK h \in 1 .. Len(f) : j = Len(q) + h /\ s[j] = f[h]
      BY <1>2, <2>4, Zenon
    <3> QED
      BY <1>3, <3>1, <3>2, Zenon DEF QueueInv
  <2> QED
    BY <2>1, <2>2, <2>3, <2>4, Zenon
<1>4. ASSUME NEW i \in 1 .. Len(s), s[i].type \in {"RDY", "STOPPED"}
      PROVE  /\ s[i].block \in Blocks /\ (s[i].type = "RDY" => s[i].len > 0)
             /\ \E j \in (i + 1) .. Len(s) : Tells(s[j], "RELEASED", s[i].block)
  <2>1. CASE i \in 1 .. Len(q)
    <3>1. /\ s[i] = q[i] /\ q[i].block \in Blocks /\ (q[i].type = "RDY" => q[i].len > 0)
          /\ \E j \in (i + 1) .. Len(q) : Tells(q[j], "RELEASED", q[i].block)
      BY <1>1, <1>4, <2>1, Zenon DEF QueueInv
    <3>2. PICK j \in (i + 1) .. Len(q) : Tells(q[j], "RELEASED", q[i].block)
      BY <3>1, Zenon
    <3>3. Len(q) \in Nat /\ Len(s) = Len(q) + Len(f) /\ Len(f) \in Nat
      BY <1>1, Zenon
    <3>4. j \in 1 .. Len(q) /\ j \in (i + 1) .. Len(s)
      BY ONLY <2>1, <3>2, <3>3
    <3>5. s[j] = q[j]
      BY <1>1, <3>4, Zenon
    <3> QED
      BY <3>1, <3>2, <3>4, <3>5, Zenon
  <2>2. CASE i \notin 1 .. Len(q)
    <3>1. PICK k \in 1 .. Len(f) : i = Len(q) + k /\ s[i] = f[k]
      BY <1>2, <2>2, Zenon
    <3>2. PICK j \in (k + 1) .. Len(f) : Tells(f[j], "RELEASED", s[i].block)
      BY <1>4, <3>1, Zenon DEF QueueInv
    <3>3. Len(q) + j \in (i + 1) .. Len(s) /\ s[Len(q) + j] = f[j]
      BY <1>1, <3>1, <3>2
    <3> QED
      BY <1>4, <3>1, <3>2, <3>3, Zenon DEF QueueInv
  <2> QED
    BY <2>1, <2>2, Zenon
<1>5. ASSUME NEW i \in 1 .. Len(s), s[i].type = "RELEASED"
      PROVE  s[i].block \in Blocks /\ Settles(s, i, l[s[i].block])
  <2>1. CASE i \in 1 .. Len(q)
    <3>1. s[i] = q[i] /\ q[i].block \in Blocks /\ Settles(q, i, l[q[i].block])
      BY <1>1, <1>5, <2>1, Zenon DEF QueueInv
    <3>2. ASSUME Unreported(q, q[i].block) PROVE Unreported(s, q[i].block)
      <4> SUFFICES ASSUME NEW k \in 1 .. Len(s), Tells(s[k], "RDY", q[i].block)
                   PROVE  FALSE
        BY Zenon DEF Unreported
      <4>1. k \notin 1 .. Len(q)
        BY <1>1, <3>2, Zenon DEF Unreported
      <4>2. PICK h \in 1 .. Len(f) : s[k] = f[h]
        BY <1>2, <4>1, Zenon
      <4> QED
        BY <1>5, <2>1, <3>1, <4>2, Zenon DEF Tells, News
    <3>3. \A k \in 1 .. (i - 1) : s[k] = q[k]
      <4>1. Len(q) \in Nat
        BY <1>1, Zenon
      <4>2. \A k \in 1 .. (i - 1) : k \in 1 .. Len(q)
        BY ONLY <2>1, <4>1
      <4> QED
        BY <1>1, <4>2, Zenon
    <3> QED
      BY <3>1, <3>2, <3>3, Zenon DEF Settles
  <2>2. CASE i \notin 1 .. Len(q)
    <3>1. PICK h \in 1 .. Len(f) : i = Len(q) + h /\ s[i] = f[h]
      BY <1>2, <2>2, Zenon
    <3>2. f[h].block \in Blocks /\ Settles(f, h, l[f[h].block])
      BY <1>5, <3>1, Zenon DEF QueueInv
    <3>3. ASSUME Unreported(f, f[h].block) PROVE Unreported(s, f[h].block)
      <4> SUFFICES ASSUME NEW k \in 1 .. Len(s), Tells(s[k], "RDY", f[h].block)
                   PROVE  FALSE
        BY Zenon DEF Unreported
      <4>1. CASE k \in 1 .. Len(q)
        BY <1>1, <1>5, <3>1, <4>1, Zenon DEF Tells, News
      <4>2. CASE k \notin 1 .. Len(q)
        BY <1>2, <3>3, <4>2, Zenon DEF Unreported
      <4> QED
        BY <4>1, <4>2, Zenon
    <3>4. \A k \in 1 .. (h - 1) : Len(q) + k \in 1 .. (i - 1) /\ s[Len(q) + k] = f[k]
      BY <1>1, <3>1
    <3> QED
      BY <3>1, <3>2, <3>3, <3>4, Zenon DEF Settles
  <2> QED
    BY <2>1, <2>2, Zenon
<1> QED
  BY <1>3, <1>4, <1>5, Zenon DEF QueueInv, s

\* The dispatcher leaves the notes after the one it takes.
LEMMA Rest ==
  ASSUME NEW q \in Seq(NoteRecord), NEW i \in 1 .. Len(q)
  PROVE  IsRest(SubSeq(q, i + 1, Len(q)), q, i)
<1> DEFINE s == SubSeq(q, i + 1, Len(q))
<1>1. /\ s \in Seq(NoteRecord) /\ Len(q) \in Nat /\ Len(s) = Len(q) - i
      /\ \A k \in 1 .. Len(s) : i + k \in (i + 1) .. Len(q) /\ s[k] = q[i + k]
      /\ \A k \in (i + 1) .. Len(q) : k \in 1 .. Len(q)
  BY ONLY q \in Seq(NoteRecord), i \in 1 .. Len(q) DEF s
<1> HIDE DEF s
<1>2. i = Len(q) => Len(s) = 0 /\ s = <<>>
  BY <1>1
<1>3. ASSUME i # Len(q)
      PROVE  /\ Len(s) \in 1 .. (Len(q) - 1) /\ Len(s) \in 1 .. Len(s) /\ i + Len(s) = Len(q)
             /\ \A k \in 1 .. (Len(s) - 1) : k \in 1 .. Len(s) /\ i + k \in 1 .. (Len(q) - 1)
  <2>1. Len(q) \in Nat /\ Len(s) = Len(q) - i /\ i \in 1 .. Len(q)
    BY <1>1, Zenon
  <2> QED
    BY ONLY <1>3, <2>1
<1> QED
  BY <1>1, <1>2, <1>3, Zenon DEF IsRest, s

\* The queue after the dispatcher has taken note i and the requests before it.
\* The account of the buffer the note tells of follows what was told.
LEMMA QueuePop ==
  ASSUME NEW q \in Seq(NoteRecord), NEW l \in [Blocks -> Account], NEW m, QueueInv(q, l),
         NEW i \in 1 .. Len(q), \A k \in 1 .. (i - 1) : q[k].type = "REQUEST",
         Follows(q[i], l, m), q[i].type \in News => q[i].block \in Blocks
  PROVE  QueueInv(SubSeq(q, i + 1, Len(q)), m)
<1>0. /\ \A j \in 1 .. Len(q) :
           q[j].type = "RELEASED" /\ q[j].block # q[i].block => m[q[j].block] = l[q[j].block]
      /\ q[i].type \notin News => m = l
      /\ q[i].type = "RDY" =>
           m[q[i].block] = [l[q[i].block] EXCEPT !.reported = @ + q[i].len]
      /\ q[i].type = "STOPPED" => m[q[i].block] = [l[q[i].block] EXCEPT !.stopped = TRUE]
      /\ q[i].type \in News => l[q[i].block] \in Account
  BY Zenon DEF Follows, QueueInv
<1> USE <1>0
<1> DEFINE s == SubSeq(q, i + 1, Len(q))
<1>1. /\ s \in Seq(NoteRecord) /\ Len(q) \in Nat /\ Len(s) = Len(q) - i
      /\ \A k \in 1 .. Len(s) : i + k \in (i + 1) .. Len(q) /\ s[k] = q[i + k]
      /\ \A k \in (i + 1) .. Len(q) : k \in 1 .. Len(q)
  BY ONLY q \in Seq(NoteRecord), i \in 1 .. Len(q) DEF s
<1> HIDE DEF s
<1>2. ASSUME NEW k \in (i + 1) .. Len(q) PROVE \E h \in 1 .. Len(s) : k = i + h /\ s[h] = q[k]
  <2>1. k - i \in 1 .. Len(s) /\ k = i + (k - i)
    BY <1>1, SMTT(30)
  <2>2. \E h \in 1 .. Len(s) : k = i + h
    BY <2>1, Zenon
  <2> QED
    BY <1>1, <2>2, Zenon
<1>3. ASSUME NEW j \in 1 .. Len(s), NEW k \in 1 .. Len(s), j # k,
             s[j].type \in {"RDY", "RELEASED"}, Tells(s[k], s[j].type, s[j].block)
      PROVE  FALSE
  <2>1. /\ i + j \in 1 .. Len(q) /\ i + k \in 1 .. Len(q) /\ i + j # i + k
        /\ s[j] = q[i + j] /\ s[k] = q[i + k]
    BY <1>1, <1>3
  <2> QED
    BY <1>3, <2>1, Zenon DEF QueueInv
<1>4. ASSUME NEW k \in 1 .. Len(s), s[k].type \in {"RDY", "STOPPED"}
      PROVE  /\ s[k].block \in Blocks /\ (s[k].type = "RDY" => s[k].len > 0)
             /\ \E j \in (k + 1) .. Len(s) : Tells(s[j], "RELEASED", s[k].block)
  <2>1. i + k \in 1 .. Len(q) /\ s[k] = q[i + k]
    BY <1>1, Zenon
  <2>2. PICK j \in (i + k + 1) .. Len(q) : Tells(q[j], "RELEASED", s[k].block)
    BY <1>4, <2>1, Zenon DEF QueueInv
  <2>3. PICK h \in 1 .. Len(s) : j = i + h /\ s[h] = q[j]
    <3>1. j \in (i + 1) .. Len(q)
      BY <1>1, <2>2
    <3> QED
      BY <1>2, <3>1, Zenon
  <2>4. h \in (k + 1) .. Len(s)
    BY <1>1, <2>2, <2>3
  <2> QED
    BY <1>4, <2>1, <2>2, <2>3, <2>4, Zenon DEF QueueInv
<1>5. ASSUME NEW k \in 1 .. Len(s), s[k].type = "RELEASED"
      PROVE  s[k].block \in Blocks /\ Settles(s, k, m[s[k].block])
  <2>1. PICK j \in (i + 1) .. Len(q) : j = i + k /\ s[k] = q[j] /\ j \in 1 .. Len(q)
    BY <1>1, Zenon
  <2>2. PICK b \in Blocks : b = q[j].block /\ Settles(q, j, l[b])
    BY <1>5, <2>1, Zenon DEF QueueInv
  <2>3. Unreported(q, b) => Unreported(s, b)
    BY <1>1, Zenon DEF Unreported
  <2> SUFFICES Settles(s, k, m[b])
    BY <2>1, <2>2, Zenon
  <2>4. ASSUME NEW h \in 1 .. (j - 1), q[h].type # "REQUEST", h # i
        PROVE  \E g \in 1 .. (k - 1) : s[g] = q[h]
    <3>1. h \in (i + 1) .. Len(q)
      <4>1. h \notin 1 .. (i - 1) /\ h # i
        BY <2>4, Zenon
      <4> QED
        BY ONLY <2>1, <4>1, h \in 1 .. (j - 1), i \in 1 .. Len(q), Len(q) \in Nat
    <3>2. PICK g \in 1 .. Len(s) : h = i + g /\ s[g] = q[h]
      BY <1>2, <3>1, Zenon
    <3>3. g \in 1 .. (k - 1)
      BY <2>1, <3>2
    <3> QED
      BY <3>2, <3>3, Zenon
  <2>5. CASE b # q[i].block \/ q[i].type \notin News
    <3>1. m[b] = l[b]
      BY <1>5, <2>1, <2>2, <2>5, Zenon
    <3>2. ASSUME NEW h \in 1 .. (j - 1), NEW type \in {"RDY", "STOPPED"}, Tells(q[h], type, b)
          PROVE  \E g \in 1 .. (k - 1) : s[g] = q[h]
      BY <2>4, <2>5, <3>2, Zenon DEF Tells, News
    <3> QED
      <4>1. s[k].block = b /\ q[j].block = b
        BY <2>1, <2>2, Zenon
      <4>2. CASE /\ ~l[b].unknown
                 /\ \E h \in 1 .. (j - 1) : Tells(q[h], "RDY", b) /\ l[b].reported + q[h].len = l[b].stored
        <5>1. PICK h \in 1 .. (j - 1) : Tells(q[h], "RDY", b) /\ l[b].reported + q[h].len = l[b].stored
          BY <4>2, Zenon
        <5>2. PICK g \in 1 .. (k - 1) : s[g] = q[h]
          BY <3>2, <5>1, Zenon
        <5>3. ~m[b].unknown /\ Tells(s[g], "RDY", b) /\ m[b].reported + s[g].len = m[b].stored
          BY ONLY <3>1, <4>2, <5>1, <5>2, Zenon
        <5> QED
          BY ONLY <4>1, <5>3, g \in 1 .. (k - 1), Zenon DEF Settles
      <4>3. CASE ~l[b].unknown /\ Unreported(q, b) /\ l[b].reported = l[b].stored
        BY ONLY <2>3, <3>1, <4>1, <4>3, Zenon DEF Settles
      <4>4. CASE /\ l[b].unknown /\ Unreported(q, b)
                 /\ l[b].stopped \/ \E h \in 1 .. (j - 1) : Tells(q[h], "STOPPED", b)
        BY <2>3, <3>1, <3>2, <4>1, <4>4 DEF Settles
      <4> QED
        BY <2>2, <4>1, <4>2, <4>3, <4>4, ZenonT(60) DEF Settles
  <2>6. CASE b = q[i].block /\ q[i].type = "RELEASED"
    <3>1. i # j /\ q[j].type = "RELEASED"
      BY <1>5, <2>1
    <3>2. Tells(q[j], q[i].type, q[i].block)
      BY <2>2, <2>6, <3>1, Zenon DEF Tells
    <3> QED
      BY <2>1, <2>6, <3>1, <3>2, Zenon DEF QueueInv
  <2>7. CASE b = q[i].block /\ q[i].type = "STOPPED"
    <3>1. /\ m[b].stopped /\ m[b].reported = l[b].reported /\ m[b].stored = l[b].stored
          /\ m[b].unknown <=> l[b].unknown
      BY <2>7, Zenon DEF Account, News
    <3>2. ASSUME NEW h \in 1 .. (j - 1), Tells(q[h], "RDY", b)
          PROVE  \E g \in 1 .. (k - 1) : s[g] = q[h]
      BY <2>4, <2>7, <3>2, Zenon DEF Tells
    <3> QED
      <4>1. s[k].block = b /\ q[j].block = b
        BY <2>1, <2>2, Zenon
      <4>2. CASE /\ ~l[b].unknown
                 /\ \E h \in 1 .. (j - 1) : Tells(q[h], "RDY", b) /\ l[b].reported + q[h].len = l[b].stored
        <5>1. PICK h \in 1 .. (j - 1) : Tells(q[h], "RDY", b) /\ l[b].reported + q[h].len = l[b].stored
          BY <4>2, Zenon
        <5>2. PICK g \in 1 .. (k - 1) : s[g] = q[h]
          BY <3>2, <5>1, Zenon
        <5>3. ~m[b].unknown /\ Tells(s[g], "RDY", b) /\ m[b].reported + s[g].len = m[b].stored
          BY ONLY <3>1, <4>2, <5>1, <5>2, Zenon
        <5> QED
          BY ONLY <4>1, <5>3, g \in 1 .. (k - 1), Zenon DEF Settles
      <4>3. CASE Unreported(q, b) /\ (l[b].unknown \/ l[b].reported = l[b].stored)
        BY ONLY <2>3, <3>1, <4>1, <4>3, Zenon DEF Settles
      <4> QED
        BY <2>2, <4>1, <4>2, <4>3, Zenon DEF Settles
  <2>8. CASE b = q[i].block /\ q[i].type = "RDY"
    <3>1. /\ m[b].reported = l[b].reported + q[i].len /\ m[b].stored = l[b].stored
          /\ m[b].unknown = l[b].unknown
      BY <2>8, Zenon DEF Account, News
    <3>2. ~Unreported(q, b) /\ \A h \in 1 .. Len(q) : Tells(q[h], "RDY", b) => h = i
      BY <2>8 DEF QueueInv, Tells, Unreported
    <3>3. Unreported(s, b)
      <4> SUFFICES ASSUME NEW g \in 1 .. Len(s), Tells(s[g], "RDY", b) PROVE FALSE
        BY Zenon DEF Unreported
      <4>1. i + g \in 1 .. Len(q) /\ s[g] = q[i + g] /\ i + g # i
        BY <1>1
      <4> QED
        BY <3>2, <4>1, Zenon
    <3>4. \A h \in 1 .. (j - 1) : h \in 1 .. Len(q)
      BY <1>1, <2>1
    <3> QED
      BY <2>1, <2>2, <3>1, <3>2, <3>3, <3>4, Zenon DEF Settles
  <2> QED
    BY <2>5, <2>6, <2>7, <2>8, Zenon DEF News
<1> QED
  BY <1>3, <1>4, <1>5, Zenon DEF QueueInv, s

\* A note of the session has its fields.
LEMMA NoteFields ==
  ASSUME rx \in Session, NEW type \in {"RDY", "STOPPED", "RELEASED", "REQUEST", "DISABLED"},
         NEW b \in Blocks \cup {Null}, NEW n \in Nat
  PROVE  /\ Note(type, b, n) \in NoteRecord
         /\ Note(type, b, n).type = type /\ Note(type, b, n).block = b
         /\ Note(type, b, n).len = n /\ Note(type, b, n).generation = rx.generation
  BY Zenon DEF Note, NoteRecord, Session

\* A note, if there is a reason for one, at the end of a queue.
LEMMA AppendIf ==
  ASSUME NEW q \in Seq(NoteRecord), NEW n, NEW p \in BOOLEAN, p => n \in NoteRecord,
         NEW t, t = IF p THEN <<n>> ELSE <<>>
  PROVE  /\ q \o t \in Seq(NoteRecord)
         /\ Len(q) \in Nat /\ Len(q \o t) = Len(q) + (IF p THEN 1 ELSE 0)
         /\ \A i \in 1 .. Len(q) : (q \o t)[i] = q[i]
         /\ p => (q \o t)[Len(q) + 1] = n
<1>1. CASE p
  <2>1. t = <<n>> /\ t \in Seq(NoteRecord) /\ Len(t) = 1 /\ t[1] = n
    BY <1>1
  <2>2. /\ q \o t \in Seq(NoteRecord) /\ Len(q) \in Nat /\ Len(q \o t) = Len(q) + 1
        /\ \A i \in 1 .. Len(q) : (q \o t)[i] = q[i]
    BY <2>1
  <2>3. (q \o t)[Len(q) + 1] = n
    BY <2>1
  <2> QED
    BY <1>1, <2>2, <2>3, Zenon
<1>2. CASE ~p
  <2>1. t = <<>> /\ q \o t = q
    BY <1>2
  <2> QED
    BY <1>2, <2>1
<1> QED
  BY <1>1, <1>2, Zenon

\* The notes of usart_wch_rx_finish() do, for buffers whose accounts are as the
\* driver has found them.
LEMMA FinishQueue ==
  ASSUME rx \in Session, NEW cur, NEW next, NEW count, NEW stopped, NEW l,
         Accounted(cur, next, count, stopped, l)
  PROVE  Ends(FinishNotes(cur, next, count, stopped), cur, next, l)
<1> DEFINE F == FinishNotes(cur, next, count, stopped)
<1> HIDE DEF F
<1> USE DEF Accounted
<1>0. PICK s, r, d : /\ s = IF stopped THEN 1 ELSE 0
                     /\ r = IF count > 0 THEN 1 ELSE 0
                     /\ d = IF next # Null THEN 1 ELSE 0
  BY Zenon
<1>1. /\ s \in 0 .. 1 /\ r \in 0 .. 1 /\ d \in 0 .. 1
      /\ (stopped <=> s = 1) /\ (count > 0 <=> r = 1) /\ (next # Null <=> d = 1)
  BY <1>0
<1>2. /\ F \in Seq(NoteRecord) /\ Len(F) = s + r + d + 2
      /\ s = 1 => F[1].type = "STOPPED" /\ F[1].block = cur
      /\ r = 1 => F[s + 1].type = "RDY" /\ F[s + 1].block = cur /\ F[s + 1].len = count
      /\ F[s + r + 1].type = "RELEASED" /\ F[s + r + 1].block = cur
      /\ d = 1 => F[s + r + 2].type = "RELEASED" /\ F[s + r + 2].block = next
      /\ F[Len(F)].type = "DISABLED"
  <2> DEFINE n1 == Note("STOPPED", cur, count)
             n2 == Note("RDY", cur, count)
             n3 == Note("RELEASED", cur, 0)
             n4 == Note("RELEASED", next, 0)
             n5 == Note("DISABLED", Null, 0)
             t1 == IF stopped THEN <<n1>> ELSE <<>>
             t2 == IF count > 0 THEN <<n2>> ELSE <<>>
             t4 == IF next # Null THEN <<n4>> ELSE <<>>
             u2 == t1 \o t2
             u3 == u2 \o <<n3>>
             u4 == u3 \o t4
             u5 == u4 \o <<n5>>
  <2>1. F = u5
    BY Zenon DEF F, FinishNotes, ReadyNote, ReleaseNote
  <2>2. /\ {n1, n2, n3, n4, n5} \subseteq NoteRecord
        /\ n1.type = "STOPPED" /\ n1.block = cur
        /\ n2.type = "RDY" /\ n2.block = cur /\ n2.len = count
        /\ n3.type = "RELEASED" /\ n3.block = cur
        /\ n4.type = "RELEASED" /\ n4.block = next
        /\ n5.type = "DISABLED"
    <3>1. Null \in Blocks \cup {Null} /\ cur \in Blocks \cup {Null} /\ 0 \in Nat
      BY Zenon
    <3>2. n1 \in NoteRecord /\ n1.type = "STOPPED" /\ n1.block = cur
      BY <3>1, NoteFields
    <3>3. n2 \in NoteRecord /\ n2.type = "RDY" /\ n2.block = cur /\ n2.len = count
      BY <3>1, NoteFields
    <3>4. n3 \in NoteRecord /\ n3.type = "RELEASED" /\ n3.block = cur
      BY <3>1, NoteFields
    <3>5. n4 \in NoteRecord /\ n4.type = "RELEASED" /\ n4.block = next
      BY <3>1, Zenon DEF Note, NoteRecord, Session
    <3>6. n5 \in NoteRecord /\ n5.type = "DISABLED"
      BY <3>1, Zenon DEF Note, NoteRecord, Session
    <3> HIDE DEF n1, n2, n3, n4, n5
    <3> QED
      BY <3>2, <3>3, <3>4, <3>5, <3>6, Zenon
  <2> HIDE DEF n1, n2, n3, n4, n5
  <2>3. /\ t1 \in Seq(NoteRecord) /\ Len(t1) = s
        /\ s = 1 => t1[1] = n1
    <3>1. CASE stopped
      BY <1>0, <2>2, <3>1
    <3>2. CASE ~stopped
      BY <1>0, <2>2, <3>2
    <3> QED
      BY <3>1, <3>2, Zenon
  <2> HIDE DEF t1
  <2>4. /\ u2 \in Seq(NoteRecord) /\ Len(u2) = s + r
        /\ s = 1 => u2[1] = n1
        /\ r = 1 => u2[s + 1] = n2
    BY <1>0, <2>2, <2>3, AppendIf
  <2> HIDE DEF u2
  <2>5. /\ u3 \in Seq(NoteRecord) /\ Len(u3) = s + r + 1
        /\ \A i \in 1 .. (s + r) : u3[i] = u2[i]
        /\ u3[s + r + 1] = n3
    BY <2>2, <2>4, AppendIf
  <2> HIDE DEF u3
  <2>6. /\ u4 \in Seq(NoteRecord) /\ Len(u4) = s + r + d + 1
        /\ \A i \in 1 .. (s + r + 1) : u4[i] = u3[i]
        /\ d = 1 => u4[s + r + 2] = n4
    BY <1>0, <2>2, <2>5, AppendIf
  <2> HIDE DEF u4
  <2>7. /\ u5 \in Seq(NoteRecord) /\ Len(u5) = s + r + d + 2
        /\ \A i \in 1 .. (s + r + d + 1) : u5[i] = u4[i]
        /\ u5[s + r + d + 2] = n5
    <3>1. /\ u5 \in Seq(NoteRecord) /\ Len(u5) = Len(u4) + 1
          /\ \A i \in 1 .. Len(u4) : u5[i] = u4[i]
          /\ u5[Len(u4) + 1] = n5
      BY <2>2, <2>6, AppendIf
    <3> HIDE DEF u5
    <3>2. Len(u4) + 1 = s + r + d + 2
      BY <1>1, <2>6
    <3> QED
      BY <2>6, <3>1, <3>2, Zenon
  <2> HIDE DEF u5
  <2>8. (s = 1 => F[1] = n1) /\ (r = 1 => F[s + 1] = n2)
    BY <1>1, <2>1, <2>4, <2>5, <2>6, <2>7
  <2>9. F[s + r + 1] = n3 /\ (d = 1 => F[s + r + 2] = n4)
    BY <1>1, <2>1, <2>5, <2>6, <2>7
  <2>10. F \in Seq(NoteRecord) /\ Len(F) = s + r + d + 2 /\ F[Len(F)] = n5
    BY <2>1, <2>7, Zenon
  <2> QED
    BY <2>2, <2>8, <2>9, <2>10, Zenon
<1>3. /\ Len(F) \in 2 .. 5 /\ (next = Null => Len(F) <= 4) /\ cur # Null
  BY <1>1, <1>2, Bounds
<1>4. ASSUME NEW i \in 1 .. Len(F)
      PROVE  \/ i = 1 /\ i <= s /\ F[i].type = "STOPPED" /\ F[i].block = cur
             \/ i = s + 1 /\ i <= s + r /\ F[i].type = "RDY" /\ F[i].block = cur /\ F[i].len = count
             \/ i = s + r + 1 /\ F[i].type = "RELEASED" /\ F[i].block = cur
             \/ i = s + r + 2 /\ i < Len(F) /\ F[i].type = "RELEASED" /\ F[i].block = next
             \/ i = Len(F) /\ F[i].type = "DISABLED"
  BY <1>1, <1>2
<1>5. QueueInv(F, l)
  <2>1. ASSUME NEW i \in 1 .. Len(F), F[i].type \in {"RDY", "STOPPED"}
        PROVE  /\ F[i].block \in Blocks /\ (F[i].type = "RDY" => F[i].len > 0)
               /\ \E j \in (i + 1) .. Len(F) : Tells(F[j], "RELEASED", F[i].block)
    <3>1. F[i].block = cur /\ i < s + r + 1 /\ (F[i].type = "RDY" => F[i].len = count /\ count > 0)
      BY <1>1, <1>4, <2>1
    <3>2. s + r + 1 \in (i + 1) .. Len(F) /\ Tells(F[s + r + 1], "RELEASED", F[i].block)
      BY <1>1, <1>2, <3>1 DEF Tells
    <3> QED
      BY <3>1, <3>2, Zenon
  <2>2. ASSUME NEW i \in 1 .. Len(F), NEW j \in 1 .. Len(F), i # j,
               F[i].type \in {"RDY", "RELEASED"}, Tells(F[j], F[i].type, F[i].block)
        PROVE  FALSE
    BY <1>1, <1>4, <2>2, Zenon DEF Tells
  <2>3. ASSUME NEW i \in 1 .. Len(F), F[i].type = "RELEASED"
        PROVE  F[i].block \in Blocks /\ Settles(F, i, l[F[i].block])
    <3>1. CASE i = s + r + 1 /\ F[i].block = cur
      <4>1. CASE count > 0
        <5>1. s + 1 \in 1 .. (i - 1) /\ Tells(F[s + 1], "RDY", cur) /\ F[s + 1].len = count
          BY <1>1, <1>2, <3>1, <4>1 DEF Tells
        <5> QED
          BY <3>1, <4>1, <5>1 DEF Settles
      <4>2. CASE count = 0
        <5>1. Unreported(F, cur)
          BY <1>1, <1>4, <4>2 DEF Unreported, Tells
        <5>2. stopped => \E k \in 1 .. (i - 1) : Tells(F[k], "STOPPED", cur)
          <6>1. s = 1 => i \in Nat /\ i >= 2
            BY <1>1, <3>1
          <6>2. s = 1 => 1 \in 1 .. (i - 1)
            BY <6>1
          <6>3. s = 1 => Tells(F[1], "STOPPED", cur)
            BY <1>2, Zenon DEF Tells
          <6> QED
            BY <1>1, <6>2, <6>3, Zenon
        <5>3. l[cur] \in Account
          BY Zenon
        <5>4. CASE l[cur].unknown
          BY <3>1, <4>2, <5>1, <5>2, <5>4, Zenon DEF Settles
        <5>5. CASE ~l[cur].unknown
          <6>1. l[cur].reported = l[cur].stored
            BY <4>2, <5>3, <5>5 DEF Account
          <6> QED
            BY <3>1, <5>1, <5>5, <6>1, Zenon DEF Settles
        <5> QED
          BY <5>4, <5>5, Zenon
      <4> QED
        BY <4>1, <4>2
    <3>2. CASE i = s + r + 2 /\ F[i].block = next /\ next # Null
      <4>1. Unreported(F, next)
        BY <1>4, Zenon DEF Unreported, Tells
      <4> QED
        BY <3>2, <4>1, Zenon DEF Settles
    <3> QED
      BY <1>1, <1>2, <1>4, <2>3, <3>1, <3>2
  <2> QED
    BY <2>1, <2>2, <2>3, Zenon DEF QueueInv
<1>6. /\ \A i \in 1 .. (Len(F) - 1) : F[i].type \in News
      /\ \A i \in 1 .. Len(F) : F[i].type \in News => F[i].block \in {cur, next} \ {Null}
  BY <1>1, <1>2, <1>3, <1>4 DEF News
<1>7. \A b \in {cur, next} \ {Null} : \E j \in 1 .. Len(F) : Tells(F[j], "RELEASED", b)
  <2>1. s + r + 1 \in 1 .. Len(F) /\ Tells(F[s + r + 1], "RELEASED", cur)
    BY <1>1, <1>2 DEF Tells
  <2>2. next # Null => s + r + 2 \in 1 .. Len(F) /\ Tells(F[s + r + 2], "RELEASED", next)
    BY <1>1, <1>2 DEF Tells
  <2> QED
    BY <2>1, <2>2, Zenon
<1> QED
  BY <1>2, <1>3, <1>5, <1>6, <1>7, Zenon DEF Ends, F

-----------------------------------------------------------------------------
(* The steps.                                                              *)

\* The state usart_wch_init() leaves satisfies the invariant.
LEMMA InitInv == Init => RxInv
<1> SUFFICES ASSUME Init PROVE RxInv
  BY Zenon
<1>1. NoLoan \in Account /\ ~NoLoan.lent /\ NoLoan.stored = 0
  BY Zenon DEF NoLoan, Account
<1>2. rx \in Session
  BY Bounds, Zenon DEF Init, Session
<1>3. /\ notes = <<>> /\ Len(notes) = 0 /\ notes \in Seq(NoteRecord)
      /\ \A i \in 1 .. Len(notes) : FALSE
  BY DEF Init
<1>4. RxType
  BY <1>1, <1>2, <1>3, Zenon DEF Init, RxType, Flags
<1>5. PhaseInv /\ ActiveInv /\ DispatchInv /\ NoSilentLoss
  BY Zenon DEF Init, PhaseInv, ActiveInv, DispatchInv, NoSilentLoss, ResetChannel
<1>6. QueueInv(notes, loan)
  BY <1>3, Zenon DEF QueueInv
<1>7. LoanInv
  <2>1. \A b \in Blocks : loan[b] = NoLoan /\ rx.buffer # b /\ rx.next # b /\ 0 <= b.len
    BY Bounds DEF Init
  <2> QED
    BY <1>1, <1>3, <2>1, Zenon DEF LoanInv
<1> QED
  BY <1>4, <1>5, <1>6, <1>7, ByteReset, Zenon DEF RxInv, Init

\* A step that moves no context into or out of the callback.
LEMMA SameInside ==
  ASSUME DispatchInv, rx'.dispatching = rx.dispatching,
         \A x \in Contexts : pc'[x] = "callback" <=> pc[x] = "callback"
  PROVE  DispatchInv'
  BY Zenon DEF DispatchInv

\* Entry points leave the callback's context where it is.
LEMMA Dispatched ==
  ASSUME RxType, NEW x \in Contexts, ThenDispatch(x)
  PROVE  /\ pc' \in [Contexts -> {"idle", "dispatch", "callback"}]
         /\ \A y \in Contexts : pc'[y] = "callback" <=> pc[y] = "callback"
  BY Zenon DEF RxType, ThenDispatch

\* The request of usart_wch_rx_start() is one a byte channel takes.
LEMMA RxRequestIsBytes ==
  ASSUME NEW b \in Blocks
  PROVE  /\ RxRequest(b) \in ByteRequests
         /\ RxRequest(b).size = b.len /\ RxRequest(b).dst = b.addr /\ RxRequest(b).dir = "P2M"
<1>1. b.addr \in Nat /\ b.len \in Nat /\ b.len \in 1 .. MaxBlock
  BY Bounds, Zenon
<1>2. RxRequest(b) \in ConfigRequest
  BY <1>1, Zenon DEF RxRequest, ByteRequest, ConfigRequest
<1> QED
  BY <1>1, <1>2, Zenon DEF RxRequest, ByteRequest, ByteRequests

\* The channel after usart_wch_rx_start(), and after one that failed.
LEMMA StartedChannel ==
  ASSUME NEW c, ByteChannel(c), NEW b \in Blocks
  PROVE  LET d == Configured(Stopped(c), RxRequest(b)) IN
         /\ ByteChannel(Started(d)) /\ Started(d).state = "RUNNING"
         /\ Started(d).cntr = b.len /\ Started(d).maddr = b.addr
         /\ ByteChannel(Stopped(d)) /\ Stopped(d).state # "RUNNING"
<1> DEFINE d == Configured(Stopped(c), RxRequest(b))
<1>1. ByteChannel(Stopped(c)) /\ ~Busy(Stopped(c))
  BY ByteStopped, Zenon
<1>2. /\ ByteChannel(d) /\ d.state = "CONFIGURED" /\ d.cntr = b.len /\ d.maddr = b.addr
  BY <1>1, RxRequestIsBytes, ByteConfigured, Zenon
<1>3. b.len > 0
  BY Bounds
<1> HIDE DEF d
<1>4. /\ ByteChannel(Started(d)) /\ Started(d).state = "RUNNING"
      /\ Started(d).cntr = b.len /\ Started(d).maddr = b.addr
      /\ ByteChannel(Stopped(d)) /\ Stopped(d).state # "RUNNING"
  BY <1>2, <1>3, ByteStarted, ByteStopped, Zenon DEF SameBlock
<1> QED
  BY <1>4, Zenon DEF d

\* The callback changes between sessions.
LEMMA CallbackInv ==
  ASSUME RxInv, NEW x, NEW cb \in Callbacks \cup {"null"}, usart_wch_async_callback_set(x, cb)
  PROVE  RxInv'
  BY Zenon DEF RxInv, usart_wch_async_callback_set, channel, app, RxType, PhaseInv, ActiveInv, LoanInv,
         DispatchInv, NoSilentLoss

\* usart_wch_poll_in() takes a byte no session owns.
LEMMA PollInInv ==
  ASSUME RxInv, NEW x, usart_wch_poll_in(x)
  PROVE  RxInv'
<1>1. missing' = FALSE
  BY Zenon DEF usart_wch_poll_in, RxInv, NoSilentLoss, RxType
<1> QED
  BY <1>1, Zenon DEF RxInv, usart_wch_poll_in, channel, RxType, PhaseInv, ActiveInv, LoanInv,
         DispatchInv, NoSilentLoss

\* A session begins with every buffer at home and an empty queue.
LEMMA AllHome ==
  ASSUME RxInv, rx.phase = "IDLE"
  PROVE  notes = <<>> /\ \A b \in Blocks : loan[b] = NoLoan
<1>1. notes = <<>> /\ Len(notes) = 0 /\ rx.buffer = Null /\ rx.next = Null
  BY Zenon DEF RxInv, PhaseInv
<1> QED
  BY <1>1, Bounds DEF RxInv, LoanInv

\* The only note of a queue asks for a buffer.
LEMMA OneRequest ==
  ASSUME NEW n \in NoteRecord, n.type = "REQUEST", NEW l
  PROVE  /\ Append(<<>>, n) \in Seq(NoteRecord) /\ Len(Append(<<>>, n)) = 1
         /\ Append(<<>>, n)[1] = n /\ QueueInv(Append(<<>>, n), l)
<1>1. /\ Append(<<>>, n) \in Seq(NoteRecord) /\ Len(Append(<<>>, n)) = 1 /\ Append(<<>>, n)[1] = n
  OBVIOUS
<1> QED
  BY <1>1 DEF QueueInv, Tells

\* The note of usart_wch_rx_start() belongs to the new generation.
LEMMA RequestFields ==
  ASSUME rx \in Session
  PROVE  /\ RequestNote \in NoteRecord /\ RequestNote.type = "REQUEST"
         /\ RequestNote.generation = NextGeneration
         /\ NextGeneration \in 0 .. (Generations - 1)
<1>1. NextGeneration \in 0 .. (Generations - 1)
  <2>1. rx.generation + 1 \in Nat /\ Generations \in Nat \ {0}
    BY Bounds DEF Session
  <2> QED
    BY <2>1 DEF NextGeneration
<1> QED
  BY <1>1, Zenon DEF RequestNote, Note, NoteRecord, Session

\* usart_wch_rx_enable() starts a session.
LEMMA EnableInv ==
  ASSUME RxInv, NEW x \in Contexts, NEW b \in Blocks, usart_wch_rx_enable(x, b)
  PROVE  RxInv'
<1>1. /\ rx.phase = "IDLE" /\ callback # "null" /\ notes = <<>> /\ \A a \in Blocks : loan[a] = NoLoan
      /\ dma' = Started(Configured(Stopped(dma), RxRequest(b))) /\ flags' = {} /\ dmar' = TRUE
      /\ rx' = [rx EXCEPT !.phase = "ACTIVE", !.buffer = b, !.next = Null,
                          !.request_open = FALSE, !.generation = NextGeneration]
      /\ notes' = Append(notes, RequestNote) /\ rxne' = FALSE /\ err' = {} /\ missing' = FALSE
      /\ loan' = [loan EXCEPT ![b] = [NoLoan EXCEPT !.lent = TRUE]]
      /\ UNCHANGED <<callback, pending>> /\ ThenDispatch(x)
  BY AllHome, Zenon DEF usart_wch_rx_enable, Start, Lend
<1>2. /\ RequestNote \in NoteRecord /\ RequestNote.type = "REQUEST"
      /\ RequestNote.generation = NextGeneration /\ NextGeneration \in 0 .. (Generations - 1)
  BY RequestFields, Zenon DEF RxInv, RxType
<1>3. /\ rx' \in Session /\ rx'.phase = "ACTIVE" /\ rx'.buffer = b /\ rx'.next = Null
      /\ ~rx'.request_open /\ rx'.generation = NextGeneration /\ rx'.dispatching = rx.dispatching
  BY <1>1, <1>2, Zenon DEF RxInv, RxType, Session
<1>4. /\ notes' \in Seq(NoteRecord) /\ Len(notes') = 1 /\ notes'[1] = RequestNote
      /\ QueueInv(notes', loan')
  BY <1>1, <1>2, OneRequest, Zenon
<1>5. /\ loan' \in [Blocks -> Account] /\ \A a \in Blocks \ {b} : loan'[a] = NoLoan
      /\ loan'[b].lent /\ loan'[b].stored = 0 /\ loan'[b].reported = 0 /\ ~loan'[b].unknown
      /\ ~NoLoan.lent /\ NoLoan.stored = 0
  BY <1>1, Zenon DEF RxInv, RxType, NoLoan, Account
<1>6. /\ ByteChannel(dma') /\ dma'.state = "RUNNING" /\ dma'.cntr = b.len /\ dma'.maddr = b.addr
  BY <1>1, StartedChannel, Zenon DEF RxInv
<1>7. RxType' /\ DispatchInv'
  <2>1. /\ pc' \in [Contexts -> {"idle", "dispatch", "callback"}] /\ DispatchInv'
    BY <1>1, <1>3, Dispatched, SameInside, Zenon DEF RxInv
  <2> QED
    BY <1>1, <1>3, <1>4, <1>5, <2>1, Zenon DEF RxInv, RxType
<1>8. b # Null /\ b.len \in Nat
  BY Bounds, Zenon
<1>9. PhaseInv' /\ NoSilentLoss'
  BY <1>1, <1>3, Zenon DEF PhaseInv, NoSilentLoss
<1>10. ActiveInv'
  BY <1>1, <1>2, <1>3, <1>4, <1>5, <1>6, <1>8 DEF ActiveInv
<1>11. LoanInv'
  <2>1. \A j \in 1 .. Len(notes'), a \in Blocks : ~Tells(notes'[j], "RELEASED", a)
    BY <1>2, <1>4 DEF Tells
  <2>2. \A a \in Blocks : 0 <= a.len /\ a # Null
    BY Bounds
  <2> QED
    BY <1>3, <1>5, <2>1, <2>2 DEF LoanInv
<1> QED
  BY <1>4, <1>6, <1>7, <1>9, <1>10, <1>11, Zenon DEF RxInv

\* usart_wch_rx_enable() that fails leaves the port idle.
LEMMA EnableFailsInv ==
  ASSUME RxInv, NEW x \in Contexts, NEW b \in Blocks, NEW fault,
         usart_wch_rx_enable_fails(x, b, fault)
  PROVE  RxInv'
<1>1. /\ rx.phase = "IDLE" /\ flags' = {} /\ dmar' = FALSE /\ rxne' = FALSE /\ err' = {}
      /\ UNCHANGED <<rx, notes, callback, pending, loan, missing>> /\ ThenDispatch(x)
      /\ \/ dma' = Stopped(Stopped(dma))
         \/ dma' = Stopped(Configured(Stopped(dma), RxRequest(b)))
  BY Zenon DEF usart_wch_rx_enable_fails, StartFailed, app
<1>2. ByteChannel(dma') /\ dma'.state # "RUNNING"
  BY <1>1, StartedChannel, ByteStopped, Zenon DEF RxInv
<1>3. /\ pc' \in [Contexts -> {"idle", "dispatch", "callback"}] /\ DispatchInv'
  BY <1>1, Dispatched, SameInside, Zenon DEF RxInv
<1>4. RxType' /\ PhaseInv' /\ ActiveInv' /\ NoSilentLoss'
  BY <1>1, <1>2, <1>3, Zenon DEF RxInv, RxType, PhaseInv, ActiveInv, NoSilentLoss
<1>5. QueueInv(notes', loan') /\ LoanInv'
  BY <1>1, Zenon DEF RxInv, LoanInv
<1> QED
  BY <1>2, <1>3, <1>4, <1>5, Zenon DEF RxInv

\* usart_wch_rx_finish() ends the session: whoever calls it has a queue in order
\* that tells nothing of the buffers still held, and their accounts ready.
LEMMA FinishInv ==
  ASSUME RxInv, rx.phase = "ACTIVE", NEW q, NEW cur, NEW next, NEW count, NEW stopped,
         Finish(q, cur, next, count, stopped), Accounted(cur, next, count, stopped, loan'),
         missing => stopped, Gated, SilentOn(q, cur, next), QueueInv(q, loan'),
         Lending(q, cur, next, loan')
  PROVE  RxInv'
<1> USE DEF Gated, SilentOn, Lending
<1>0. /\ cur \in Blocks /\ next \in Blocks \cup {Null} /\ next # cur
      /\ count \in Nat /\ stopped \in BOOLEAN /\ loan' \in [Blocks -> Account]
  BY Zenon DEF Accounted
<1>1. PICK F : F = FinishNotes(cur, next, count, stopped)
  BY Zenon
<1>2. /\ F \in Seq(NoteRecord) /\ QueueInv(F, loan')
      /\ Len(F) \in 2 .. 5 /\ (next = Null => Len(F) <= 4)
      /\ F[Len(F)].type = "DISABLED"
      /\ \A i \in 1 .. (Len(F) - 1) : F[i].type \in News
      /\ \A i \in 1 .. Len(F) : F[i].type \in News => F[i].block \in {cur, next} \ {Null}
      /\ \A b \in {cur, next} \ {Null} : \E j \in 1 .. Len(F) : Tells(F[j], "RELEASED", b)
  <2>1. rx \in Session
    BY Zenon DEF RxInv, RxType
  <2>2. Ends(F, cur, next, loan')
    BY <1>1, <2>1, FinishQueue, Zenon
  <2> QED
    BY <2>2, Zenon DEF Ends
<1>3. notes' = q \o F /\ rx' = Ended /\ dmar' = FALSE /\ rxne' = FALSE /\ err' = {}
  BY <1>1, Zenon DEF Finish
<1>4. missing' = FALSE
  BY <1>0, Zenon DEF Finish
<1>5. /\ rx' \in Session /\ rx'.phase = "STOPPING" /\ rx'.buffer = Null /\ rx'.next = Null
      /\ ~rx'.request_open /\ rx'.dispatching = rx.dispatching
  <2>1. PICK r1, r2, r3 : /\ r1 = [rx EXCEPT !.phase = "STOPPING"]
                          /\ r2 = [r1 EXCEPT !.buffer = Null]
                          /\ r3 = [r2 EXCEPT !.next = Null]
                          /\ rx' = [r3 EXCEPT !.request_open = FALSE]
    BY <1>3, Zenon DEF Ended
  <2>2. rx \in Session
    BY Zenon DEF RxInv, RxType
  <2>3. r1 \in Session /\ r1.phase = "STOPPING" /\ r1.dispatching = rx.dispatching
    BY <2>1, <2>2, Zenon DEF Session
  <2>4. r2 \in Session /\ r2.phase = "STOPPING" /\ r2.buffer = Null /\ r2.dispatching = rx.dispatching
    BY <2>1, <2>3, Zenon DEF Session
  <2>5. /\ r3 \in Session /\ r3.phase = "STOPPING" /\ r3.buffer = Null /\ r3.next = Null
        /\ r3.dispatching = rx.dispatching
    BY <2>1, <2>4, Zenon DEF Session
  <2> QED
    BY <2>1, <2>5, ZenonT(60) DEF Session
<1>6. /\ notes' \in Seq(NoteRecord) /\ Len(notes') = Len(q) + Len(F) /\ Len(q) \in Nat
      /\ Len(F) \in Nat
      /\ \A i \in 1 .. Len(q) : i \in 1 .. Len(notes') /\ notes'[i] = q[i]
      /\ \A i \in 1 .. Len(F) : Len(q) + i \in 1 .. Len(notes') /\ notes'[Len(q) + i] = F[i]
  BY <1>2, <1>3
<1>7. ASSUME NEW i \in 1 .. Len(notes'), i \notin 1 .. Len(q)
      PROVE  \E k \in 1 .. Len(F) : i = Len(q) + k /\ notes'[i] = F[k]
  <2>1. \E k \in 1 .. Len(F) : i = Len(q) + k
    <3>1. i - Len(q) \in 1 .. Len(F) /\ i = Len(q) + (i - Len(q))
      BY <1>6, <1>7
    <3> QED
      BY <3>1, Zenon
  <2> QED
    BY <1>6, <2>1
<1>8. QueueInv(notes', loan')
  <2>1. \A i \in 1 .. Len(q), j \in 1 .. Len(F) :
          q[i].type \in News /\ F[j].type \in News => q[i].block # F[j].block
    BY <1>2, Zenon
  <2> QED
    BY <1>2, <1>3, <2>1, QueueJoin, Zenon
<1>9. RxType' /\ DispatchInv' /\ NoSilentLoss' /\ ActiveInv'
  <2>1. DispatchInv'
    BY <1>5, SameInside, Zenon DEF RxInv
  <2> QED
    BY <1>0, <1>3, <1>4, <1>5, <1>6, <2>1, Zenon DEF RxInv, RxType, NoSilentLoss, ActiveInv
<1>10. PhaseInv'
  <2>0. Len(F) \in 2 .. 5 /\ (next = Null => Len(F) <= 4)
    BY <1>2, Zenon
  <2>00. Len(q) <= 3 /\ (next # Null => Len(q) = 0)
    BY Zenon
  <2>1. Len(notes') \in 1 .. 7
    <3>1. PICK m \in Nat, k \in Nat : m = Len(q) /\ k = Len(F) /\ Len(notes') = m + k
      BY <1>6, Zenon
    <3>2. k >= 2 /\ k <= 5 /\ m <= 3 /\ (next = Null => k <= 4) /\ (next # Null => m = 0)
      BY ONLY <1>6, <2>0, <2>00, <3>1, SMTT(30)
    <3>3. m + k >= 1 /\ m + k <= 7
      BY ONLY <3>2, m \in Nat, k \in Nat
    <3> QED
      BY ONLY <3>1, <3>3, m \in Nat, k \in Nat
  <2>2. notes'[Len(notes')].type = "DISABLED"
    <3>1. Len(F) \in 1 .. Len(F)
      BY <2>0
    <3> QED
      BY <1>2, <1>6, <3>1
  <2>3. ASSUME NEW i \in 1 .. (Len(notes') - 1) PROVE notes'[i].type # "DISABLED"
    <3>1. CASE i \in 1 .. Len(q)
      BY <1>6, <3>1, ZenonT(60)
    <3>2. CASE i \notin 1 .. Len(q)
      <4>1. i \in 1 .. Len(notes')
        BY <2>1
      <4>2. PICK k \in 1 .. Len(F) : i = Len(q) + k /\ notes'[i] = F[k]
        BY <1>7, <3>2, <4>1, Zenon
      <4>3. k \in 1 .. (Len(F) - 1)
        BY <1>6, <4>2
      <4> QED
        BY <1>2, <4>2, <4>3, Zenon DEF News
    <3> QED
      BY <3>1, <3>2, Zenon
  <2>4. callback' # "null"
    BY Zenon DEF RxInv, PhaseInv
  <2> QED
    BY <1>3, <1>5, <2>1, <2>2, <2>3, <2>4, Zenon DEF PhaseInv
<1>11. LoanInv'
  <2>1. ASSUME NEW b \in Blocks
        PROVE  loan'[b].lent <=> \E j \in 1 .. Len(notes') : Tells(notes'[j], "RELEASED", b)
    <3>1. b # Null
      BY Bounds, Zenon
    <3>2. ASSUME loan'[b].lent PROVE \E j \in 1 .. Len(notes') : Tells(notes'[j], "RELEASED", b)
      <4>1. CASE b = cur \/ b = next
        <5>1. PICK j \in 1 .. Len(F) : Tells(F[j], "RELEASED", b)
          BY <1>2, <3>1, <4>1, Zenon
        <5> QED
          BY <1>6, <5>1, Zenon
      <4>2. CASE \E j \in 1 .. Len(q) : Tells(q[j], "RELEASED", b)
        BY <1>6, <4>2, Zenon
      <4> QED
        BY <3>2, <4>1, <4>2, Zenon
    <3>3. ASSUME NEW j \in 1 .. Len(notes'), Tells(notes'[j], "RELEASED", b) PROVE loan'[b].lent
      <4>1. CASE j \in 1 .. Len(q)
        BY <1>6, <3>3, <4>1, Zenon
      <4>2. CASE j \notin 1 .. Len(q)
        <5>1. PICK k \in 1 .. Len(F) : notes'[j] = F[k]
          BY <1>7, <4>2, Zenon
        <5> QED
          BY <1>2, <3>3, <5>1 DEF Tells, News
      <4> QED
        BY <4>1, <4>2, Zenon
    <3> QED
      BY <3>2, <3>3, Zenon
  <2>2. \A b \in Blocks : rx'.buffer # b /\ rx'.next # b
    BY <1>5, Bounds, Zenon
  <2> QED
    BY <2>1, <2>2, Zenon DEF LoanInv
<1> QED
  BY <1>8, <1>9, <1>10, <1>11, Zenon DEF RxInv

\* The queue of an active session is short and tells nothing of its buffers.
LEMMA ActiveQueue ==
  ASSUME RxInv, rx.phase = "ACTIVE"
  PROVE  /\ notes \in Seq(NoteRecord) /\ Len(notes) \in 0 .. 3
         /\ rx.next # Null \/ rx.request_open => notes = <<>> /\ Len(notes) = 0
         /\ \A i \in 1 .. Len(notes) : notes[i].type \in {"RDY", "RELEASED", "REQUEST"}
         /\ \A i \in 1 .. Len(notes) :
              notes[i].type \in News => notes[i].block \in Blocks \ {rx.buffer, rx.next}
<1>1. notes \in Seq(NoteRecord) /\ ActiveInv /\ LoanInv /\ QueueInv(notes, loan)
  BY Zenon DEF RxInv, RxType
<1>2. CASE rx.next # Null \/ rx.request_open
  <2>1. notes = <<>> /\ Len(notes) = 0
    BY <1>1, <1>2, Zenon DEF ActiveInv
  <2> QED
    BY <1>1, <2>1
<1>3. CASE rx.next = Null /\ ~rx.request_open
  <2>1. /\ Len(notes) \in 1 .. 3 /\ notes[Len(notes)].type = "REQUEST"
        /\ \A i \in 1 .. (Len(notes) - 1) : notes[i].type \in {"RDY", "RELEASED"}
    BY <1>1, <1>3, Zenon DEF ActiveInv
  <2>2. \A i \in 1 .. Len(notes) : i = Len(notes) \/ i \in 1 .. (Len(notes) - 1)
    BY <2>1
  <2>3. \A i \in 1 .. Len(notes) : notes[i].type \in {"RDY", "RELEASED", "REQUEST"}
    BY <2>1, <2>2, Zenon
  <2>4. ASSUME NEW i \in 1 .. Len(notes), notes[i].type \in News
        PROVE  notes[i].block \in Blocks \ {rx.buffer, rx.next}
    <3>1. /\ notes[i].block \in Blocks
          /\ \E j \in 1 .. Len(notes) : Tells(notes[j], "RELEASED", notes[i].block)
      <4>1. CASE notes[i].type = "RELEASED"
        BY <1>1, <4>1, Zenon DEF QueueInv, Tells
      <4>2. CASE notes[i].type \in {"RDY", "STOPPED"}
        <5>1. /\ notes[i].block \in Blocks
              /\ \E j \in (i + 1) .. Len(notes) : Tells(notes[j], "RELEASED", notes[i].block)
          BY <1>1, <4>2, Zenon DEF QueueInv
        <5>2. \A j \in (i + 1) .. Len(notes) : j \in 1 .. Len(notes)
          BY <2>1
        <5> QED
          BY <5>1, <5>2, Zenon
      <4> QED
        BY <2>4, <4>1, <4>2, Zenon DEF News
    <3> QED
      BY <1>1, <3>1, Zenon DEF LoanInv
  <2> QED
    BY <1>1, <1>3, <2>1, <2>3, <2>4
<1> QED
  BY <1>2, <1>3, Zenon

\* Stopping in the middle of a buffer (disable, an error on the line, a DMA
\* error), on a channel c that holds the count of bytes still to come.
LEMMA GateCountFinishInv ==
  ASSUME RxInv, rx.phase = "ACTIVE", NEW c, ByteChannel(c), SameBlock(c, dma),
         c.state # "UNCONFIGURED", NEW ok \in BOOLEAN, NEW line \in BOOLEAN, err # {} => line,
         GateCountFinish(c, ok, line), Gated
  PROVE  RxInv'
<1>1. /\ ActiveInv /\ LoanInv /\ loan \in [Blocks -> Account] /\ rx \in Session
      /\ NoSilentLoss /\ QueueInv(notes, loan)
  BY Zenon DEF RxInv, RxType
<1>2. PICK b \in Blocks : b = rx.buffer
  BY <1>1, Zenon DEF ActiveInv
<1>3. PICK n \in Blocks \cup {Null} : n = rx.next
  BY <1>1, Zenon DEF Session
<1>4. /\ loan[b] \in Account /\ loan[b].stored + dma.cntr = b.len /\ dma.cntr \in Nat
      /\ loan[b].reported = 0 /\ ~loan[b].unknown /\ b # n /\ b.len \in Nat
      /\ n # Null => loan[n] = [NoLoan EXCEPT !.lent = TRUE]
  BY <1>1, <1>2, <1>3, Bounds DEF ActiveInv, RxInv, ByteChannel, ChannelInv, Channel
<1>5. PICK off : off = Stopped(c)
  BY Zenon
<1>6. /\ ByteChannel(off) /\ off.state # "RUNNING" /\ off.state # "UNCONFIGURED"
      /\ off.cntr = dma.cntr /\ PendingLength(off) = dma.cntr
  <2>1. /\ ByteChannel(off) /\ off.state # "RUNNING" /\ off.state = "CONFIGURED"
        /\ off.cntr = dma.cntr
    BY <1>5, ByteStopped, Zenon DEF SameBlock
  <2> QED
    BY <2>1, BytesPending, Zenon
<1>7. CountKnown(off, ok) <=> ok
  BY <1>2, <1>4, <1>6 DEF CountKnown, Account
<1>8. PICK count, stopped :
        /\ count = Received(off, ok)
        /\ stopped = StopReason(off, ok, line)
  BY Zenon
<1>9. /\ dma' = off /\ flags' = {} /\ Finish(notes, b, n, count, stopped)
      /\ loan' = [loan EXCEPT ![b].unknown = ~CountKnown(off, ok)]
  BY <1>2, <1>3, <1>5, <1>8, Zenon DEF GateCountFinish
<1>10. /\ stopped \in BOOLEAN /\ count \in Nat
       /\ ~ok => stopped /\ count = 0
       /\ ok => count = loan[b].stored
       /\ line => stopped
  <2>1. stopped \in BOOLEAN /\ (stopped <=> line \/ ~ok)
    BY <1>7, <1>8, Zenon DEF StopReason
  <2>2. count = IF ok THEN b.len - dma.cntr ELSE 0
    BY <1>2, <1>6, <1>7, <1>8, Zenon DEF Received
  <2> QED
    BY <1>4, <2>1, <2>2 DEF Account
<1>11. /\ loan' \in [Blocks -> Account] /\ \A a \in Blocks \ {b} : loan'[a] = loan[a]
       /\ loan'[b].unknown <=> ~ok
       /\ loan'[b].lent <=> loan[b].lent
       /\ loan'[b].stored = loan[b].stored /\ loan'[b].reported = 0
  BY <1>1, <1>4, <1>7, <1>9, Zenon DEF Account
<1>12. Accounted(b, n, count, stopped, loan')
  <2>1. n # Null => ~loan'[n].unknown /\ loan'[n].reported = loan'[n].stored
    BY <1>3, <1>4, <1>11 DEF NoLoan
  <2> QED
    BY <1>3, <1>4, <1>10, <1>11, <2>1 DEF Accounted, Account
<1>13. missing => stopped
  BY <1>1, <1>10, Zenon DEF NoSilentLoss
<1>14. QueueInv(notes, loan')
  BY <1>1, <1>2, <1>11, ActiveQueue, QueueAccounts DEF News
<1>15. Lending(notes, b, n, loan')
  <2>1. ASSUME NEW a \in Blocks
        PROVE  /\ loan'[a].lent <=> \/ a = b \/ a = n
                                    \/ \E j \in 1 .. Len(notes) : Tells(notes[j], "RELEASED", a)
               /\ ~loan'[a].lent => loan'[a] = NoLoan
               /\ loan'[a].stored <= a.len
               /\ loan'[a].lent <=> loan[a].lent
    BY <1>1, <1>2, <1>3, <1>11, ZenonT(60) DEF LoanInv
  <2> QED
    BY <1>1, <2>1, Zenon DEF LoanInv, Lending
<1>16. SilentOn(notes, b, n)
  BY <1>2, <1>3, ActiveQueue DEF SilentOn
<1> QED
  BY <1>9, <1>12, <1>13, <1>14, <1>15, <1>16, FinishInv, Zenon

\* usart_wch_rx_disable() stops the session.
LEMMA DisableInv ==
  ASSUME RxInv, NEW x \in Contexts, usart_wch_rx_disable(x)
  PROVE  RxInv'
<1>1. PICK ok \in StatusOutcomes : GateCountFinish(dma, ok, err # {})
  BY Zenon DEF usart_wch_rx_disable
<1>2. PICK line \in BOOLEAN : line = (err # {})
  BY Zenon
<1>3. /\ ByteChannel(dma) /\ SameBlock(dma, dma) /\ rx.phase = "ACTIVE"
      /\ dma.state # "UNCONFIGURED" /\ ok \in BOOLEAN /\ (err # {} => line)
      /\ GateCountFinish(dma, ok, line)
  BY <1>1, <1>2, Zenon DEF RxInv, ActiveInv, SameBlock, StatusOutcomes, usart_wch_rx_disable
<1>4. Gated
  <2>1. ByteChannel(dma') /\ dma'.state # "RUNNING" /\ flags' = {}
    BY <1>3, ByteStopped, Zenon DEF GateCountFinish
  <2> QED
    BY <2>1, Dispatched, Zenon DEF usart_wch_rx_disable, RxInv, RxType, Gated
<1> QED
  BY <1>3, <1>4, GateCountFinishInv, Zenon

\* usart_wch_isr() stops the session on a receive error.
LEMMA UartIsrErrorInv ==
  ASSUME RxInv, usart_wch_isr_error
  PROVE  RxInv'
<1>1. PICK ok \in StatusOutcomes : GateCountFinish(dma, ok, TRUE)
  BY Zenon DEF usart_wch_isr_error
<1>2. PICK line \in BOOLEAN : line = TRUE
  BY Zenon
<1>3. /\ ByteChannel(dma) /\ SameBlock(dma, dma) /\ rx.phase = "ACTIVE"
      /\ dma.state # "UNCONFIGURED" /\ ok \in BOOLEAN /\ (err # {} => line)
      /\ GateCountFinish(dma, ok, line)
  BY <1>1, <1>2, Zenon DEF RxInv, ActiveInv, SameBlock, StatusOutcomes, usart_wch_isr_error
<1>4. Gated
  <2>1. ByteChannel(dma') /\ dma'.state # "RUNNING" /\ flags' = {}
    BY <1>3, ByteStopped, Zenon DEF GateCountFinish
  <2>2. /\ pc' \in [Contexts -> {"idle", "dispatch", "callback"}]
        /\ \A y \in Contexts : pc'[y] = "callback" <=> pc[y] = "callback"
    BY Zenon DEF usart_wch_isr_error, IsrFree, RxInv, RxType, Isrs
  <2> QED
    BY <2>1, <2>2, Zenon DEF usart_wch_isr_error, RxInv, RxType, Gated
<1> QED
  BY <1>3, <1>4, GateCountFinishInv, Zenon

\* A request for a buffer at the end of a queue keeps it in order.
LEMMA QueueRequest ==
  ASSUME NEW q \in Seq(NoteRecord), NEW l, QueueInv(q, l),
         NEW n \in NoteRecord, n.type = "REQUEST"
  PROVE  /\ Append(q, n) \in Seq(NoteRecord) /\ Len(Append(q, n)) = Len(q) + 1
         /\ \A i \in 1 .. Len(q) : Append(q, n)[i] = q[i]
         /\ Append(q, n)[Len(q) + 1] = n
         /\ QueueInv(Append(q, n), l)
<1>1. PICK f : f = Append(<<>>, n)
  BY Zenon
<1>2. f \in Seq(NoteRecord) /\ Len(f) = 1 /\ f[1] = n /\ QueueInv(f, l)
  BY <1>1, OneRequest, Zenon
<1>3. \A i \in 1 .. Len(q), j \in 1 .. Len(f) :
        q[i].type \in News /\ f[j].type \in News => q[i].block # f[j].block
  BY <1>2 DEF News
<1>4. QueueInv(q \o f, l)
  BY <1>2, <1>3, QueueJoin, Zenon
<1>5. f = <<n>>
  BY <1>1
<1>6. Append(q, n) = q \o f
  BY <1>5
<1>7. /\ Append(q, n) \in Seq(NoteRecord) /\ Len(Append(q, n)) = Len(q) + 1
      /\ \A i \in 1 .. Len(q) : Append(q, n)[i] = q[i]
      /\ Append(q, n)[Len(q) + 1] = n
  OBVIOUS
<1> QED
  BY <1>4, <1>6, <1>7, Zenon

\* From an empty queue e, usart_wch_rx_dma_callback() makes these notes.
LEMMA FullQueue ==
  ASSUME rx \in Session, NEW b, Full(b), NEW e \in Seq(NoteRecord), Len(e) = 0,
         NEW q, q = WithFull(e, b)
  PROVE  FullNotes(q, b)
<1> USE DEF Full
<1>1. b.len \in Nat /\ b.len > 0 /\ b \in Blocks \cup {Null} /\ 0 \in Nat
  BY Bounds
<1>2. PICK r, d : r = Note("RDY", b, b.len) /\ d = Note("RELEASED", b, 0)
  BY Zenon
<1>3. /\ r \in NoteRecord /\ r.type = "RDY" /\ r.block = b /\ r.len = b.len
      /\ d \in NoteRecord /\ d.type = "RELEASED" /\ d.block = b
  BY <1>1, <1>2, Zenon DEF Note, NoteRecord, Session
<1>4. q = (e \o <<r>>) \o <<d>>
  BY <1>1, <1>2, Zenon DEF WithFull, ReadyNote, ReleaseNote
<1>5. q \in Seq(NoteRecord) /\ Len(q) = 2 /\ q[1] = r /\ q[2] = d
  <2>1. PICK p : p = e \o <<r>>
    BY Zenon
  <2>2. p \in Seq(NoteRecord) /\ Len(p) = 1 /\ p[1] = r
    BY <1>3, <2>1
  <2>3. PICK u : u = <<d>>
    BY Zenon
  <2>4. u \in Seq(NoteRecord) /\ Len(u) = 1 /\ u[1] = d /\ q = p \o u
    BY <1>3, <1>4, <2>1, <2>3
  <2>5. /\ q \in Seq(NoteRecord) /\ Len(q) = Len(p) + Len(u)
        /\ \A i \in 1 .. Len(p) : q[i] = p[i]
        /\ \A i \in 1 .. Len(u) : q[Len(p) + i] = u[i]
    <3>1. p \in Seq(NoteRecord) /\ u \in Seq(NoteRecord) /\ q = p \o u
      BY <2>2, <2>4, Zenon
    <3> QED
      BY ONLY <3>1
  <2>6. 1 \in 1 .. Len(p) /\ 1 \in 1 .. Len(u) /\ Len(p) + 1 = 2 /\ Len(p) + Len(u) = 2
    BY <2>2, <2>4
  <2>7. Len(q) = 2 /\ q[1] = p[1] /\ q[2] = u[1]
    BY <2>5, <2>6, Zenon
  <2> QED
    BY <2>2, <2>4, <2>5, <2>7, Zenon
<1>6. \A i \in 1 .. Len(q) : i = 1 \/ i = 2
  BY <1>5
<1>7. Settles(q, 2, loan[b])
  <2>1. 1 \in 1 .. (2 - 1) /\ Tells(q[1], "RDY", b) /\ loan[b].reported + q[1].len = loan[b].stored
    BY <1>1, <1>3, <1>5 DEF Tells
  <2> QED
    BY <1>3, <1>5, <2>1, Zenon DEF Settles
<1>8. 2 \in (1 + 1) .. Len(q) /\ Tells(q[2], "RELEASED", b)
  BY <1>3, <1>5 DEF Tells
<1>9. QueueInv(q, loan)
  <2>1. ASSUME NEW i \in 1 .. Len(q)
        PROVE  /\ q[i].type \in {"RDY", "STOPPED"} =>
                    /\ q[i].block \in Blocks
                    /\ \E j \in (i + 1) .. Len(q) : Tells(q[j], "RELEASED", q[i].block)
               /\ q[i].type = "RDY" => q[i].len > 0
               /\ q[i].type = "RELEASED" => q[i].block \in Blocks /\ Settles(q, i, loan[q[i].block])
    BY <1>1, <1>3, <1>5, <1>6, <1>7, <1>8, Zenon
  <2>2. ASSUME NEW i \in 1 .. Len(q), NEW j \in 1 .. Len(q), i # j
        PROVE  ~Tells(q[j], q[i].type, q[i].block)
    BY <1>3, <1>5, <1>6, <2>2, Zenon DEF Tells
  <2> QED
    BY <2>1, <2>2, Zenon DEF QueueInv
<1> QED
  BY <1>3, <1>5, <1>9, Zenon DEF FullNotes

\* The last byte of the last buffer ends the session without a reason to report.
LEMMA CompleteInv ==
  ASSUME RxInv, rx.phase = "ACTIVE", "TC" \in flags, err = {}, rx.next = Null,
         Finish(notes, rx.buffer, Null, rx.buffer.len, FALSE), Gated, loan' = loan
  PROVE  RxInv'
<1>1. /\ ActiveInv /\ LoanInv /\ loan \in [Blocks -> Account] /\ NoSilentLoss
      /\ QueueInv(notes, loan) /\ ByteChannel(dma)
  BY Zenon DEF RxInv, RxType
<1>2. PICK b \in Blocks : b = rx.buffer
  BY <1>1, Zenon DEF ActiveInv
<1>3. /\ loan[b] \in Account /\ loan[b].stored = b.len /\ loan[b].reported = 0
      /\ ~loan[b].unknown /\ b # Null /\ b.len \in Nat
  BY <1>1, <1>2, Bounds DEF ActiveInv, Account
<1>4. PICK stopped \in BOOLEAN : ~stopped /\ Finish(notes, b, Null, b.len, stopped)
  BY <1>2, Zenon
<1>5. Accounted(b, Null, b.len, stopped, loan')
  BY <1>1, <1>3, <1>4 DEF Accounted
<1>6. missing => stopped
  BY <1>1, Zenon DEF NoSilentLoss
<1>7. Lending(notes, b, Null, loan')
  <2>1. \A a \in Blocks : a # Null
    BY Bounds, Zenon
  <2> QED
    BY <1>1, <1>2, <2>1, Zenon DEF LoanInv, Lending
<1>8. SilentOn(notes, b, Null)
  BY <1>2, ActiveQueue DEF SilentOn
<1> QED
  BY <1>1, <1>4, <1>5, <1>6, <1>7, <1>8, FinishInv, Zenon

\* The queue, once the full buffer is on its way out.
LEMMA HandOver ==
  ASSUME RxInv, rx.phase = "ACTIVE", "TC" \in flags, rx.next # Null,
         NEW done, done = notes \o ReadyNote(rx.buffer, rx.buffer.len) \o ReleaseNote(rx.buffer)
  PROVE  /\ done \in Seq(NoteRecord) /\ Len(done) = 2 /\ QueueInv(done, loan)
         /\ done[1].type = "RDY" /\ done[2].type = "RELEASED"
         /\ done[1].block = rx.buffer /\ done[2].block = rx.buffer
         /\ rx.buffer \in Blocks /\ rx.next \in Blocks /\ rx.buffer # rx.next
         /\ loan[rx.next] = [NoLoan EXCEPT !.lent = TRUE] /\ loan[rx.next].lent
         /\ loan[rx.next].stored = 0 /\ loan[rx.next].reported = 0 /\ ~loan[rx.next].unknown
         /\ Lending(done, rx.next, Null, loan) /\ SilentOn(done, rx.next, Null)
<1>1. /\ ActiveInv /\ LoanInv /\ loan \in [Blocks -> Account] /\ rx \in Session
      /\ notes \in Seq(NoteRecord) /\ ByteChannel(dma)
  BY Zenon DEF RxInv, RxType
<1>2. PICK b \in Blocks : b = rx.buffer
  BY <1>1, Zenon DEF ActiveInv
<1>3. PICK n \in Blocks : n = rx.next
  BY <1>1, Zenon DEF Session
<1>4. /\ loan[b] \in Account /\ loan[b].stored = b.len /\ loan[b].reported = 0
      /\ ~loan[b].unknown /\ b # n /\ notes = <<>> /\ Len(notes) = 0
      /\ loan[n] = [NoLoan EXCEPT !.lent = TRUE]
  BY <1>1, <1>2, <1>3, Bounds DEF ActiveInv, Account
<1>5. /\ done \in Seq(NoteRecord) /\ Len(done) = 2 /\ QueueInv(done, loan)
      /\ done[1].type = "RDY" /\ done[2].type = "RELEASED"
      /\ done[1].block = b /\ done[2].block = b
  <2>1. PICK e \in Seq(NoteRecord) : Len(e) = 0 /\ done = WithFull(e, b)
    <3>1. done = WithFull(notes, b)
      BY <1>2, Zenon DEF WithFull
    <3> QED
      BY ONLY <1>1, <1>4, <3>1, Zenon
  <2>2. rx \in Session /\ Full(b)
    BY <1>1, <1>4, Zenon DEF Full
  <2>3. FullNotes(done, b)
    BY ONLY <2>1, <2>2, FullQueue, Zenon
  <2> QED
    BY ONLY <2>3, Zenon DEF FullNotes
<1>6. \A i \in 1 .. Len(done) : i = 1 \/ i = 2
  BY <1>5
<1>7. SilentOn(done, n, Null)
  <2>1. Null \notin Blocks
    BY Bounds, Zenon
  <2>2. /\ \A i \in 1 .. Len(done) : done[i].block = b
        /\ b # n /\ b # Null
    BY <1>1, <1>4, <1>5, <1>6, <2>1, Zenon
  <2>3. \A i \in 1 .. Len(done) : done[i].type # "DISABLED"
    BY <1>5, <1>6, Zenon
  <2>4. Len(done) <= 3
    <3>1. PICK k : k = Len(done) /\ k = 2
      BY <1>5, Zenon
    <3>2. k <= 3
      BY ONLY <3>1
    <3> QED
      BY ONLY <3>1, <3>2, Zenon
  <2> QED
    BY ONLY <1>5, <2>2, <2>3, <2>4, Zenon DEF SilentOn
<1>8. ASSUME NEW a \in Blocks
      PROVE  loan[a].lent <=> \/ a = n \/ a = Null
                              \/ \E j \in 1 .. Len(done) : Tells(done[j], "RELEASED", a)
  <2>1. a # Null
    BY Bounds, Zenon
  <2>2. loan[a].lent <=> a = b \/ a = n
    BY <1>1, <1>2, <1>3, <1>4 DEF LoanInv
  <2>3. 2 \in 1 .. Len(done) /\ Tells(done[2], "RELEASED", b)
    BY <1>5 DEF Tells
  <2>4. \A j \in 1 .. Len(done) : Tells(done[j], "RELEASED", a) => a = b
    BY <1>5, <1>6, Zenon DEF Tells
  <2> QED
    BY <2>1, <2>2, <2>3, <2>4, Zenon
<1>9. Lending(done, n, Null, loan)
  BY <1>1, <1>8, Zenon DEF LoanInv, Lending
<1>10. loan[n].lent /\ loan[n].stored = 0 /\ loan[n].reported = 0 /\ ~loan[n].unknown
  BY <1>4, Zenon DEF NoLoan
<1> QED
  BY <1>2, <1>3, <1>4, <1>5, <1>7, <1>9, <1>10, Zenon

\* A hand-over that fails releases the next buffer as well, empty.
LEMMA HandOverFailedInv ==
  ASSUME RxInv, rx.phase = "ACTIVE", "TC" \in flags, rx.next # Null,
         NEW done, done = notes \o ReadyNote(rx.buffer, rx.buffer.len) \o ReleaseNote(rx.buffer),
         HandOverFailed(done), Gated, loan' = loan
  PROVE  RxInv'
<1>1. PICK n : n = rx.next
  BY Zenon
<1>2. /\ n \in Blocks /\ done \in Seq(NoteRecord) /\ QueueInv(done, loan)
      /\ loan[n].stored = 0 /\ loan[n].reported = 0 /\ ~loan[n].unknown
      /\ Lending(done, n, Null, loan) /\ SilentOn(done, n, Null)
  BY <1>1, HandOver, Zenon
<1>3. PICK stopped \in BOOLEAN : stopped /\ Finish(done, n, Null, 0, stopped)
  BY <1>1, Zenon DEF HandOverFailed
<1>4. Accounted(n, Null, 0, stopped, loan')
  <2>1. Null # n /\ loan \in [Blocks -> Account]
    BY <1>2, Bounds, Zenon DEF RxInv, RxType
  <2> QED
    BY <1>2, <1>3, <2>1 DEF Accounted
<1> QED
  BY <1>2, <1>3, <1>4, FinishInv, Zenon

\* A hand-over makes the next buffer the current one and asks for another.
LEMMA HandOverInv ==
  ASSUME RxInv, rx.phase = "ACTIVE", "TC" \in flags, rx.next # Null, NEW c, ByteChannel(c),
         NEW done, done = notes \o ReadyNote(rx.buffer, rx.buffer.len) \o ReleaseNote(rx.buffer),
         Start(Stopped(c), rx.next, done), UNCHANGED <<rxne, err, missing, loan, callback>>,
         pending' \in BOOLEAN, pc' \in [Contexts -> {"idle", "dispatch", "callback"}],
         \A x \in Contexts : pc'[x] = "callback" <=> pc[x] = "callback"
  PROVE  RxInv'
<1>1. PICK n : n = rx.next
  BY Zenon
<1>2. /\ n \in Blocks /\ done \in Seq(NoteRecord) /\ QueueInv(done, loan) /\ Len(done) = 2
      /\ done[1].type = "RDY" /\ done[2].type = "RELEASED" /\ n # Null
      /\ loan[n].stored = 0 /\ loan[n].reported = 0 /\ ~loan[n].unknown
      /\ Lending(done, n, Null, loan) /\ SilentOn(done, n, Null)
  BY <1>1, HandOver, Zenon
<1>3. /\ dma' = Started(Configured(Stopped(c), RxRequest(n))) /\ flags' = {} /\ dmar' = TRUE
      /\ rx' = [rx EXCEPT !.phase = "ACTIVE", !.buffer = n, !.next = Null,
                          !.request_open = FALSE, !.generation = NextGeneration]
      /\ notes' = Append(done, RequestNote)
  BY <1>1, Zenon DEF Start
<1>4. /\ ByteChannel(dma') /\ dma'.state = "RUNNING" /\ dma'.cntr = n.len /\ dma'.maddr = n.addr
  BY <1>2, <1>3, StartedChannel, Zenon
<1>5. /\ RequestNote \in NoteRecord /\ RequestNote.type = "REQUEST"
      /\ RequestNote.generation = NextGeneration /\ NextGeneration \in 0 .. (Generations - 1)
  BY RequestFields, Zenon DEF RxInv, RxType
<1>6. /\ rx' \in Session /\ rx'.phase = "ACTIVE" /\ rx'.buffer = n /\ rx'.next = Null
      /\ ~rx'.request_open /\ rx'.generation = NextGeneration /\ rx'.dispatching = rx.dispatching
  BY <1>2, <1>3, <1>5, Zenon DEF RxInv, RxType, Session
<1>7. /\ notes' \in Seq(NoteRecord) /\ Len(notes') = 3 /\ QueueInv(notes', loan)
      /\ notes'[1] = done[1] /\ notes'[2] = done[2] /\ notes'[3] = RequestNote
      /\ \A i \in 1 .. Len(done) : notes'[i] = done[i]
  <2>1. /\ notes' \in Seq(NoteRecord) /\ Len(notes') = Len(done) + 1 /\ QueueInv(notes', loan)
        /\ \A i \in 1 .. Len(done) : notes'[i] = done[i]
        /\ notes'[Len(done) + 1] = RequestNote
    BY <1>2, <1>3, <1>5, QueueRequest, Zenon
  <2>2. Len(done) = 2 /\ 2 + 1 = 3 /\ 1 \in 1 .. 2 /\ 2 \in 1 .. 2
    BY <1>2
  <2> QED
    BY ONLY <2>1, <2>2, Zenon
<1>8. RxType' /\ DispatchInv' /\ NoSilentLoss' /\ PhaseInv'
  <2>1. DispatchInv'
    BY <1>6, SameInside, Zenon DEF RxInv
  <2> QED
    BY <1>3, <1>6, <1>7, <2>1, Zenon DEF RxInv, RxType, NoSilentLoss, PhaseInv
<1>9. ActiveInv'
  <2>1. \A i \in 1 .. (Len(notes') - 1) : i = 1 \/ i = 2
    BY <1>7
  <2>2. n.len \in Nat
    BY <1>2, Bounds, Zenon
  <2>3. /\ Len(notes') \in 1 .. 3 /\ notes'[Len(notes')].type = "REQUEST"
        /\ notes'[Len(notes')].generation = rx'.generation
        /\ \A i \in 1 .. (Len(notes') - 1) : notes'[i].type \in {"RDY", "RELEASED"}
    <3>1. Len(notes') = 3 /\ notes'[3].type = "REQUEST" /\ notes'[3].generation = rx'.generation
      BY ONLY <1>5, <1>6, <1>7, Zenon
    <3>2. notes'[1].type = "RDY" /\ notes'[2].type = "RELEASED"
      BY ONLY <1>2, <1>7, Zenon
    <3> QED
      BY ONLY <2>1, <3>1, <3>2
  <2>4. loan'[n].stored + dma'.cntr = n.len /\ loan'[n].reported = 0 /\ ~loan'[n].unknown
    <3>1. loan' = loan
      BY Zenon
    <3> QED
      BY ONLY <1>2, <1>4, <2>2, <3>1
  <2>5. n \in Blocks /\ n # Null /\ flags' = {} /\ dmar' = TRUE
    BY <1>2, <1>3, Zenon
  <2> QED
    BY ONLY <1>4, <1>6, <2>3, <2>4, <2>5, ZenonT(60) DEF ActiveInv
<1>10. LoanInv'
  <2>1. ASSUME NEW a \in Blocks
        PROVE  (\E j \in 1 .. Len(notes') : Tells(notes'[j], "RELEASED", a))
                 <=> (\E j \in 1 .. Len(done) : Tells(done[j], "RELEASED", a))
    <3>0. Len(done) = 2 /\ Len(notes') = 3
      BY ONLY <1>2, <1>7, Zenon
    <3>1. \A j \in 1 .. Len(notes') : j = 3 \/ j \in 1 .. Len(done)
      BY ONLY <3>0
    <3>2. \A j \in 1 .. Len(done) : j \in 1 .. Len(notes')
      BY ONLY <3>0
    <3> QED
      BY <1>5, <1>7, <3>1, <3>2, ZenonT(60) DEF Tells
  <2>2. \A j \in 1 .. Len(done) : ~Tells(done[j], "RELEASED", n)
    BY <1>2, Zenon DEF SilentOn, Tells, News
  <2>3. \A a \in Blocks : a # Null
    BY Bounds, Zenon
  <2> QED
    BY <1>2, <1>6, <2>1, <2>2, <2>3, Zenon DEF LoanInv, Lending
<1> QED
  BY <1>4, <1>7, <1>8, <1>9, <1>10, Zenon DEF RxInv

\* dma_wch_isr(), with the callback of this channel.
LEMMA DmaIsrInv ==
  ASSUME RxInv, dma_wch_isr
  PROVE  RxInv'
<1>1. PICK s, c : s = IsrStatus(dma, flags) /\ c = IsrChannel(dma, flags)
  BY Zenon
<1>2. /\ ByteChannel(dma) /\ ByteChannel(c) /\ SameBlock(c, dma)
      /\ s \in {"none", "EIO", "COMPLETE"}
      /\ s = "none" => c = dma
      /\ s # "none" => dma.state = "RUNNING" /\ c.state = "CONFIGURED"
      /\ s = "COMPLETE" => "TC" \in flags
  BY <1>1, ByteIsr DEF RxInv
<1>3. /\ pending' = FALSE /\ callback' = callback /\ IsrFree
      /\ pc \in [Contexts -> {"idle", "dispatch", "callback"}] /\ "dma_isr" \in Contexts
      /\ pc["dma_isr"] = "idle"
  BY Zenon DEF dma_wch_isr, RxInv, RxType, IsrFree, Isrs, Contexts
<1>4. CASE s \in {"EIO", "COMPLETE"} /\ rx.phase = "ACTIVE"
  <2>1. /\ usart_wch_rx_dma_callback(s, c)
        /\ pc' = [pc EXCEPT !["dma_isr"] = "dispatch"]
    BY <1>1, <1>4, Zenon DEF dma_wch_isr
  <2>2. /\ pc' \in [Contexts -> {"idle", "dispatch", "callback"}]
        /\ \A x \in Contexts : pc'[x] = "callback" <=> pc[x] = "callback"
    BY <1>3, <2>1, Zenon
  <2>3. ASSUME ByteChannel(dma'), dma'.state # "RUNNING", flags' = {} PROVE Gated
    BY <1>3, <2>2, <2>3, Zenon DEF Gated
  <2>4. /\ ByteChannel(Stopped(c)) /\ Stopped(c).state # "RUNNING"
        /\ ByteChannel(Stopped(Stopped(c))) /\ Stopped(Stopped(c)).state # "RUNNING"
    BY <1>2, ByteStopped, Zenon
  <2>5. CASE \E ok \in StatusOutcomes : GateCountFinish(c, ok, TRUE)
    <3>1. PICK ok \in StatusOutcomes : GateCountFinish(c, ok, TRUE)
      BY <2>5, Zenon
    <3>2. PICK line \in BOOLEAN : line /\ GateCountFinish(c, ok, line)
      BY <3>1, Zenon
    <3>3. Gated /\ ok \in BOOLEAN /\ c.state # "UNCONFIGURED"
      BY <1>2, <1>4, <2>3, <2>4, <3>1, Zenon DEF GateCountFinish, StatusOutcomes
    <3> QED
      BY <1>2, <1>4, <3>2, <3>3, GateCountFinishInv, Zenon
  <2>6. CASE /\ err = {} /\ s = "COMPLETE" /\ rx.next = Null /\ dma' = Stopped(c) /\ flags' = {}
             /\ Finish(notes, rx.buffer, Null, rx.buffer.len, FALSE) /\ loan' = loan
    <3>1. Gated /\ "TC" \in flags
      BY <1>2, <2>3, <2>4, <2>6, Zenon
    <3> QED
      BY <1>4, <2>6, <3>1, CompleteInv, Zenon
  <2>7. CASE /\ err = {} /\ s = "COMPLETE" /\ rx.next # Null /\ loan' = loan
             /\ LET done == notes \o ReadyNote(rx.buffer, rx.buffer.len)
                                  \o ReleaseNote(rx.buffer)
                IN \/ /\ Start(Stopped(c), rx.next, done)
                      /\ UNCHANGED <<rxne, err, missing>>
                   \/ \E fault \in StartFaults :
                        /\ StartFailed(Stopped(c), rx.next, fault)
                        /\ HandOverFailed(done)
    <3>1. PICK done : done = notes \o ReadyNote(rx.buffer, rx.buffer.len) \o ReleaseNote(rx.buffer)
      BY Zenon
    <3>2. "TC" \in flags /\ rx.next \in Blocks
      BY <1>2, <2>7, Zenon DEF RxInv, RxType, Session
    <3>3. CASE Start(Stopped(c), rx.next, done) /\ UNCHANGED <<rxne, err, missing>>
      <4>1. pending' \in BOOLEAN /\ UNCHANGED <<rxne, err, missing, loan, callback>>
        BY <1>3, <2>7, <3>3, Zenon
      <4> QED
        BY <1>2, <1>4, <2>2, <2>7, <3>1, <3>2, <3>3, <4>1, HandOverInv, Zenon
    <3>4. CASE \E fault \in StartFaults :
                 StartFailed(Stopped(c), rx.next, fault) /\ HandOverFailed(done)
      <4>1. PICK fault \in StartFaults :
              StartFailed(Stopped(c), rx.next, fault) /\ HandOverFailed(done)
        BY <3>4, Zenon
      <4>2. /\ ByteChannel(Stopped(Configured(Stopped(c), RxRequest(rx.next))))
            /\ Stopped(Configured(Stopped(c), RxRequest(rx.next))).state # "RUNNING"
        BY <1>2, <3>2, StartedChannel, Zenon
      <4>3. Gated
        BY <2>3, <2>4, <4>1, <4>2, Zenon DEF StartFailed
      <4> QED
        BY <1>4, <2>7, <3>1, <3>2, <4>1, <4>3, HandOverFailedInv, Zenon
    <3> QED
      BY <2>7, <3>1, <3>3, <3>4, Zenon
  <2> QED
    BY <2>1, <2>5, <2>6, <2>7, Zenon DEF usart_wch_rx_dma_callback
<1>5. CASE ~(s \in {"EIO", "COMPLETE"} /\ rx.phase = "ACTIVE")
  <2>1. s = "none"
    BY <1>2, <1>5, Zenon DEF RxInv, PhaseInv
  <2>2. /\ dma' = dma /\ flags' = {} /\ pc' = [pc EXCEPT !["dma_isr"] = "idle"]
        /\ UNCHANGED <<rx, notes, dmar, rxne, err, missing, loan>>
    BY <1>1, <1>2, <1>5, <2>1, Zenon DEF dma_wch_isr
  <2>3. /\ pc' \in [Contexts -> {"idle", "dispatch", "callback"}]
        /\ \A x \in Contexts : pc'[x] = "callback" <=> pc[x] = "callback"
    BY <1>3, <2>2, Zenon
  <2>4. DispatchInv'
    BY <2>2, <2>3, SameInside, Zenon DEF RxInv
  <2>5. RxType' /\ PhaseInv' /\ ActiveInv' /\ NoSilentLoss'
    BY <1>3, <2>2, <2>3, ZenonT(60) DEF RxInv, RxType, PhaseInv, ActiveInv, NoSilentLoss
  <2>6. QueueInv(notes', loan') /\ LoanInv' /\ ByteChannel(dma')
    BY <2>2, Zenon DEF RxInv, LoanInv
  <2> QED
    BY <2>4, <2>5, <2>6, Zenon DEF RxInv
<1> QED
  BY <1>4, <1>5, Zenon

\* Only pc moves, and no context enters or leaves the callback.
LEMMA OnlyPc ==
  ASSUME RxInv, UNCHANGED <<rx, notes, callback, channel, dmar, rxne, err, app>>,
         pc' \in [Contexts -> {"idle", "dispatch", "callback"}],
         \A x \in Contexts : pc'[x] = "callback" <=> pc[x] = "callback"
  PROVE  RxInv'
<1>1. UNCHANGED <<rx, notes, callback, dma, flags, pending, dmar, rxne, err, loan, missing>>
  BY Zenon DEF channel, app
<1>2. DispatchInv'
  BY <1>1, SameInside, Zenon DEF RxInv
<1>3. RxType' /\ PhaseInv' /\ ActiveInv' /\ NoSilentLoss'
  BY <1>1 DEF RxInv, RxType, PhaseInv, ActiveInv, NoSilentLoss
<1>4. QueueInv(notes', loan') /\ LoanInv' /\ ByteChannel(dma')
  BY <1>1, Zenon DEF RxInv, LoanInv
<1> QED
  BY <1>2, <1>3, <1>4, Zenon DEF RxInv

\* A context that finds the dispatcher running leaves.
LEMMA DispatchLeftInv ==
  ASSUME RxInv, NEW x \in Contexts, DispatchLeft(x)
  PROVE  RxInv'
<1>1. /\ pc' \in [Contexts -> {"idle", "dispatch", "callback"}]
      /\ \A y \in Contexts : pc'[y] = "callback" <=> pc[y] = "callback"
  BY Zenon DEF DispatchLeft, RxInv, RxType
<1> QED
  BY <1>1, OnlyPc, Zenon DEF DispatchLeft

\* usart_wch_isr() for the transmitter.
LEMMA UartIsrTxInv ==
  ASSUME RxInv, usart_wch_isr_tx
  PROVE  RxInv'
<1>1. /\ pc' \in [Contexts -> {"idle", "dispatch", "callback"}]
      /\ \A y \in Contexts : pc'[y] = "callback" <=> pc[y] = "callback"
  BY Zenon DEF usart_wch_isr_tx, IsrFree, Isrs, RxInv, RxType
<1> QED
  BY <1>1, OnlyPc, Zenon DEF usart_wch_isr_tx

\* A frame arrives: a byte that is lost leaves ORE standing.
LEMMA ByteArrivesInv ==
  ASSUME RxInv, ByteArrives
  PROVE  RxInv'
<1>1. /\ UNCHANGED <<rx, notes, callback, dma, flags, pending, dmar, pc, loan>>
      /\ rxne' \in BOOLEAN /\ missing' \in BOOLEAN /\ err' \subseteq {"ORE", "LINE"}
      /\ missing' => missing \/ (rx.phase = "ACTIVE" /\ "ORE" \in err')
      /\ err \subseteq err'
  BY Zenon DEF ByteArrives, channel, RxInv, RxType
<1>2. RxType' /\ PhaseInv' /\ ActiveInv'
  BY <1>1, Zenon DEF RxInv, RxType, PhaseInv, ActiveInv
<1>3. NoSilentLoss'
  BY <1>1, Zenon DEF RxInv, NoSilentLoss
<1>4. QueueInv(notes', loan') /\ LoanInv' /\ ByteChannel(dma') /\ DispatchInv'
  BY <1>1, Zenon DEF RxInv, LoanInv, DispatchInv
<1> QED
  BY <1>2, <1>3, <1>4, Zenon DEF RxInv

\* A bus error stops the engine; the session learns of it in the interrupt.
LEMMA EngineErrorInv ==
  ASSUME RxInv, EngineError
  PROVE  RxInv'
<1>1. /\ UNCHANGED <<rx, notes, callback, dmar, rxne, err, pc, loan, missing>>
      /\ dma' = Faulted(dma) /\ flags' = flags \cup {"TE"} /\ pending' = TRUE
  BY Zenon DEF EngineError, app
<1>2. /\ ByteChannel(dma') /\ dma'.cntr = dma.cntr /\ dma'.maddr = dma.maddr
      /\ dma'.state = dma.state
  BY <1>1, ByteFaulted, Zenon DEF RxInv, SameBlock
<1>3. RxType' /\ PhaseInv' /\ ActiveInv' /\ NoSilentLoss'
  BY <1>1, <1>2, ZenonT(60) DEF RxInv, RxType, PhaseInv, ActiveInv, NoSilentLoss, Flags
<1>4. QueueInv(notes', loan') /\ LoanInv' /\ DispatchInv'
  BY <1>1, Zenon DEF RxInv, LoanInv, DispatchInv
<1> QED
  BY <1>2, <1>3, <1>4, Zenon DEF RxInv

\* DMA stores a byte: only the current buffer's account moves, for no other buffer
\* that is lent begins where the channel points.
LEMMA StoreByteInv ==
  ASSUME RxInv, StoreByte
  PROVE  RxInv'
<1>1. /\ UNCHANGED <<rx, notes, callback, dmar, err, pc, missing>> /\ rxne' = FALSE
      /\ dma' = Moved(dma) /\ flags' = flags \cup MoveFlags(dma) /\ CanMove(dma)
      /\ pending' = (pending \/ MoveFlags(dma) \cap dma.ie # {})
      /\ loan' = [b \in Blocks |->
                    IF loan[b].lent /\ b.addr = dma.maddr
                      THEN [loan[b] EXCEPT !.stored = @ + 1] ELSE loan[b]]
  BY Zenon DEF StoreByte, Receiving
<1>2. /\ ByteChannel(dma') /\ dma.state = "RUNNING" /\ dma'.state = "RUNNING"
      /\ dma.cntr \in Nat \ {0} /\ dma'.cntr = dma.cntr - 1 /\ dma'.maddr = dma.maddr
      /\ MoveFlags(dma) \subseteq Flags
      /\ "TC" \in MoveFlags(dma) <=> dma.cntr = 1
  BY <1>1, ByteMoved, Zenon DEF RxInv
<1>3. rx.phase = "ACTIVE"
  BY <1>2, Zenon DEF RxInv, PhaseInv
<1>4. PICK b \in Blocks : b = rx.buffer
  BY <1>3, Zenon DEF RxInv, ActiveInv
<1>5. /\ loan \in [Blocks -> Account] /\ loan[b] \in Account /\ loan[b].lent
      /\ dma.maddr = b.addr /\ loan[b].stored + dma.cntr = b.len
      /\ loan[b].reported = 0 /\ ~loan[b].unknown /\ rx.next # b /\ b.len \in Nat
      /\ "TC" \notin flags
  BY <1>2, <1>3, <1>4, Bounds, ZenonT(60) DEF RxInv, RxType, ActiveInv, LoanInv
<1>6. \A a \in Blocks \ {b} : ~(loan[a].lent /\ a.addr = dma.maddr)
  <2>1. ASSUME NEW a \in Blocks \ {b}, loan[a].lent, a.addr = b.addr PROVE FALSE
    <3>1. ~Overlap(a, b)
      BY <1>5, <2>1, Zenon DEF RxInv, LoanInv
    <3>2. a.addr \in Nat /\ a.len \in Nat \ {0} /\ b.addr \in Nat /\ b.len \in Nat \ {0}
      BY Bounds
    <3> QED
      BY <2>1, <3>1, <3>2 DEF Overlap
  <2> QED
    BY <1>5, <2>1, Zenon
<1>7. \A a \in Blocks \ {b} : loan'[a] = loan[a]
  BY <1>1, <1>6, Zenon
<1>8. /\ loan'[b] = [loan[b] EXCEPT !.stored = @ + 1] /\ loan'[b] \in Account
      /\ loan'[b].lent /\ loan'[b].stored = loan[b].stored + 1
      /\ loan'[b].reported = 0 /\ ~loan'[b].unknown
  BY <1>1, <1>5 DEF Account
<1>9. loan' \in [Blocks -> Account]
  <2>1. \A a \in Blocks : loan'[a] \in Account
    BY <1>5, <1>7, <1>8, Zenon
  <2> QED
    BY <1>1, <2>1, Zenon
<1>10. RxType' /\ PhaseInv' /\ DispatchInv' /\ NoSilentLoss'
  <2>1. pending' \in BOOLEAN /\ flags' \subseteq Flags
    BY <1>1, <1>2, Zenon DEF RxInv, RxType
  <2> QED
    BY <1>1, <1>3, <1>9, <2>1, ZenonT(60) DEF RxInv, RxType, PhaseInv, DispatchInv, NoSilentLoss
<1>11. ActiveInv'
  <2>1. loan'[b].stored + dma'.cntr = b.len
    BY <1>2, <1>5, <1>8 DEF Account
  <2>2. "TC" \in flags' => dma'.cntr = 0
    BY <1>1, <1>2, <1>5
  <2>3. rx.next # Null => rx.next \in Blocks /\ loan'[rx.next] = loan[rx.next]
    BY <1>5, <1>7, Zenon DEF RxInv, RxType, Session
  <2> QED
    BY <1>1, <1>2, <1>3, <1>4, <1>8, <2>1, <2>2, <2>3, ZenonT(60) DEF RxInv, ActiveInv
<1>12. QueueInv(notes', loan')
  <2>1. \A j \in 1 .. Len(notes) : notes[j].type = "RELEASED" =>
          loan'[notes[j].block] = loan[notes[j].block]
    BY <1>3, <1>4, <1>7, ActiveQueue, Zenon DEF News
  <2> QED
    BY <1>1, <2>1, QueueAccounts, Zenon DEF RxInv, RxType
<1>13. LoanInv'
  <2>1. loan'[b].stored <= b.len
    BY <1>2, <1>5, <1>8 DEF Account
  <2>2. \A a \in Blocks : loan'[a].lent <=> loan[a].lent
    BY <1>5, <1>7, <1>8, Zenon
  <2> QED
    BY <1>1, <1>4, <1>7, <1>8, <2>1, <2>2, ZenonT(60) DEF RxInv, LoanInv
<1> QED
  BY <1>2, <1>10, <1>11, <1>12, <1>13, Zenon DEF RxInv

\* usart_wch_rx_buf_rsp(): the overlap test of the code, with the application's
\* promise, keeps the buffers lent apart.
LEMMA BufRspInv ==
  ASSUME RxInv, NEW x \in Contexts, NEW b \in Blocks, usart_wch_rx_buf_rsp(x, b)
  PROVE  RxInv'
<1>1. /\ UNCHANGED <<notes, callback, dma, flags, pending, dmar, rxne, err, pc, missing>>
      /\ rx.phase = "ACTIVE" /\ rx.next = Null /\ rx.request_open
      /\ rx' = [rx EXCEPT !.next = b, !.request_open = FALSE]
      /\ loan' = [loan EXCEPT ![b] = [NoLoan EXCEPT !.lent = TRUE]]
      /\ Lendable(b, rx.buffer) /\ ~Rejected(b, rx.buffer)
  BY Zenon DEF usart_wch_rx_buf_rsp, Asked, Lend, channel
<1>2. PICK c \in Blocks : c = rx.buffer
  BY <1>1, Zenon DEF RxInv, ActiveInv
<1>3. notes = <<>> /\ Len(notes) = 0
  BY <1>1, ActiveQueue, Zenon
<1>4. b # c /\ ~Overlap(b, c) /\ ~Overlap(c, b)
  <2>1. b.addr \in Nat /\ b.len \in Nat \ {0} /\ c.addr \in Nat /\ c.len \in Nat \ {0}
    BY Bounds
  <2> QED
    BY <1>1, <1>2, <2>1 DEF Rejected, Overlap
<1>5. \A a \in Blocks : loan[a].lent <=> a = c
  <2>1. \A a \in Blocks : a # Null
    BY Bounds, Zenon
  <2> QED
    BY <1>1, <1>2, <1>3, <2>1 DEF RxInv, LoanInv
<1>6. /\ loan' \in [Blocks -> Account] /\ \A a \in Blocks \ {b} : loan'[a] = loan[a]
      /\ loan'[b] = [NoLoan EXCEPT !.lent = TRUE] /\ loan'[b].lent /\ loan'[b].stored = 0
  BY <1>1, Zenon DEF RxInv, RxType, NoLoan, Account
<1>7. /\ rx' \in Session /\ rx'.phase = "ACTIVE" /\ rx'.buffer = c /\ rx'.next = b
      /\ ~rx'.request_open /\ rx'.dispatching = rx.dispatching /\ b # Null
  BY <1>1, <1>2, Bounds, Zenon DEF RxInv, RxType, Session
<1>8. RxType' /\ PhaseInv' /\ NoSilentLoss' /\ DispatchInv'
  BY <1>1, <1>6, <1>7, SMTT(30) DEF RxInv, RxType, PhaseInv, NoSilentLoss, DispatchInv
<1>9. ActiveInv'
  <2>1. /\ dmar /\ dma.state = "RUNNING" /\ dma.maddr = c.addr
        /\ ("TC" \in flags => dma.cntr = 0)
        /\ loan[c].stored + dma.cntr = c.len /\ loan[c].reported = 0 /\ ~loan[c].unknown
    BY <1>1, <1>2, Zenon DEF RxInv, ActiveInv
  <2>2. loan'[c] = loan[c]
    BY <1>4, <1>6, Zenon
  <2> QED
    BY <1>1, <1>3, <1>4, <1>6, <1>7, <2>1, <2>2, Zenon DEF ActiveInv
<1>10. QueueInv(notes', loan')
  <2>1. \A j \in 1 .. Len(notes') : FALSE
    BY <1>1, <1>3
  <2> QED
    BY <2>1, Zenon DEF QueueInv
<1>11. LoanInv'
  <2>1. \A j \in 1 .. Len(notes') : FALSE
    BY <1>1, <1>3
  <2>2. \A a \in Blocks : loan'[a].lent <=> a = c \/ a = b
    BY <1>4, <1>5, <1>6, Zenon
  <2>3. \A a \in Blocks : (~loan'[a].lent => loan'[a] = NoLoan) /\ loan'[a].stored <= a.len
    <3>1. 0 <= b.len
      BY Bounds
    <3> QED
      BY <1>6, <2>2, <3>1, Zenon DEF RxInv, LoanInv
  <2> QED
    BY <1>4, <1>7, <2>1, <2>2, <2>3, Zenon DEF LoanInv
<1> QED
  BY <1>1, <1>8, <1>9, <1>10, <1>11, Zenon DEF RxInv

\* The dispatcher passes over requests only, which an active session does not
\* let it do: its one request is the last note, and of its generation.
LEMMA Passed ==
  ASSUME RxInv, NEW i \in 1 .. Len(notes), Deliverable(notes[i]),
         \A j \in 1 .. (i - 1) : ~Deliverable(notes[j])
  PROVE  /\ \A j \in 1 .. (i - 1) : notes[j].type = "REQUEST"
         /\ rx.phase # "IDLE" /\ callback # "null"
         /\ rx.phase = "ACTIVE" =>
              /\ i = 1 /\ ~rx.request_open /\ rx.next = Null
              /\ notes[i].type \in {"RDY", "RELEASED", "REQUEST"}
              /\ notes[i].type = "REQUEST" <=> i = Len(notes)
         /\ rx.phase = "STOPPING" =>
              notes[i].type # "REQUEST" /\ (notes[i].type = "DISABLED" <=> i = Len(notes))
<1>1. notes \in Seq(NoteRecord) /\ Len(notes) \in Nat /\ rx \in Session
  BY DEF RxInv, RxType
<1>2. \A j \in 1 .. (i - 1) : notes[j].type = "REQUEST"
  BY Zenon DEF Deliverable
<1>3. rx.phase # "IDLE" /\ callback # "null"
  <2>1. rx.phase # "IDLE"
    <3>1. SUFFICES ASSUME rx.phase = "IDLE" PROVE FALSE
      BY Zenon
    <3>2. Len(notes) = 0
      BY <3>1 DEF RxInv, PhaseInv
    <3> QED
      BY <3>2
  <2> QED
    BY <2>1, Zenon DEF RxInv, PhaseInv
<1>4. ASSUME rx.phase = "ACTIVE"
      PROVE  /\ i = 1 /\ ~rx.request_open /\ rx.next = Null
             /\ notes[i].type \in {"RDY", "RELEASED", "REQUEST"}
             /\ notes[i].type = "REQUEST" <=> i = Len(notes)
  <2>1. ~rx.request_open /\ rx.next = Null
    BY <1>4, ActiveQueue
  <2>2. /\ notes[Len(notes)].type = "REQUEST"
        /\ \A j \in 1 .. (Len(notes) - 1) : notes[j].type \in {"RDY", "RELEASED"}
    BY <1>4, <2>1, Zenon DEF RxInv, ActiveInv
  <2>3. i = 1
    <3>1. SUFFICES ASSUME i # 1 PROVE FALSE
      BY Zenon
    <3>2. 1 \in 1 .. (i - 1) /\ 1 \in 1 .. (Len(notes) - 1)
      BY <1>1, <3>1
    <3> QED
      BY <1>2, <2>2, <3>2, Zenon
  <2>4. i = Len(notes) \/ i \in 1 .. (Len(notes) - 1)
    BY <1>1
  <2> QED
    BY <2>1, <2>2, <2>3, <2>4, Zenon
<1>5. ASSUME rx.phase = "STOPPING"
      PROVE  notes[i].type # "REQUEST" /\ (notes[i].type = "DISABLED" <=> i = Len(notes))
  <2>1. i = Len(notes) \/ i \in 1 .. (Len(notes) - 1)
    BY <1>1
  <2> QED
    BY <1>5, <2>1, Zenon DEF RxInv, PhaseInv, Deliverable
<1> QED
  BY <1>2, <1>3, <1>4, <1>5, Zenon

\* Delivering a note moves the accounts that way.
LEMMA LoanFollows ==
  ASSUME RxInv, NEW x \in Contexts, NEW i \in 1 .. Len(notes), Deliver(x, i)
  PROVE  /\ Follows(notes[i], loan, loan')
         /\ notes[i].type \in News => notes[i].block \in Blocks /\ loan[notes[i].block].lent
<1>1. PICK n \in NoteRecord : n = notes[i]
  BY DEF RxInv, RxType
<1>2. loan \in [Blocks -> Account] /\ NoLoan \in Account /\ n.len \in Nat
  BY Zenon DEF RxInv, RxType, NoLoan, Account, NoteRecord
<1>3. n.type \in News => n.block \in Blocks /\ loan[n.block].lent
  <2>1. n.type \in News => n.block \in Blocks /\ \E j \in 1 .. Len(notes) : Tells(notes[j], "RELEASED", n.block)
    <3>1. CASE n.type = "RELEASED"
      BY <1>1, <3>1, Zenon DEF RxInv, QueueInv, Tells
    <3>2. CASE n.type \in {"RDY", "STOPPED"}
      <4>1. n.block \in Blocks /\ \E j \in (i + 1) .. Len(notes) : Tells(notes[j], "RELEASED", n.block)
        BY <1>1, <3>2, Zenon DEF RxInv, QueueInv
      <4>2. \A j \in (i + 1) .. Len(notes) : j \in 1 .. Len(notes)
        BY DEF RxInv, RxType
      <4> QED
        BY <4>1, <4>2, Zenon
    <3> QED
      BY <3>1, <3>2, Zenon DEF News
  <2> QED
    BY <2>1, Zenon DEF RxInv, LoanInv
<1>4. /\ n.type = "RDY" => loan' = [loan EXCEPT ![n.block].reported = @ + n.len]
      /\ n.type = "STOPPED" => loan' = [loan EXCEPT ![n.block].stopped = TRUE]
      /\ n.type = "RELEASED" => loan' = [loan EXCEPT ![n.block] = NoLoan]
      /\ n.type \notin News => loan' = loan
  BY <1>1, Zenon DEF Deliver, News
<1> SUFFICES Follows(n, loan, loan')
  BY <1>1, <1>3, Zenon
<1>5. CASE n.type = "RDY"
  <2>1. PICK b \in Blocks : b = n.block
    BY <1>3, <1>5, Zenon DEF News
  <2>2. PICK a : a = [loan[b] EXCEPT !.reported = @ + n.len]
    BY Zenon
  <2>6. loan[b] \in Account /\ n.len \in Nat
    BY <1>2, <2>1, Zenon
  <2>3. a \in Account /\ (a.lent <=> loan[b].lent) /\ a.stored = loan[b].stored
    BY ONLY <2>2, <2>6 DEF Account
  <2>4. loan' = [loan EXCEPT ![b] = a]
    BY <1>4, <1>5, <2>1, <2>2, Zenon
  <2>5. loan' \in [Blocks -> Account] /\ loan'[b] = a /\ \A d \in Blocks \ {b} : loan'[d] = loan[d]
    BY <1>2, <2>3, <2>4, Zenon
  <2> QED
    BY <1>5, <2>1, <2>2, <2>3, <2>5, Zenon DEF Follows, News
<1>6. CASE n.type = "STOPPED"
  <2>1. PICK b \in Blocks : b = n.block
    BY <1>3, <1>6, Zenon DEF News
  <2>2. PICK a : a = [loan[b] EXCEPT !.stopped = TRUE]
    BY Zenon
  <2>3. a \in Account /\ (a.lent <=> loan[b].lent) /\ a.stored = loan[b].stored
    BY <1>2, <2>2, Zenon DEF Account
  <2>4. loan' = [loan EXCEPT ![b] = a]
    BY <1>4, <1>6, <2>1, <2>2, Zenon
  <2>5. loan' \in [Blocks -> Account] /\ loan'[b] = a /\ \A d \in Blocks \ {b} : loan'[d] = loan[d]
    BY <1>2, <2>3, <2>4, Zenon
  <2> QED
    BY <1>6, <2>1, <2>2, <2>3, <2>5, Zenon DEF Follows, News
<1>7. CASE n.type = "RELEASED"
  BY <1>2, <1>3, <1>4, <1>7, Zenon DEF Follows, News
<1>8. CASE n.type \notin News
  BY <1>2, <1>4, <1>8, Zenon DEF Follows, News
<1> QED
  BY <1>5, <1>6, <1>7, <1>8, Zenon DEF News

\* The dispatcher takes a note off the queue and enters the callback.
LEMMA DeliverInv ==
  ASSUME RxInv, NEW x \in Contexts, MayDispatch(x), NEW i \in 1 .. Len(notes), Deliver(x, i),
         UNCHANGED <<callback, channel, dmar, rxne, err, missing>>
  PROVE  RxInv'
<1>1. PICK n \in NoteRecord : n = notes[i]
  BY DEF RxInv, RxType
<1>2. /\ Deliverable(notes[i]) /\ \A j \in 1 .. (i - 1) : ~Deliverable(notes[j])
      /\ notes' = SubSeq(notes, i + 1, Len(notes)) /\ pc' = [pc EXCEPT ![x] = "callback"]
      /\ rx' = [rx EXCEPT !.dispatching = TRUE,
                          !.request_open = @ \/ n.type = "REQUEST",
                          !.phase = IF n.type = "DISABLED" THEN "IDLE" ELSE @]
      /\ UNCHANGED <<callback, dma, flags, pending, dmar, rxne, err, missing>>
  BY <1>1, Zenon DEF Deliver, channel
<1>3. /\ \A j \in 1 .. (i - 1) : notes[j].type = "REQUEST"
      /\ rx.phase # "IDLE" /\ callback # "null"
      /\ rx.phase = "ACTIVE" =>
           /\ i = 1 /\ ~rx.request_open /\ rx.next = Null
           /\ n.type \in {"RDY", "RELEASED", "REQUEST"}
           /\ n.type = "REQUEST" <=> i = Len(notes)
      /\ rx.phase = "STOPPING" =>
           n.type # "REQUEST" /\ (n.type = "DISABLED" <=> i = Len(notes))
  BY <1>1, <1>2, Passed, Zenon
<1>4. /\ Follows(n, loan, loan')
      /\ n.type \in News => n.block \in Blocks /\ loan[n.block].lent
  BY <1>1, LoanFollows, Zenon
<1>5. /\ loan \in [Blocks -> Account] /\ rx \in Session /\ notes \in Seq(NoteRecord)
      /\ Len(notes) \in Nat /\ pc \in [Contexts -> {"idle", "dispatch", "callback"}]
  BY DEF RxInv, RxType
<1>6. /\ notes' \in Seq(NoteRecord) /\ Len(notes') = Len(notes) - i
      /\ \A k \in 1 .. Len(notes') : i + k \in 1 .. Len(notes) /\ notes'[k] = notes[i + k]
      /\ i = Len(notes) => Len(notes') = 0 /\ notes' = <<>>
      /\ i # Len(notes) =>
           /\ Len(notes') \in 1 .. (Len(notes) - 1) /\ notes'[Len(notes')] = notes[Len(notes)]
           /\ \A k \in 1 .. (Len(notes') - 1) :
                i + k \in 1 .. (Len(notes) - 1) /\ notes'[k] = notes[i + k]
  <2>1. notes' = SubSeq(notes, i + 1, Len(notes)) /\ notes \in Seq(NoteRecord)
    BY <1>2, <1>5, Zenon
  <2>2. IsRest(notes', notes, i)
    BY ONLY <2>1, i \in 1 .. Len(notes), Rest, Zenon
  <2> QED
    BY ONLY <2>2, Zenon DEF IsRest
<1>7. /\ rx' \in Session /\ rx'.dispatching /\ rx'.buffer = rx.buffer /\ rx'.next = rx.next
      /\ rx'.generation = rx.generation
      /\ rx'.request_open <=> rx.request_open \/ n.type = "REQUEST"
      /\ rx'.phase = IF n.type = "DISABLED" THEN "IDLE" ELSE rx.phase
  <2>a. PICK r1 : r1 = [rx EXCEPT !.dispatching = TRUE]
    BY Zenon
  <2>b. PICK r2 : r2 = [r1 EXCEPT !.request_open = @ \/ n.type = "REQUEST"]
    BY Zenon
  <2>1. /\ r1 = [rx EXCEPT !.dispatching = TRUE]
        /\ r2 = [r1 EXCEPT !.request_open = @ \/ n.type = "REQUEST"]
        /\ rx' = [r2 EXCEPT !.phase = IF n.type = "DISABLED" THEN "IDLE" ELSE @]
    BY <1>2, <2>a, <2>b, Zenon
  <2>2. /\ r1 \in Session /\ r1.dispatching /\ r1.buffer = rx.buffer /\ r1.next = rx.next
        /\ r1.generation = rx.generation /\ (r1.request_open <=> rx.request_open)
        /\ r1.phase = rx.phase
    BY <1>5, <2>1, Zenon DEF Session
  <2>3. /\ r2 \in Session /\ r2.dispatching /\ r2.buffer = rx.buffer /\ r2.next = rx.next
        /\ r2.generation = rx.generation /\ r2.phase = rx.phase
        /\ (r2.request_open <=> rx.request_open \/ n.type = "REQUEST")
    BY <2>1, <2>2, Zenon DEF Session
  <2> QED
    BY <2>1, <2>3, ZenonT(60) DEF Session
<1>8. DispatchInv' /\ pc' \in [Contexts -> {"idle", "dispatch", "callback"}]
  <2>1. /\ pc' \in [Contexts -> {"idle", "dispatch", "callback"}] /\ pc'[x] = "callback"
        /\ \A y \in Contexts \ {x} : pc'[y] = pc[y]
    BY <1>2, <1>5, Zenon
  <2>2. \A y \in Contexts \ {x} : pc[y] # "callback"
    BY Zenon DEF MayDispatch, RxInv, DispatchInv
  <2> QED
    BY <1>7, <2>1, <2>2, ZenonT(60) DEF DispatchInv
<1>9. RxType'
  BY <1>2, <1>4, <1>6, <1>7, <1>8, ZenonT(60) DEF RxInv, RxType, Follows
<1>10. QueueInv(notes', loan')
  <2>1. /\ QueueInv(notes, loan) /\ notes \in Seq(NoteRecord) /\ loan \in [Blocks -> Account]
        /\ notes' = SubSeq(notes, i + 1, Len(notes)) /\ Follows(notes[i], loan, loan')
        /\ notes[i].type \in News => notes[i].block \in Blocks
        /\ \A k \in 1 .. (i - 1) : notes[k].type = "REQUEST"
    BY <1>1, <1>2, <1>3, <1>4, <1>5, Zenon DEF RxInv
  <2> QED
    BY ONLY <2>1, i \in 1 .. Len(notes), QueuePop, Zenon
<1>11. ASSUME NEW k \in (i + 1) .. Len(notes)
       PROVE  \E h \in 1 .. Len(notes') : k = i + h /\ notes'[h] = notes[k]
  <2>1. k - i \in 1 .. Len(notes') /\ k = i + (k - i)
    BY <1>5, <1>6
  <2>2. \E h \in 1 .. Len(notes') : k = i + h
    BY <2>1, Zenon
  <2> QED
    BY <1>6, <2>2, Zenon
<1>12. ASSUME rx.phase = "ACTIVE" PROVE ActiveInv' /\ PhaseInv' /\ NoSilentLoss'
  <2>1. /\ rx'.phase = "ACTIVE" /\ i = 1 /\ ~rx.request_open /\ rx.next = Null
        /\ rx.buffer \in Blocks /\ rx.buffer # rx.next
    BY <1>3, <1>7, <1>12, ZenonT(60) DEF RxInv, ActiveInv
  <2>2. loan'[rx.buffer] = loan[rx.buffer]
    <3>1. n.type \in News => n.block # rx.buffer
      BY <1>1, <1>12, ActiveQueue, Zenon
    <3> QED
      BY <1>4, <2>1, <3>1, Zenon DEF Follows
  <2>8. /\ dmar' /\ dma'.state = "RUNNING" /\ dma'.maddr = rx'.buffer.addr
        /\ "TC" \in flags' => dma'.cntr = 0
        /\ loan'[rx'.buffer].stored + dma'.cntr = rx'.buffer.len
        /\ loan'[rx'.buffer].reported = 0 /\ ~loan'[rx'.buffer].unknown
    <3>1. ActiveInv
      BY Zenon DEF RxInv
    <3>2. /\ dmar /\ dma.state = "RUNNING" /\ dma.maddr = rx.buffer.addr
          /\ "TC" \in flags => dma.cntr = 0
          /\ loan[rx.buffer].stored + dma.cntr = rx.buffer.len
          /\ loan[rx.buffer].reported = 0 /\ ~loan[rx.buffer].unknown
      BY ONLY <1>12, <3>1, Zenon DEF ActiveInv
    <3>3. /\ dmar' = dmar /\ dma' = dma /\ flags' = flags /\ rx'.buffer = rx.buffer
      BY <1>2, <1>7, Zenon
    <3> QED
      BY ONLY <2>2, <3>2, <3>3, Zenon
  <2>9. /\ rx'.buffer \in Blocks /\ rx'.buffer # rx'.next /\ rx'.next = Null
        /\ rx'.phase = "ACTIVE" /\ callback' # "null"
    BY <1>2, <1>3, <1>7, <2>1, Zenon
  <2>3. ASSUME n.type = "REQUEST" PROVE ActiveInv' /\ PhaseInv'
    <3>1. Len(notes') = 0 /\ notes' = <<>> /\ rx'.request_open
      BY <1>3, <1>5, <1>6, <1>7, <1>12, <2>3, Zenon
    <3> QED
      BY ONLY <2>8, <2>9, <3>1, Zenon DEF ActiveInv, PhaseInv
  <2>4. ASSUME n.type # "REQUEST" PROVE ActiveInv' /\ PhaseInv'
    <3>1. ~rx'.request_open /\ rx'.next = Null /\ i # Len(notes)
      BY <1>3, <1>7, <1>12, <2>1, <2>4, Zenon
    <3>2. /\ Len(notes) \in 1 .. 3 /\ notes[Len(notes)].type = "REQUEST"
          /\ notes[Len(notes)].generation = rx.generation
          /\ \A j \in 1 .. (Len(notes) - 1) : notes[j].type \in {"RDY", "RELEASED"}
      BY <1>12, <2>1, ZenonT(60) DEF RxInv, ActiveInv
    <3>3. Len(notes') \in 1 .. 3
      <4>1. /\ Len(notes') \in 1 .. (Len(notes) - 1) /\ Len(notes) \in 1 .. 3
        BY <1>6, <3>1, <3>2, Zenon
      <4>2. PICK m, k : m = Len(notes') /\ k = Len(notes)
        BY Zenon
      <4>3. m \in 1 .. (k - 1) /\ k \in 1 .. 3
        BY <4>1, <4>2, Zenon
      <4>4. m \in 1 .. 3
        BY ONLY <4>3
      <4> QED
        BY ONLY <4>2, <4>4, Zenon
    <3>4. /\ notes'[Len(notes')] = notes[Len(notes)]
          /\ \A k \in 1 .. (Len(notes') - 1) : notes'[k].type \in {"RDY", "RELEASED"}
      BY <1>6, <3>1, <3>2, Zenon
    <3>5. ~rx'.request_open /\ notes'[Len(notes')].type = "REQUEST"
          /\ notes'[Len(notes')].generation = rx'.generation
      BY <1>7, <2>1, <2>4, <3>2, <3>4, Zenon
    <3> QED
      BY ONLY <2>8, <2>9, <3>3, <3>4, <3>5, Zenon DEF ActiveInv, PhaseInv
  <2>5. ActiveInv' /\ PhaseInv'
    BY <2>3, <2>4, Zenon
  <2>6. NoSilentLoss'
    BY <1>2, <2>1, <1>12 DEF RxInv, NoSilentLoss
  <2> QED
    BY <2>5, <2>6, Zenon
<1>13. ASSUME rx.phase = "STOPPING" PROVE ActiveInv' /\ PhaseInv' /\ NoSilentLoss'
  <2>1. /\ rx.buffer = Null /\ rx.next = Null /\ ~rx.request_open /\ ~dmar /\ dma.state # "RUNNING"
        /\ Len(notes) \in 1 .. 7 /\ notes[Len(notes)].type = "DISABLED"
        /\ \A k \in 1 .. (Len(notes) - 1) : notes[k].type # "DISABLED"
    BY <1>13, Zenon DEF RxInv, PhaseInv
  <2>2. ~missing
    BY <1>13, Zenon DEF RxInv, NoSilentLoss
  <2>3. n.type # "REQUEST" /\ ~rx'.request_open /\ (n.type = "DISABLED" <=> i = Len(notes))
    BY <1>3, <1>7, <1>13, <2>1, Zenon
  <2>4. ASSUME n.type = "DISABLED" PROVE rx'.phase = "IDLE" /\ notes' = <<>>
    <3>1. Len(notes') = 0 /\ rx'.phase = "IDLE"
      BY <1>5, <1>6, <1>7, <2>3, <2>4, Zenon
    <3> QED
      BY <1>6, <3>1
  <2>5. ASSUME n.type # "DISABLED"
        PROVE  /\ rx'.phase = "STOPPING" /\ Len(notes') \in 1 .. 7
               /\ notes'[Len(notes')].type = "DISABLED"
               /\ \A k \in 1 .. (Len(notes') - 1) : notes'[k].type # "DISABLED"
    <3>1. i # Len(notes) /\ rx'.phase = "STOPPING"
      BY <1>7, <1>13, <2>3, <2>5, Zenon
    <3>2. Len(notes') \in 1 .. 7
      <4>1. /\ Len(notes') \in 1 .. (Len(notes) - 1) /\ Len(notes) \in 1 .. 7
        BY <1>6, <2>1, <3>1, Zenon
      <4>2. PICK m, k : m = Len(notes') /\ k = Len(notes)
        BY Zenon
      <4>3. m \in 1 .. (k - 1) /\ k \in 1 .. 7
        BY <4>1, <4>2, Zenon
      <4>4. m \in 1 .. 7
        BY ONLY <4>3
      <4> QED
        BY ONLY <4>2, <4>4, Zenon
    <3>3. /\ notes'[Len(notes')] = notes[Len(notes)]
          /\ \A k \in 1 .. (Len(notes') - 1) : notes'[k].type # "DISABLED"
      BY <1>6, <2>1, <3>1, Zenon
    <3> QED
      BY <2>1, <3>1, <3>2, <3>3, Zenon
  <2>6. rx'.phase # "ACTIVE"
    BY <2>4, <2>5, Zenon
  <2>7. PhaseInv'
    <3>1. /\ rx'.buffer = Null /\ rx'.next = Null /\ ~rx'.request_open /\ ~dmar'
          /\ dma'.state # "RUNNING" /\ callback' # "null"
      BY <1>2, <1>3, <1>7, <2>1, <2>3
    <3> QED
      BY ONLY <2>4, <2>5, <3>1, Zenon DEF PhaseInv
  <2> QED
    BY <1>2, <2>2, <2>6, <2>7 DEF ActiveInv, NoSilentLoss
<1>14. LoanInv'
  <2>1. LoanInv /\ QueueInv(notes, loan)
    BY Zenon DEF RxInv
  <2>2. ASSUME NEW b \in Blocks
        PROVE  (\E j \in 1 .. Len(notes') : Tells(notes'[j], "RELEASED", b))
                 <=> /\ \E j \in 1 .. Len(notes) : Tells(notes[j], "RELEASED", b)
                     /\ ~Tells(n, "RELEASED", b)
    <3>1. ASSUME NEW j \in 1 .. Len(notes'), Tells(notes'[j], "RELEASED", b)
          PROVE  /\ \E k \in 1 .. Len(notes) : Tells(notes[k], "RELEASED", b)
                 /\ ~Tells(n, "RELEASED", b)
      <4>1. i + j \in 1 .. Len(notes) /\ notes'[j] = notes[i + j] /\ i + j # i
        BY <1>5, <1>6
      <4> QED
        BY <1>1, <2>1, <3>1, <4>1, ZenonT(60) DEF QueueInv, Tells
    <3>2. ASSUME NEW j \in 1 .. Len(notes), Tells(notes[j], "RELEASED", b), ~Tells(n, "RELEASED", b)
          PROVE  \E k \in 1 .. Len(notes') : Tells(notes'[k], "RELEASED", b)
      <4>1. j # i
        BY <1>1, <3>2, Zenon
      <4>2. j \notin 1 .. (i - 1)
        BY <1>3, <3>2, Zenon DEF Tells
      <4>3. j \in (i + 1) .. Len(notes)
        BY <1>5, <4>1, <4>2
      <4> QED
        BY <1>11, <3>2, <4>3, Zenon
    <3> QED
      BY <3>1, <3>2, Zenon
  <2>3. ASSUME NEW b \in Blocks PROVE loan'[b].stored <= b.len
    <3>1. loan[b].stored <= b.len /\ 0 <= b.len
      <4>1. loan[b].stored <= b.len
        BY <2>1, Zenon DEF LoanInv
      <4>2. b.len \in Nat
        BY Bounds, Zenon
      <4> QED
        BY ONLY <4>1, <4>2
    <3>2. loan'[b] = loan[b] \/ loan'[b].stored = loan[b].stored \/ loan'[b].stored = 0
      BY <1>1, <1>4 DEF Follows, News, NoteRecord, NoLoan
    <3> QED
      BY <3>1, <3>2, Zenon
  <2>4. ASSUME NEW b \in Blocks PROVE loan'[b].lent <=> loan[b].lent /\ ~Tells(n, "RELEASED", b)
    <3>1. CASE b # n.block \/ n.type \notin News
      BY <1>4, <3>1, Zenon DEF Follows, Tells, News
    <3>2. CASE b = n.block /\ n.type = "RELEASED"
      BY <1>4, <3>2 DEF Follows, Tells, NoLoan
    <3>3. CASE b = n.block /\ n.type \in {"RDY", "STOPPED"}
      BY <1>4, <3>3, Zenon DEF Follows, Tells
    <3> QED
      BY <3>1, <3>2, <3>3, Zenon DEF News
  <2>5. ASSUME NEW b \in Blocks, ~loan'[b].lent PROVE loan'[b] = NoLoan
    <3>1. CASE Tells(n, "RELEASED", b)
      BY <1>4, <3>1, Zenon DEF Follows, Tells
    <3>2. CASE ~Tells(n, "RELEASED", b)
      <4>1. ~loan[b].lent /\ loan[b] = NoLoan
        BY <2>1, <2>4, <2>5, <3>2, Zenon DEF LoanInv
      <4> QED
        BY <1>4, <4>1, Zenon DEF Follows, News
    <3> QED
      BY <3>1, <3>2, Zenon
  <2>6. ASSUME NEW b \in Blocks, rx'.buffer = b \/ rx'.next = b
        PROVE  \A j \in 1 .. Len(notes) : ~Tells(notes[j], "RELEASED", b)
    BY <1>7, <2>1, <2>6, Zenon DEF LoanInv
  <2>7. \A b \in Blocks : rx'.buffer = b \/ rx'.next = b => ~Tells(n, "RELEASED", b)
    BY <1>1, <2>6, Zenon
  <2> QED
    BY <1>7, <2>1, <2>2, <2>3, <2>4, <2>5, <2>6, <2>7, Zenon DEF LoanInv
<1>15. ActiveInv' /\ PhaseInv' /\ NoSilentLoss'
  BY <1>3, <1>5, <1>12, <1>13, Zenon DEF Session
<1> QED
  BY <1>2, <1>8, <1>9, <1>10, <1>14, <1>15, Zenon DEF RxInv

\* A dispatcher that finds nothing to deliver has found the queue empty.
LEMMA NothingLeft ==
  ASSUME RxInv, \A i \in 1 .. Len(notes) : ~Deliverable(notes[i])
  PROVE  notes = <<>>
<1>1. rx \in Session /\ notes \in Seq(NoteRecord) /\ Len(notes) \in Nat
  BY DEF RxInv, RxType
<1>2. CASE rx.phase = "IDLE"
  BY <1>2, Zenon DEF RxInv, PhaseInv
<1>3. CASE rx.phase = "STOPPING"
  <2>1. Len(notes) \in 1 .. 7 /\ notes[Len(notes)].type = "DISABLED"
    BY <1>3, Zenon DEF RxInv, PhaseInv
  <2>2. Len(notes) \in 1 .. Len(notes)
    BY <2>1
  <2> QED
    BY <2>1, <2>2, Zenon DEF Deliverable
<1>4. CASE rx.phase = "ACTIVE"
  <2>1. CASE rx.request_open \/ rx.next # Null
    BY <1>4, <2>1, ActiveQueue, Zenon
  <2>2. CASE ~rx.request_open /\ rx.next = Null
    <3>1. /\ Len(notes) \in 1 .. 3 /\ notes[Len(notes)].generation = rx.generation
      BY <1>4, <2>2, Zenon DEF RxInv, ActiveInv
    <3>2. Len(notes) \in 1 .. Len(notes)
      <4>1. PICK k : k = Len(notes)
        BY Zenon
      <4>2. k \in 1 .. 3
        BY <3>1, <4>1, Zenon
      <4>3. k \in 1 .. k
        BY ONLY <4>2
      <4> QED
        BY ONLY <4>1, <4>3, Zenon
    <3> QED
      BY <1>4, <3>1, <3>2, Zenon DEF Deliverable
  <2> QED
    BY <2>1, <2>2, Zenon
<1> QED
  BY <1>1, <1>2, <1>3, <1>4, Zenon DEF Session

\* The dispatcher is done.
LEMMA DispatchDoneInv ==
  ASSUME RxInv, NEW x \in Contexts, MayDispatch(x), DispatchDone(x),
         UNCHANGED <<callback, channel, dmar, rxne, err, missing>>
  PROVE  RxInv'
<1>1. /\ UNCHANGED <<notes, callback, dma, flags, pending, dmar, rxne, err, loan, missing>>
      /\ rx' = [rx EXCEPT !.dispatching = FALSE] /\ pc' = [pc EXCEPT ![x] = "idle"]
  BY NothingLeft, Zenon DEF DispatchDone, channel
<1>2. /\ rx' \in Session /\ rx'.phase = rx.phase /\ rx'.buffer = rx.buffer /\ rx'.next = rx.next
      /\ (rx'.request_open <=> rx.request_open) /\ rx'.generation = rx.generation
      /\ ~rx'.dispatching
  BY <1>1, Zenon DEF RxInv, RxType, Session
<1>3. DispatchInv' /\ pc' \in [Contexts -> {"idle", "dispatch", "callback"}]
  <2>1. /\ pc' \in [Contexts -> {"idle", "dispatch", "callback"}] /\ pc'[x] = "idle"
        /\ \A y \in Contexts \ {x} : pc'[y] = pc[y]
    BY <1>1, Zenon DEF RxInv, RxType
  <2>2. \A y \in Contexts \ {x} : pc[y] # "callback"
    BY Zenon DEF MayDispatch, RxInv, DispatchInv
  <2> QED
    BY <1>2, <2>1, <2>2, Zenon DEF DispatchInv
<1>4. RxType'
  BY <1>1, <1>2, <1>3, Zenon DEF RxInv, RxType
<1>5. PhaseInv' /\ NoSilentLoss'
  BY <1>1, <1>2 DEF RxInv, PhaseInv, NoSilentLoss
<1>6. ActiveInv'
  BY <1>1, <1>2 DEF RxInv, ActiveInv
<1>7. QueueInv(notes', loan') /\ LoanInv' /\ ByteChannel(dma')
  BY <1>1, <1>2, Zenon DEF RxInv, LoanInv
<1> QED
  BY <1>3, <1>4, <1>5, <1>6, <1>7, Zenon DEF RxInv

\* Every step preserves the invariant.
LEMMA NextInv == RxInv /\ [Next]_vars => RxInv'
<1> SUFFICES ASSUME RxInv, [Next]_vars PROVE RxInv'
  BY Zenon
<1>1. ASSUME NEW x \in Contexts, AppCall(x) PROVE RxInv'
  <2>1. ASSUME NEW cb \in Callbacks \cup {"null"}, usart_wch_async_callback_set(x, cb)
        PROVE  RxInv'
    BY <2>1, CallbackInv, Zenon
  <2>2. ASSUME NEW b \in Blocks, usart_wch_rx_enable(x, b) PROVE RxInv'
    BY <2>2, EnableInv, Zenon
  <2>3. ASSUME NEW b \in Blocks, NEW fault \in StartFaults, usart_wch_rx_enable_fails(x, b, fault)
        PROVE  RxInv'
    BY <2>3, EnableFailsInv, Zenon
  <2>4. ASSUME NEW b \in Blocks, usart_wch_rx_buf_rsp(x, b) PROVE RxInv'
    BY <2>4, BufRspInv, Zenon
  <2>5. CASE usart_wch_rx_disable(x)
    BY <2>5, DisableInv, Zenon
  <2>6. CASE usart_wch_poll_in(x)
    BY <2>6, PollInInv, Zenon
  <2> QED
    BY <1>1, <2>1, <2>2, <2>3, <2>4, <2>5, <2>6, Zenon DEF AppCall
<1>2. ASSUME NEW x \in Contexts, DispatchLeft(x) PROVE RxInv'
  BY <1>2, DispatchLeftInv, Zenon
<1>3. ASSUME NEW x \in Contexts, usart_wch_rx_dispatch(x) PROVE RxInv'
  <2>1. MayDispatch(x) /\ UNCHANGED <<callback, channel, dmar, rxne, err, missing>>
    BY <1>3, Zenon DEF usart_wch_rx_dispatch
  <2>2. ASSUME NEW i \in 1 .. Len(notes), Deliver(x, i) PROVE RxInv'
    BY <2>1, <2>2, DeliverInv, Zenon
  <2>3. CASE DispatchDone(x)
    BY <2>1, <2>3, DispatchDoneInv, Zenon
  <2> QED
    BY <1>3, <2>2, <2>3, Zenon DEF usart_wch_rx_dispatch
<1>4. CASE dma_wch_isr
  BY <1>4, DmaIsrInv, Zenon
<1>5. CASE usart_wch_isr_error
  BY <1>5, UartIsrErrorInv, ZenonT(60)
<1>6. CASE usart_wch_isr_tx
  BY <1>6, UartIsrTxInv, Zenon
<1>7. CASE ByteArrives
  BY <1>7, ByteArrivesInv, Zenon
<1>8. CASE StoreByte
  BY <1>8, StoreByteInv, Zenon
<1>9. CASE EngineError
  BY <1>9, EngineErrorInv, Zenon
<1>10. CASE UNCHANGED vars
  <2>1. /\ UNCHANGED <<rx, notes, callback, channel, dmar, rxne, err, app>> /\ pc' = pc
    BY <1>10, Zenon DEF vars
  <2>2. pc' \in [Contexts -> {"idle", "dispatch", "callback"}]
    BY <2>1, Zenon DEF RxInv, RxType
  <2> QED
    BY <2>1, <2>2, OnlyPc, Zenon
<1> QED
  BY <1>1, <1>2, <1>3, <1>4, <1>5, <1>6, <1>7, <1>8, <1>9, <1>10, Zenon DEF Next

\* The invariant holds throughout.
LEMMA Invariance == Spec => []RxInv
  BY InitInv, NextInv, PTL DEF Spec

-----------------------------------------------------------------------------
(* The safety properties.                                                  *)

\* Seven notes are the most there are at any time, so the driver's array of
\* twelve (and the assertion in usart_wch_rx_queue()) holds, whoever dispatches
\* and whenever.
THEOREM RingFits ==
  ASSUME RingSize >= 7
  PROVE  Spec => []RingNeverOverflows
<1>1. RxInv => RingNeverOverflows
  <2> SUFFICES ASSUME RxInv PROVE Len(notes) <= RingSize
    BY Zenon DEF RingNeverOverflows
  <2>1. rx \in Session /\ notes \in Seq(NoteRecord) /\ Len(notes) \in Nat /\ RingSize \in Nat
    BY RxConstants DEF RxInv, RxType
  <2>2. Len(notes) <= 7
    <3>1. CASE rx.phase = "IDLE"
      <4>1. Len(notes) = 0
        BY <3>1 DEF RxInv, PhaseInv
      <4> QED
        BY <4>1
    <3>2. CASE rx.phase = "ACTIVE"
      <4>1. PICK k : k = Len(notes)
        BY Zenon
      <4>2. k \in 0 .. 3
        BY <4>1, <3>2, ActiveQueue, Zenon
      <4>3. k <= 7
        BY ONLY <4>2
      <4> QED
        BY <4>1, <4>3, Zenon
    <3>3. CASE rx.phase = "STOPPING"
      <4>1. PICK k : k = Len(notes)
        BY Zenon
      <4>2. k \in 1 .. 7
        BY <4>1, <3>3, Zenon DEF RxInv, PhaseInv
      <4>3. k <= 7
        BY ONLY <4>2
      <4> QED
        BY <4>1, <4>3, Zenon
    <3> QED
      BY <2>1, <3>1, <3>2, <3>3, Zenon DEF Session
  <2> QED
    BY <2>1, <2>2
<1> QED
  BY <1>1, Invariance, PTL

\* DMA writes only into the current buffer of an active session, which the
\* application has lent, and never beyond its end.
THEOREM WritesOnlyLent == Spec => []EngineWritesOnlyLent
<1>1. RxInv => EngineWritesOnlyLent
  <2> SUFFICES ASSUME RxInv, dma.en PROVE EngineWritesOnlyLent
    BY Zenon DEF EngineWritesOnlyLent
  <2>1. dma.state = "RUNNING"
    BY Zenon DEF RxInv, ByteChannel, ChannelInv
  <2>2. rx.phase = "ACTIVE"
    BY <2>1, Zenon DEF RxInv, PhaseInv
  <2>3. /\ rx.buffer \in Blocks /\ rx.buffer # Null /\ dma.maddr = rx.buffer.addr
        /\ loan[rx.buffer].stored + dma.cntr = rx.buffer.len /\ rx.buffer.len \in Nat
    BY <2>2, Bounds, ZenonT(60) DEF RxInv, ActiveInv
  <2>4. loan[rx.buffer].lent
    BY <2>3, Zenon DEF RxInv, LoanInv
  <2> QED
    BY <2>2, <2>3, <2>4 DEF EngineWritesOnlyLent
<1> QED
  BY <1>1, Invariance, PTL

\* A byte that was lost leaves an error flag standing until the session stops
\* with a reason: usart_wch_isr() or a later stop finds it.
THEOREM LossIsReported == Spec => []NoSilentLoss
<1>1. RxInv => NoSilentLoss
  BY Zenon DEF RxInv
<1> QED
  BY <1>1, Invariance, PTL

-----------------------------------------------------------------------------
(* The driver implements the contract.                                     *)

\* The invariant leaves each buffer at most one holder.
LEMMA OneHolder == RxInv => Held
<1> SUFFICES ASSUME RxInv PROVE [b \in Blocks |-> Abstract(b)] = loan
  BY Zenon DEF Held
<1>1. loan \in [Blocks -> Account] /\ Null \notin Blocks /\ rx \in Session
  BY Bounds, Zenon DEF RxInv, RxType
<1>2. ASSUME NEW b \in Blocks PROVE Abstract(b) = loan[b]
  <2>1. /\ loan[b].lent <=> \/ rx.buffer = b \/ rx.next = b
                            \/ \E j \in 1 .. Len(notes) : Tells(notes[j], "RELEASED", b)
        /\ ~loan[b].lent => loan[b] = NoLoan
        /\ rx.buffer = b \/ rx.next = b =>
             \A j \in 1 .. Len(notes) : ~Tells(notes[j], "RELEASED", b)
    BY ZenonT(60) DEF RxInv, LoanInv
  <2>2. \A i, j \in Releases(b) : i = j
    BY DEF RxInv, QueueInv, Tells, Releases
  <2>3. b \in {rx.buffer, rx.next} => Releases(b) = {} /\ rx.buffer # rx.next
    <3>1. rx.buffer = b => rx.next # b
      BY <1>1, ZenonT(60) DEF RxInv, ActiveInv, PhaseInv
    <3> QED
      BY <2>1, <3>1, Zenon DEF Releases, Tells
  <2>4. CASE b \notin {rx.buffer, rx.next} /\ Releases(b) = {}
    <3>1. loan[b] = NoLoan
      BY <2>1, <2>4, Zenon DEF Releases, Tells
    <3> QED
      BY <2>4, <3>1, Zenon DEF Abstract
  <2>5. CASE b \in {rx.buffer, rx.next} \/ Releases(b) # {}
    <3>1. loan[b].lent
      BY <2>1, <2>5, Zenon DEF Releases, Tells
    <3>2. [loan[b] EXCEPT !.lent = TRUE] = loan[b]
      BY <1>1, <3>1, Zenon DEF Account
    <3> QED
      BY <2>2, <2>3, <2>5, <3>2, Zenon DEF Abstract
  <2> QED
    BY <2>4, <2>5, Zenon
<1> QED
  BY <1>1, <1>2, Zenon

\* The contract's variables after such a step.
LEMMA SameSession ==
  ASSUME SessionStays
  PROVE  /\ (rx.phase # "IDLE")' = (rx.phase # "IDLE")
         /\ callback' = callback
         /\ {x \in Contexts : pc[x] = "callback"}' = {x \in Contexts : pc[x] = "callback"}
  BY Zenon DEF SessionStays

\* Steps the contract does not see.
LEMMA Unseen ==
  ASSUME RxInv, RxInv', Held, Held', SessionStays, loan' = loan,
         rx'.request_open <=> rx.request_open
  PROVE  UNCHANGED Contract!vars
<1>1. [b \in Blocks |-> Abstract(b)]' = [b \in Blocks |-> Abstract(b)]
  BY Zenon DEF Held
<1>2. rx'.request_open = rx.request_open
  BY Zenon DEF RxInv, RxType, Session
<1> QED
  BY <1>1, <1>2, SameSession, Zenon DEF Contract!vars

\* The end of a session, and of a buffer: the request, if there is one, lapses.
LEMMA EndIsLapse ==
  ASSUME RxInv, RxInv', Held, Held', SessionStays, loan' = loan, ~rx'.request_open
  PROVE  [Contract!Next]_(Contract!vars)
<1>1. CASE rx.request_open
  <2>1. [b \in Blocks |-> Abstract(b)]' = [b \in Blocks |-> Abstract(b)]
    BY Zenon DEF Held
  <2>2. rx'.request_open = FALSE
    BY Zenon DEF RxInv, RxType, Session
  <2>3. Contract!Lapse
    BY <1>1, <2>1, <2>2, SameSession, Zenon DEF Contract!Lapse
  <2> QED
    BY <2>3, Zenon DEF Contract!Next
<1>2. CASE ~rx.request_open
  BY <1>2, Unseen, Zenon
<1> QED
  BY <1>1, <1>2, Zenon

\* usart_wch_rx_finish() without a count is the contract's CountLost.
LEMMA FinishIsCountLost ==
  ASSUME RxInv, RxInv', Held, Held', SessionStays, rx.phase # "IDLE", ~rx'.request_open,
         NEW b \in Blocks, loan[b].lent, "status" \in Faults,
         loan' = [loan EXCEPT ![b].unknown = TRUE]
  PROVE  Contract!Next
<1> DEFINE T == [a \in Blocks |-> Abstract(a)]
<1>1. T = loan /\ T' = loan'
  BY Zenon DEF Held
<1>2. T[b].lent /\ T' = [T EXCEPT ![b].unknown = TRUE]
  BY <1>1, Zenon
<1>3. rx'.request_open = FALSE
  BY Zenon DEF RxInv, RxType, Session
<1>4. Contract!CountLost(b)
  BY <1>2, <1>3, SameSession, Zenon DEF Contract!CountLost
<1> QED
  BY <1>4, Zenon DEF Contract!Next

\* Contexts that enter or leave the dispatcher, but not the callback.
LEMMA PcStays ==
  ASSUME RxInv, NEW x \in Contexts, NEW to \in {"idle", "dispatch"},
         pc[x] # "callback", pc' = [pc EXCEPT ![x] = to]
  PROVE  \A y \in Contexts : pc'[y] = "callback" <=> pc[y] = "callback"
  BY Zenon DEF RxInv, RxType

\* The same, for a context that may enter the dispatcher.
LEMMA DispatchStays ==
  ASSUME RxInv, NEW x \in Contexts, ThenDispatch(x)
  PROVE  \A y \in Contexts : pc'[y] = "callback" <=> pc[y] = "callback"
  BY Zenon DEF RxInv, RxType, ThenDispatch

\* usart_wch_rx_finish() closes the buffers and the request; the session stays
\* open until UART_RX_DISABLED.
LEMMA FinishedSession ==
  ASSUME RxInv, rx.phase = "ACTIVE", rx' = Ended, callback' = callback,
         \A x \in Contexts : pc'[x] = "callback" <=> pc[x] = "callback"
  PROVE  SessionStays /\ ~rx'.request_open
<1>1. rx'.phase = "STOPPING" /\ ~rx'.request_open
  BY Zenon DEF Ended, RxInv, RxType, Session
<1> QED
  BY <1>1, Zenon DEF SessionStays

\* Stopping in the middle of a buffer loses the count only if the provider does.
LEMMA StopRefines ==
  ASSUME RxInv, RxInv', Held, Held', rx.phase = "ACTIVE", NEW c, ByteChannel(c),
         SameBlock(c, dma), c.state # "UNCONFIGURED", NEW ok \in StatusOutcomes, NEW line,
         GateCountFinish(c, ok, line), callback' = callback,
         \A x \in Contexts : pc'[x] = "callback" <=> pc[x] = "callback"
  PROVE  [Contract!Next]_(Contract!vars)
<1>1. SessionStays /\ ~rx'.request_open
  BY FinishedSession, Zenon DEF GateCountFinish, Finish
<1>2. PICK b \in Blocks : b = rx.buffer
  BY Zenon DEF RxInv, ActiveInv
<1>3. /\ loan \in [Blocks -> Account] /\ loan[b].stored + dma.cntr = b.len /\ dma.cntr \in Nat
      /\ ~loan[b].unknown /\ loan[b].lent /\ b.len \in Nat
  <2>1. loan \in [Blocks -> Account] /\ loan[b].stored + dma.cntr = b.len /\ ~loan[b].unknown
    BY <1>2, ZenonT(60) DEF RxInv, RxType, ActiveInv
  <2>2. loan[b].lent
    BY <1>2, Zenon DEF RxInv, LoanInv
  <2>3. b.len \in Nat
    BY Bounds, ZenonT(60)
  <2>4. dma.cntr \in Nat
    BY DEF RxInv, ByteChannel, ChannelInv, Channel
  <2> QED
    BY <2>1, <2>2, <2>3, <2>4, Zenon
<1>4. PICK off : off = Stopped(c)
  BY Zenon
<1>5. CountKnown(off, ok) <=> ok
  <2>1. ByteChannel(off) /\ off.state # "UNCONFIGURED" /\ off.cntr = dma.cntr
    BY <1>4, ByteStopped, Zenon DEF SameBlock
  <2>2. PendingLength(off) = dma.cntr
    BY <2>1, BytesPending, Zenon
  <2>3. dma.cntr <= b.len
    BY <1>3 DEF Account
  <2> QED
    BY <1>2, <2>2, <2>3, Zenon DEF CountKnown, StatusOutcomes
<1>6. loan' = [loan EXCEPT ![b].unknown = ~CountKnown(off, ok)]
  BY <1>2, <1>4, Zenon DEF GateCountFinish
<1>7. CASE ok
  <2>1. loan' = loan
    BY <1>3, <1>5, <1>6, <1>7, Zenon DEF Account
  <2> QED
    BY <1>1, <2>1, EndIsLapse, Zenon
<1>8. CASE ~ok
  <2>1. "status" \in Faults
    BY <1>8, Zenon DEF StatusOutcomes
  <2>2. loan' = [loan EXCEPT ![b].unknown = TRUE]
    BY <1>5, <1>6, <1>8, Zenon
  <2> QED
    BY <1>1, <1>3, <2>1, <2>2, FinishIsCountLost, Zenon
<1> QED
  BY <1>7, <1>8, Zenon

\* usart_wch_rx_disable() and usart_wch_isr() on a receive error.
LEMMA DisableRefines ==
  ASSUME RxInv, RxInv', Held, Held', NEW x \in Contexts, usart_wch_rx_disable(x)
  PROVE  [Contract!Next]_(Contract!vars)
<1>1. PICK ok \in StatusOutcomes : GateCountFinish(dma, ok, err # {})
  BY Zenon DEF usart_wch_rx_disable
<1>2. PICK line : line = (err # {})
  BY Zenon
<1>3. /\ ByteChannel(dma) /\ SameBlock(dma, dma) /\ rx.phase = "ACTIVE"
      /\ dma.state # "UNCONFIGURED" /\ GateCountFinish(dma, ok, line) /\ callback' = callback
  BY <1>1, <1>2, ZenonT(60) DEF RxInv, ActiveInv, SameBlock, usart_wch_rx_disable
<1>4. \A y \in Contexts : pc'[y] = "callback" <=> pc[y] = "callback"
  BY DispatchStays, Zenon DEF usart_wch_rx_disable
<1> QED
  BY <1>3, <1>4, StopRefines, Zenon

\* A line error ends the session, like usart_wch_rx_disable().
LEMMA UartIsrErrorRefines ==
  ASSUME RxInv, RxInv', Held, Held', usart_wch_isr_error
  PROVE  [Contract!Next]_(Contract!vars)
<1>1. PICK ok \in StatusOutcomes : GateCountFinish(dma, ok, TRUE)
  BY Zenon DEF usart_wch_isr_error
<1>2. PICK line : line = TRUE
  BY Zenon
<1>3. /\ ByteChannel(dma) /\ SameBlock(dma, dma) /\ rx.phase = "ACTIVE"
      /\ dma.state # "UNCONFIGURED" /\ GateCountFinish(dma, ok, line) /\ callback' = callback
  BY <1>1, <1>2, ZenonT(60) DEF RxInv, ActiveInv, SameBlock, usart_wch_isr_error
<1>4. \A y \in Contexts : pc'[y] = "callback" <=> pc[y] = "callback"
  BY Zenon DEF usart_wch_isr_error, IsrFree, RxInv, RxType, Isrs
<1> QED
  BY <1>3, <1>4, StopRefines, Zenon

\* usart_wch_async_callback_set() is the contract's SetCallback.
LEMMA CallbackRefines ==
  ASSUME RxInv, RxInv', Held, Held', NEW x, NEW cb \in Callbacks \cup {"null"},
         usart_wch_async_callback_set(x, cb)
  PROVE  Contract!Next
<1>1. [b \in Blocks |-> Abstract(b)]' = [b \in Blocks |-> Abstract(b)]
  BY Zenon DEF Held, usart_wch_async_callback_set, app
<1>2. Contract!SetCallback(cb)
  BY <1>1, Zenon DEF Contract!SetCallback, usart_wch_async_callback_set
<1> QED
  BY <1>2, Zenon DEF Contract!Next

\* usart_wch_rx_enable() is the contract's Enable.
LEMMA EnableRefines ==
  ASSUME RxInv, RxInv', Held, Held', NEW x \in Contexts, NEW b \in Blocks,
         usart_wch_rx_enable(x, b)
  PROVE  Contract!Next
<1> DEFINE T == [a \in Blocks |-> Abstract(a)]
<1>1. /\ rx.phase = "IDLE" /\ callback # "null" /\ callback' = callback /\ ThenDispatch(x)
      /\ rx' = [rx EXCEPT !.phase = "ACTIVE", !.buffer = b, !.next = Null,
                          !.request_open = FALSE, !.generation = NextGeneration]
      /\ loan' = [loan EXCEPT ![b] = [NoLoan EXCEPT !.lent = TRUE]]
  BY Zenon DEF usart_wch_rx_enable, Start, Lend
<1>2. rx'.phase = "ACTIVE" /\ ~rx'.request_open /\ ~rx.request_open
  BY <1>1, ZenonT(60) DEF RxInv, RxType, Session, PhaseInv
<1>3. rx'.request_open = rx.request_open
  BY <1>2, Zenon DEF RxInv, RxType, Session
<1>4. \A a \in Blocks : T[a] = Contract!Mine
  BY <1>1, AllHome, Zenon DEF Held, Contract!Mine, NoLoan
<1>5. T' = [T EXCEPT ![b] = Contract!Lent]
  BY <1>1, Zenon DEF Held, Contract!Lent, Contract!Mine, NoLoan
<1>6. {y \in Contexts : pc[y] = "callback"}' = {y \in Contexts : pc[y] = "callback"}
  BY <1>1, DispatchStays, Zenon
<1>7. Contract!LentOut = {}
  BY <1>4, Zenon DEF Contract!LentOut
<1>8. Contract!Enable(b)
  BY <1>1, <1>2, <1>3, <1>5, <1>6, <1>7, Zenon DEF Contract!Enable
<1> QED
  BY <1>8, Zenon DEF Contract!Next

\* usart_wch_rx_buf_rsp() is the contract's Answer.
LEMMA BufRspRefines ==
  ASSUME RxInv, RxInv', Held, Held', NEW x \in Contexts, NEW b \in Blocks,
         usart_wch_rx_buf_rsp(x, b)
  PROVE  Contract!Next
<1> DEFINE T == [a \in Blocks |-> Abstract(a)]
<1>1. /\ UNCHANGED <<callback, pc>> /\ rx.phase = "ACTIVE" /\ rx.request_open
      /\ rx' = [rx EXCEPT !.next = b, !.request_open = FALSE]
      /\ loan' = [loan EXCEPT ![b] = [NoLoan EXCEPT !.lent = TRUE]]
      /\ Lendable(b, rx.buffer) /\ ~Rejected(b, rx.buffer)
  BY Zenon DEF usart_wch_rx_buf_rsp, Asked, Lend
<1>2. /\ rx'.phase = "ACTIVE" /\ rx'.request_open = FALSE
  BY <1>1, Zenon DEF RxInv, RxType, Session
<1>3. PICK c \in Blocks : c = rx.buffer
  BY <1>1, Zenon DEF RxInv, ActiveInv
<1>4. ASSUME NEW a \in Blocks, loan[a].lent PROVE Contract!Apart(a, b)
  <2>1. a.addr \in Nat /\ a.len \in Nat \ {0} /\ b.addr \in Nat /\ b.len \in Nat \ {0}
    BY Bounds
  <2>2. CASE a = c
    BY <1>1, <1>3, <2>1, <2>2 DEF Rejected, Contract!Apart
  <2>3. CASE a # c
    BY <1>1, <1>3, <1>4, <2>1, <2>3 DEF Lendable, Overlap, Contract!Apart
  <2> QED
    BY <2>2, <2>3, Zenon
<1>5. \A a \in Contract!LentOut : Contract!Apart(a, b)
  <2>1. \A a \in Blocks : T[a] # Contract!Mine => loan[a].lent
    BY Zenon DEF Held, RxInv, LoanInv, Contract!Mine, NoLoan
  <2> QED
    BY <1>4, <2>1, Zenon DEF Contract!LentOut
<1>6. T' = [T EXCEPT ![b] = Contract!Lent]
  BY <1>1, Zenon DEF Held, Contract!Lent, Contract!Mine, NoLoan
<1>7. Contract!Answer(b)
  BY <1>1, <1>2, <1>5, <1>6, Zenon DEF Contract!Answer
<1> QED
  BY <1>7, Zenon DEF Contract!Next

\* A byte that DMA stores is the contract's Store into the current buffer.
LEMMA StoreByteRefines ==
  ASSUME RxInv, RxInv', Held, Held', StoreByte
  PROVE  Contract!Next
<1> DEFINE T == [a \in Blocks |-> Abstract(a)]
<1>1. /\ UNCHANGED <<rx, callback, pc>> /\ CanMove(dma)
      /\ loan' = [b \in Blocks |->
                    IF loan[b].lent /\ b.addr = dma.maddr
                      THEN [loan[b] EXCEPT !.stored = @ + 1] ELSE loan[b]]
  BY Zenon DEF StoreByte, Receiving
<1>2. dma.state = "RUNNING" /\ dma.cntr \in Nat \ {0}
  BY <1>1, ByteMoved, Zenon DEF RxInv
<1>3. rx.phase = "ACTIVE"
  BY <1>2, ZenonT(60) DEF RxInv, PhaseInv
<1>4. PICK b \in Blocks : b = rx.buffer
  BY <1>3, ZenonT(60) DEF RxInv, ActiveInv
<1>5. /\ loan \in [Blocks -> Account] /\ loan[b] \in Account /\ loan[b].lent
      /\ dma.maddr = b.addr /\ loan[b].stored + dma.cntr = b.len /\ b.len \in Nat
  BY <1>3, <1>4, Bounds, ZenonT(60) DEF RxInv, RxType, ActiveInv, LoanInv
<1>6. \A a \in Blocks \ {b} : ~(loan[a].lent /\ a.addr = dma.maddr)
  <2>1. ASSUME NEW a \in Blocks \ {b}, loan[a].lent, a.addr = b.addr PROVE FALSE
    <3>1. ~Overlap(a, b)
      BY <1>5, <2>1, ZenonT(60) DEF RxInv, LoanInv
    <3>2. a.addr \in Nat /\ a.len \in Nat \ {0} /\ b.addr \in Nat /\ b.len \in Nat \ {0}
      BY Bounds
    <3> QED
      BY <2>1, <3>1, <3>2, SMTT(30) DEF Overlap
  <2> QED
    BY <1>5, <2>1, Zenon
<1>7. loan' = [loan EXCEPT ![b].stored = @ + 1]
  <2>1. PICK r : r = [loan[b] EXCEPT !.stored = @ + 1]
    BY Zenon
  <2>2. loan' = [loan EXCEPT ![b] = r]
    BY <1>1, <1>5, <1>6, <2>1, Zenon
  <2> QED
    BY <2>1, <2>2, Zenon
<1>8. loan[b].stored < b.len
  BY <1>2, <1>5 DEF Account
<1>9. T = loan /\ T' = loan'
  BY Zenon DEF Held
<1> HIDE DEF T
<1>10. T' = [T EXCEPT ![b].stored = @ + 1] /\ T[b].lent /\ T[b].stored < b.len
  BY <1>5, <1>7, <1>8, <1>9, Zenon
<1>11. Contract!Store(b)
  BY <1>1, <1>3, <1>10, Zenon DEF Contract!Store, T
<1> QED
  BY <1>11, Zenon DEF Contract!Next

\* dma_wch_isr(): the session stops, or moves to its next buffer.
LEMMA DmaIsrRefines ==
  ASSUME RxInv, RxInv', Held, Held', dma_wch_isr
  PROVE  [Contract!Next]_(Contract!vars)
<1>1. PICK s, c : s = IsrStatus(dma, flags) /\ c = IsrChannel(dma, flags)
  BY ZenonT(60)
<1>2. /\ ByteChannel(c) /\ SameBlock(c, dma)
      /\ s \in {"none", "EIO", "COMPLETE"}
      /\ s # "none" => dma.state = "RUNNING" /\ c.state = "CONFIGURED"
  BY <1>1, ByteIsr DEF RxInv
<1>3. /\ callback' = callback /\ pc["dma_isr"] = "idle" /\ "dma_isr" \in Contexts
      /\ pc \in [Contexts -> {"idle", "dispatch", "callback"}] /\ rx \in Session
  BY Zenon DEF dma_wch_isr, RxInv, RxType, IsrFree, Isrs, Contexts
<1>4. \A y \in Contexts : pc'[y] = "callback" <=> pc[y] = "callback"
  BY <1>3, Zenon DEF dma_wch_isr
<1>5. CASE s \in {"EIO", "COMPLETE"} /\ rx.phase = "ACTIVE"
  <2>1. usart_wch_rx_dma_callback(s, c)
    BY <1>1, <1>5, Zenon DEF dma_wch_isr
  <2>2. CASE \E ok \in StatusOutcomes : GateCountFinish(c, ok, TRUE)
    <3>1. PICK ok \in StatusOutcomes : GateCountFinish(c, ok, TRUE)
      BY <2>2, Zenon
    <3>2. PICK line : line = TRUE /\ GateCountFinish(c, ok, line)
      BY <3>1, Zenon
    <3>3. c.state # "UNCONFIGURED"
      BY <1>2, <1>5, Zenon
    <3> QED
      BY <1>2, <1>3, <1>4, <1>5, <3>2, <3>3, StopRefines, Zenon
  <2>3. CASE Finish(notes, rx.buffer, Null, rx.buffer.len, FALSE) /\ loan' = loan
    BY <1>3, <1>4, <1>5, <2>3, FinishedSession, EndIsLapse, Zenon DEF Finish
  <2>4. CASE /\ rx.next # Null /\ loan' = loan
             /\ LET done == notes \o ReadyNote(rx.buffer, rx.buffer.len)
                                  \o ReleaseNote(rx.buffer)
                IN \/ /\ Start(Stopped(c), rx.next, done)
                      /\ UNCHANGED <<rxne, err, missing>>
                   \/ \E fault \in StartFaults :
                        /\ StartFailed(Stopped(c), rx.next, fault)
                        /\ HandOverFailed(done)
    <3>1. \/ rx' = Ended
          \/ rx' = [rx EXCEPT !.phase = "ACTIVE", !.buffer = rx.next, !.next = Null,
                              !.request_open = FALSE, !.generation = NextGeneration]
      BY <2>4, Zenon DEF Start, HandOverFailed, Finish
    <3>2. rx'.phase # "IDLE" /\ ~rx'.request_open
      BY <1>3, <3>1, Zenon DEF Ended, Session
    <3>3. SessionStays
      BY <1>3, <1>4, <1>5, <3>2, Zenon DEF SessionStays
    <3> QED
      BY <2>4, <3>2, <3>3, EndIsLapse, Zenon
  <2> QED
    BY <2>1, <2>2, <2>3, <2>4, Zenon DEF usart_wch_rx_dma_callback
<1>6. CASE ~(s \in {"EIO", "COMPLETE"} /\ rx.phase = "ACTIVE")
  <2>1. UNCHANGED <<rx, loan>>
    BY <1>1, <1>6, Zenon DEF dma_wch_isr
  <2>2. SessionStays
    BY <1>3, <1>4, <2>1, Zenon DEF SessionStays
  <2> QED
    BY <2>1, <2>2, Unseen, Zenon
<1> QED
  BY <1>5, <1>6, Zenon

\* A note that is delivered owes nothing it cannot say: data is there to be
\* reported, and a release comes when the buffer's account is settled.
LEMMA NoteIsDue ==
  ASSUME RxInv, NEW i \in 1 .. Len(notes), \A j \in 1 .. (i - 1) : notes[j].type = "REQUEST",
         NEW b \in Blocks, b = notes[i].block
  PROVE  /\ notes[i].type = "RDY" =>
              /\ notes[i].len \in 1 .. b.len
              /\ loan[b].reported + notes[i].len <= loan[b].stored
         /\ notes[i].type = "RELEASED" =>
              loan[b].reported = loan[b].stored \/ (loan[b].unknown /\ loan[b].stopped)
<1>1. /\ QueueInv(notes, loan) /\ notes \in Seq(NoteRecord) /\ loan[b] \in Account
      /\ loan[b].stored <= b.len /\ b.len \in Nat /\ Len(notes) \in Nat
  <2>1. /\ QueueInv(notes, loan) /\ notes \in Seq(NoteRecord) /\ loan \in [Blocks -> Account]
        /\ loan[b].stored <= b.len
    BY Zenon DEF RxInv, RxType, LoanInv
  <2>2. b.len \in Nat
    BY Bounds, Zenon
  <2> QED
    BY ONLY <2>1, <2>2, b \in Blocks
<1>2. ASSUME notes[i].type = "RDY"
      PROVE  notes[i].len \in 1 .. b.len /\ loan[b].reported + notes[i].len <= loan[b].stored
  <2>1. PICK j \in (i + 1) .. Len(notes) : Tells(notes[j], "RELEASED", b)
    BY <1>1, <1>2, Zenon DEF QueueInv
  <2>2. j \in 1 .. Len(notes) /\ notes[j].type = "RELEASED" /\ notes[j].block = b
    BY <1>1, <2>1 DEF Tells
  <2>3. Settles(notes, j, loan[b])
    BY <1>1, <2>2, Zenon DEF QueueInv
  <2>4. ~Unreported(notes, b)
    BY <1>2, Zenon DEF Unreported, Tells
  <2>5. PICK k \in 1 .. (j - 1) :
          Tells(notes[k], "RDY", b) /\ loan[b].reported + notes[k].len = loan[b].stored
    BY <2>2, <2>3, <2>4, Zenon DEF Settles
  <2>6. k \in 1 .. Len(notes)
    BY <1>1, <2>2, <2>5, SMTT(30)
  <2>7. k = i
    BY <1>1, <1>2, <2>5, <2>6 DEF QueueInv, Tells
  <2>8. notes[i].len \in Nat /\ notes[i].len > 0
    <3>1. notes[i] \in NoteRecord
      BY <1>1
    <3>2. notes[i].len > 0
      BY <1>1, <1>2, Zenon DEF QueueInv
    <3> QED
      BY ONLY <3>1, <3>2, Zenon DEF NoteRecord
  <2>9. PICK len, r, s, m : len = notes[i].len /\ r = loan[b].reported /\ s = loan[b].stored /\ m = b.len
    BY Zenon
  <2>10. len \in Nat /\ len > 0 /\ r \in Nat /\ s \in Nat /\ m \in Nat /\ r + len = s /\ s <= m
    BY <1>1, <2>5, <2>7, <2>8, <2>9, Zenon DEF Account
  <2>11. len \in 1 .. m /\ r + len <= s
    BY ONLY <2>10
  <2> QED
    BY ONLY <2>9, <2>11, Zenon
<1>3. ASSUME notes[i].type = "RELEASED"
      PROVE  loan[b].reported = loan[b].stored \/ (loan[b].unknown /\ loan[b].stopped)
  <2>1. Settles(notes, i, loan[b])
    BY <1>1, <1>3, Zenon DEF QueueInv
  <2>2. \A j \in 1 .. (i - 1) : ~Tells(notes[j], "RDY", b) /\ ~Tells(notes[j], "STOPPED", b)
    BY Zenon DEF Tells
  <2> QED
    BY <2>1, <2>2, Zenon DEF Settles
<1> QED
  BY <1>2, <1>3, Zenon

\* An event enters the callback that no other context is in.
LEMMA DeliverIsEvent ==
  ASSUME RxInv, NEW x \in Contexts, MayDispatch(x), pc' = [pc EXCEPT ![x] = "callback"],
         callback' = callback, callback # "null", rx.phase # "IDLE"
  PROVE  Contract!Event(x)
<1>1. \A y \in Contexts \ {x} : pc[y] # "callback"
  BY Zenon DEF MayDispatch, RxInv, DispatchInv
<1>2. pc'[x] = "callback" /\ \A y \in Contexts \ {x} : pc'[y] = pc[y]
  BY Zenon DEF RxInv, RxType
<1>3. /\ {y \in Contexts : pc[y] = "callback"} \subseteq {x}
      /\ {y \in Contexts : pc[y] = "callback"}' = {x}
  BY <1>1, <1>2, Zenon
<1> QED
  BY <1>3, Zenon DEF Contract!Event

\* The dispatcher delivers what the contract allows, in the order it allows.
LEMMA DeliverRefines ==
  ASSUME RxInv, RxInv', Held, Held', NEW x \in Contexts, MayDispatch(x),
         NEW i \in 1 .. Len(notes), Deliver(x, i), callback' = callback
  PROVE  Contract!Next
<1> DEFINE T == [a \in Blocks |-> Abstract(a)]
<1>1. PICK n \in NoteRecord : n = notes[i]
  BY DEF RxInv, RxType
<1>2. /\ Deliverable(notes[i]) /\ \A j \in 1 .. (i - 1) : ~Deliverable(notes[j])
      /\ pc' = [pc EXCEPT ![x] = "callback"]
      /\ rx' = [rx EXCEPT !.dispatching = TRUE,
                          !.request_open = @ \/ n.type = "REQUEST",
                          !.phase = IF n.type = "DISABLED" THEN "IDLE" ELSE @]
  BY <1>1, Zenon DEF Deliver
<1>3. /\ \A j \in 1 .. (i - 1) : notes[j].type = "REQUEST"
      /\ rx.phase # "IDLE" /\ callback # "null"
      /\ rx.phase = "ACTIVE" => n.type \in {"RDY", "RELEASED", "REQUEST"}
      /\ rx.phase = "STOPPING" => (n.type = "DISABLED" <=> i = Len(notes))
  BY <1>1, <1>2, Passed, Zenon
<1>4. n.type \in News => n.block \in Blocks /\ loan[n.block].lent
  BY <1>1, LoanFollows, Zenon
<1>5. /\ n.type = "RDY" => loan' = [loan EXCEPT ![n.block].reported = @ + n.len]
      /\ n.type = "STOPPED" => loan' = [loan EXCEPT ![n.block].stopped = TRUE]
      /\ n.type = "RELEASED" => loan' = [loan EXCEPT ![n.block] = NoLoan]
      /\ n.type \notin News => loan' = loan
  BY <1>1, Zenon DEF Deliver, News
<1>6. T = loan /\ T' = loan'
  BY Zenon DEF Held
<1>7. /\ rx \in Session /\ rx' \in Session
      /\ (rx'.request_open <=> rx.request_open \/ n.type = "REQUEST")
      /\ rx'.phase = IF n.type = "DISABLED" THEN "IDLE" ELSE rx.phase
  <2>0. rx \in Session /\ rx' \in Session
    BY Zenon DEF RxInv, RxType
  <2>a. PICK r1 : r1 = [rx EXCEPT !.dispatching = TRUE]
    BY Zenon
  <2>b. PICK r2 : r2 = [r1 EXCEPT !.request_open = @ \/ n.type = "REQUEST"]
    BY Zenon
  <2>1. /\ r1 = [rx EXCEPT !.dispatching = TRUE]
        /\ r2 = [r1 EXCEPT !.request_open = @ \/ n.type = "REQUEST"]
        /\ rx' = [r2 EXCEPT !.phase = IF n.type = "DISABLED" THEN "IDLE" ELSE @]
    BY <1>2, <2>a, <2>b, Zenon
  <2>2. r1 \in Session /\ (r1.request_open <=> rx.request_open) /\ r1.phase = rx.phase
    BY <2>0, <2>1, ZenonT(60) DEF Session
  <2>3. /\ r2 \in Session /\ r2.phase = rx.phase
        /\ (r2.request_open <=> rx.request_open \/ n.type = "REQUEST")
    BY <2>1, <2>2, Zenon DEF Session
  <2> QED
    BY <2>0, <2>1, <2>3 DEF Session
<1>8. Contract!Event(x)
  BY <1>2, <1>3, DeliverIsEvent, Zenon
<1>9. n.type # "DISABLED" => (rx.phase # "IDLE")' = (rx.phase # "IDLE")
  BY <1>7, Zenon
<1>10. n.type # "REQUEST" => rx'.request_open = rx.request_open
  BY <1>7, Zenon DEF Session
<1> HIDE DEF T
<1>11. CASE n.type = "REQUEST"
  <2>1. rx'.request_open = TRUE /\ T' = T
    BY <1>5, <1>6, <1>7, <1>11, Zenon DEF Session, News
  <2>2. Contract!Request(x)
    BY <1>8, <1>9, <1>11, <2>1, Zenon DEF Contract!Request, T
  <2> QED
    BY <2>2, Zenon DEF Contract!Next
<1>12. CASE n.type = "DISABLED"
  <2>1. rx.phase = "STOPPING" /\ i = Len(notes)
    BY <1>3, <1>7, <1>12, ZenonT(60) DEF Session
  <2>2. rx.buffer = Null /\ rx.next = Null /\ ~rx.request_open
    BY <2>1, ZenonT(60) DEF RxInv, PhaseInv
  <2>3. \A j \in 1 .. Len(notes) : notes[j].type # "RELEASED"
    <3>1. \A j \in 1 .. Len(notes) : j = i \/ j \in 1 .. (i - 1)
      BY <2>1
    <3> QED
      BY <1>1, <1>3, <1>12, <3>1, ZenonT(60)
  <2>4. \A b \in Blocks : loan[b] = Contract!Mine
    <3> TAKE b \in Blocks
    <3>1. rx.buffer # b /\ rx.next # b
      BY <2>2, Bounds, Zenon
    <3>2. ~loan[b].lent
      <4>1. loan[b].lent <=> \/ rx.buffer = b \/ rx.next = b
                             \/ \E j \in 1 .. Len(notes) : Tells(notes[j], "RELEASED", b)
        BY Zenon DEF RxInv, LoanInv
      <4>2. \A j \in 1 .. Len(notes) : ~Tells(notes[j], "RELEASED", b)
        BY ONLY <2>3, ZenonT(60) DEF Tells
      <4> QED
        BY ONLY <3>1, <4>1, <4>2, ZenonT(60)
    <3>3. loan[b] = NoLoan
      BY <3>2, ZenonT(60) DEF RxInv, LoanInv
    <3> QED
      BY <3>3, Zenon DEF Contract!Mine, NoLoan
  <2>5. T' = T /\ Contract!LentOut = {}
    BY <1>5, <1>6, <1>12, <2>4, ZenonT(60) DEF Contract!LentOut, T, News
  <2>6. Contract!Disabled(x)
    BY <1>7, <1>8, <1>10, <1>12, <2>2, <2>5, ZenonT(60) DEF Contract!Disabled, T
  <2> QED
    BY <2>6, Zenon DEF Contract!Next
<1>13. ASSUME n.type \in News PROVE Contract!Next
  <2>1. PICK b \in Blocks : b = n.block
    BY <1>4, <1>13, Zenon
  <2>2. /\ T[b].lent /\ rx'.request_open = rx.request_open
        /\ (rx.phase # "IDLE")' = (rx.phase # "IDLE")
    BY <1>4, <1>6, <1>9, <1>10, <1>13, <2>1, Zenon DEF News
  <2>3. /\ n.type = "RDY" => n.len \in 1 .. b.len /\ T[b].reported + n.len <= T[b].stored
        /\ n.type = "RELEASED" =>
             T[b].reported = T[b].stored \/ (T[b].unknown /\ T[b].stopped)
    BY <1>1, <1>3, <1>6, <2>1, NoteIsDue, Zenon
  <2>4. CASE n.type = "RDY"
    <3>1. T' = [T EXCEPT ![b].reported = @ + n.len]
      BY <1>5, <1>6, <2>1, <2>4, Zenon
    <3>2. Contract!Ready(x, b, n.len)
      BY <1>8, <2>2, <2>3, <2>4, <3>1, Zenon DEF Contract!Ready, T
    <3> QED
      BY <2>3, <2>4, <3>2, Zenon DEF Contract!Next
  <2>5. CASE n.type = "STOPPED"
    <3>1. T' = [T EXCEPT ![b].stopped = TRUE]
      BY <1>5, <1>6, <2>1, <2>5, Zenon
    <3>2. Contract!StoppedEvent(x, b)
      BY <1>8, <2>2, <3>1, Zenon DEF Contract!StoppedEvent, T
    <3> QED
      BY <3>2, Zenon DEF Contract!Next
  <2>6. CASE n.type = "RELEASED"
    <3>1. T' = [T EXCEPT ![b] = Contract!Mine]
      BY <1>5, <1>6, <2>1, <2>6, Zenon DEF Contract!Mine, NoLoan
    <3>2. Contract!Release(x, b)
      BY <1>8, <2>2, <2>3, <2>6, <3>1, Zenon DEF Contract!Release, T
    <3> QED
      BY <3>2, Zenon DEF Contract!Next
  <2> QED
    BY <1>13, <2>4, <2>5, <2>6, ZenonT(60) DEF News
<1> QED
  BY <1>11, <1>12, <1>13, Zenon DEF NoteRecord, News

\* A dispatcher that is done leaves the callback it was in, if any.
LEMMA DoneRefines ==
  ASSUME RxInv, RxInv', Held, Held', NEW x \in Contexts, MayDispatch(x), DispatchDone(x),
         callback' = callback
  PROVE  Contract!Next
<1>1. /\ rx' = [rx EXCEPT !.dispatching = FALSE] /\ pc' = [pc EXCEPT ![x] = "idle"]
      /\ loan' = loan
  BY Zenon DEF DispatchDone
<1>2. /\ rx'.phase = rx.phase /\ rx'.request_open = rx.request_open
  BY <1>1, Zenon DEF RxInv, RxType, Session
<1>3. \A y \in Contexts \ {x} : pc[y] # "callback"
  BY Zenon DEF MayDispatch, RxInv, DispatchInv
<1>4. {y \in Contexts : pc[y] = "callback"}' = {}
  BY <1>1, <1>3, Zenon DEF RxInv, RxType
<1>5. [b \in Blocks |-> Abstract(b)]' = [b \in Blocks |-> Abstract(b)]
  BY <1>1, Zenon DEF Held
<1>6. Contract!Return
  BY <1>2, <1>4, <1>5, Zenon DEF Contract!Return
<1> QED
  BY <1>6, Zenon DEF Contract!Next

\* Steps of the driver and of the hardware that the application does not see.
LEMMA OtherRefines ==
  ASSUME RxInv, RxInv', Held, Held', UNCHANGED <<rx, callback, loan>>,
         \/ pc' = pc
         \/ \E x \in Contexts : ThenDispatch(x)
         \/ \E x \in Contexts, to \in {"idle", "dispatch"} :
              pc[x] # "callback" /\ pc' = [pc EXCEPT ![x] = to]
  PROVE  UNCHANGED Contract!vars
<1>1. \A y \in Contexts : pc'[y] = "callback" <=> pc[y] = "callback"
  BY PcStays, DispatchStays, Zenon
<1>2. SessionStays
  BY <1>1, Zenon DEF SessionStays
<1> QED
  BY <1>2, Unseen, Zenon

\* Every step is a step of the contract, or one it does not see.
LEMMA StepRefines ==
  ASSUME RxInv, RxInv', Held, Held', [Next]_vars
  PROVE  [Contract!Next]_(Contract!vars)
<1>1. ASSUME NEW x \in Contexts, AppCall(x) PROVE [Contract!Next]_(Contract!vars)
  <2>1. ASSUME NEW cb \in Callbacks \cup {"null"}, usart_wch_async_callback_set(x, cb)
        PROVE  Contract!Next
    BY <2>1, CallbackRefines, Zenon
  <2>2. ASSUME NEW b \in Blocks, usart_wch_rx_enable(x, b) PROVE Contract!Next
    BY <2>2, EnableRefines, Zenon
  <2>3. ASSUME NEW b \in Blocks, NEW fault \in StartFaults, usart_wch_rx_enable_fails(x, b, fault)
        PROVE  UNCHANGED Contract!vars
    <3>1. UNCHANGED <<rx, callback, loan>> /\ ThenDispatch(x)
      BY <2>3, Zenon DEF usart_wch_rx_enable_fails, app
    <3> QED
      BY <3>1, OtherRefines, Zenon
  <2>4. ASSUME NEW b \in Blocks, usart_wch_rx_buf_rsp(x, b) PROVE Contract!Next
    BY <2>4, BufRspRefines, Zenon
  <2>5. CASE usart_wch_rx_disable(x)
    BY <2>5, DisableRefines, Zenon
  <2>6. CASE usart_wch_poll_in(x)
    <3>1. UNCHANGED <<rx, callback, loan>> /\ pc' = pc
      BY <2>6, Zenon DEF usart_wch_poll_in
    <3> QED
      BY <3>1, OtherRefines, Zenon
  <2> QED
    BY <1>1, <2>1, <2>2, <2>3, <2>4, <2>5, <2>6, Zenon DEF AppCall
<1>2. ASSUME NEW x \in Contexts, DispatchLeft(x) PROVE UNCHANGED Contract!vars
  <2>1. /\ UNCHANGED <<rx, callback, loan>> /\ pc[x] # "callback"
        /\ pc' = [pc EXCEPT ![x] = "idle"]
    BY <1>2, Zenon DEF DispatchLeft, app
  <2> QED
    BY <2>1, OtherRefines, Zenon
<1>3. ASSUME NEW x \in Contexts, usart_wch_rx_dispatch(x) PROVE Contract!Next
  <2>1. MayDispatch(x) /\ callback' = callback
    BY <1>3, Zenon DEF usart_wch_rx_dispatch
  <2>2. ASSUME NEW i \in 1 .. Len(notes), Deliver(x, i) PROVE Contract!Next
    BY <2>1, <2>2, DeliverRefines, Zenon
  <2>3. CASE DispatchDone(x)
    BY <2>1, <2>3, DoneRefines, Zenon
  <2> QED
    BY <1>3, <2>2, <2>3, Zenon DEF usart_wch_rx_dispatch
<1>4. CASE dma_wch_isr
  BY <1>4, DmaIsrRefines, Zenon
<1>5. CASE usart_wch_isr_error
  BY <1>5, UartIsrErrorRefines, Zenon
<1>6. CASE usart_wch_isr_tx
  <2>1. /\ UNCHANGED <<rx, callback, loan>> /\ "uart_isr" \in Contexts /\ pc["uart_isr"] # "callback"
        /\ pc' = [pc EXCEPT !["uart_isr"] = "dispatch"]
    BY <1>6, Zenon DEF usart_wch_isr_tx, app, IsrFree, Isrs, Contexts
  <2> QED
    BY <2>1, OtherRefines, Zenon
<1>7. CASE ByteArrives \/ EngineError \/ UNCHANGED vars
  <2>1. UNCHANGED <<rx, callback, loan>> /\ pc' = pc
    BY <1>7, Zenon DEF ByteArrives, EngineError, vars, app
  <2> QED
    BY <2>1, OtherRefines, Zenon
<1>8. CASE StoreByte
  BY <1>8, StoreByteRefines, Zenon
<1> QED
  BY <1>1, <1>2, <1>3, <1>4, <1>5, <1>6, <1>7, <1>8, Zenon DEF Next

\* Asynchronous reception keeps its contract with the application: events one at
\* a time, to the callback the session began with; every buffer lent shares no
\* byte with another and comes back exactly once, after every byte DMA stored in
\* it was reported, no more and no fewer (or the application was told that the
\* number is unknown); UART_RX_DISABLED last.
THEOREM Refinement == Spec => ImplementsContract
<1>1. Init => Contract!Init
  <2> SUFFICES ASSUME Init PROVE Contract!Init
    BY Zenon
  <2>1. RxInv /\ Held
    BY InitInv, OneHolder, Zenon
  <2>2. [b \in Blocks |-> Abstract(b)] = [b \in Blocks |-> Contract!Mine]
    BY <2>1, Zenon DEF Init, Held, Contract!Mine, NoLoan
  <2>3. {x \in Contexts : pc[x] = "callback"} = {}
    BY Zenon DEF Init
  <2> QED
    BY <2>2, <2>3, Zenon DEF Init, Contract!Init
<1>2. RxInv /\ RxInv' /\ [Next]_vars => [Contract!Next]_(Contract!vars)
  BY OneHolder, StepRefines, PTL
<1> QED
  BY <1>1, <1>2, Invariance, PTL DEF Spec, ImplementsContract, Contract!Spec
=============================================================================
