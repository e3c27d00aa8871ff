--------------------------- MODULE UdcStepProofs ---------------------------
(***************************************************************************)
(* The inductive invariants of the device (UdcBusInv) survive every step,  *)
(* where a step is known by its effect on the device record (StepEffect).  *)
(* That the actions of UdcBus have these effects is the business of        *)
(* UdcWchProofs and UdcBusProofs.                                          *)
(***************************************************************************)
EXTENDS UdcBusInv, TLAPS

\* The fields of a device record, by type.
LEMMA Fields ==
  ASSUME NEW s \in Device
  PROVE  /\ s.fg \subseteq Flag /\ s.st \in Latch
         /\ s.ctl \in [Eps -> Slot] /\ s.ep \in [Eps -> EpState]
         /\ s.q \in [Eps -> Seq(Requests)] /\ s.in_length \in [Eps -> 0..MPS]
         /\ s.done \subseteq Return /\ s.skew \in [Eps -> BOOLEAN]
         /\ s.unheard \in [Eps -> BOOLEAN] /\ s.refused \in [Eps -> BOOLEAN]
         /\ s.mode \subseteq Bulk /\ s.packet0 \in {"none", "in", "setup"}
         /\ s.running \in BOOLEAN /\ s.on \in BOOLEAN /\ s.copying \in BOOLEAN
         /\ s.pending \in BOOLEAN /\ s.taken \in BOOLEAN /\ s.valid \in BOOLEAN
         /\ s.intact \in BOOLEAN /\ s.sie \in Eps \cup {"none", "setup"}
  BY Zenon DEF Device

\* The first request of a queue that is not empty.
LEMMA First ==
  ASSUME NEW sq \in Seq(Requests), sq # <<>>
  PROVE  /\ Head(sq) \in Requests /\ sq[1] = Head(sq) /\ 1 \in DOMAIN sq
         /\ Tail(sq) \in Seq(Requests) /\ Len(Tail(sq)) = Len(sq) - 1
         /\ \A i \in DOMAIN Tail(sq) : i + 1 \in DOMAIN sq /\ Tail(sq)[i] = sq[i + 1]
  OBVIOUS

\* Replacing it.
LEMMA FirstReplaced ==
  ASSUME NEW sq \in Seq(Requests), sq # <<>>, NEW r \in Requests
  PROVE  /\ [sq EXCEPT ![1] = r] \in Seq(Requests)
         /\ [sq EXCEPT ![1] = r] # <<>>
         /\ DOMAIN [sq EXCEPT ![1] = r] = DOMAIN sq
         /\ Len([sq EXCEPT ![1] = r]) = Len(sq)
         /\ Head([sq EXCEPT ![1] = r]) = r /\ [sq EXCEPT ![1] = r][1] = r
         /\ \A i \in DOMAIN sq \ {1} : [sq EXCEPT ![1] = r][i] = sq[i]
         /\ Tail([sq EXCEPT ![1] = r]) = Tail(sq)
<1>1. PICK n \in Nat : n = Len(sq) /\ n > 0 /\ DOMAIN sq = 1..n
  OBVIOUS
<1>2. PICK t : t = [sq EXCEPT ![1] = r]
  BY Zenon
<1>3. t \in [1..n -> Requests]
  BY <1>1, <1>2
<1>4. t \in Seq(Requests) /\ Len(t) = n /\ DOMAIN t = 1..n
  BY <1>1, <1>3
<1>5. t[1] = r /\ \A i \in DOMAIN sq \ {1} : t[i] = sq[i]
  BY <1>1, <1>2
<1>6. Head(t) = r /\ t # <<>>
  BY <1>1, <1>4, <1>5
<1>7. Tail(t) = Tail(sq)
  <2>1. Tail(t) \in Seq(Requests) /\ Tail(sq) \in Seq(Requests)
    BY <1>4, <1>6
  <2>2. Len(Tail(t)) = Len(Tail(sq))
    BY <1>1, <1>4, <1>6
  <2>3. ASSUME NEW i \in 1..Len(Tail(t)) PROVE Tail(t)[i] = Tail(sq)[i]
    BY <1>1, <1>4, <1>5, <1>6
  <2> QED BY <2>1, <2>2, <2>3
<1> QED BY <1>1, <1>2, <1>4, <1>5, <1>6, <1>7, Zenon

\* A request goes back with its own number.
LEMMA OutcomeType ==
  ASSUME NEW s \in Device, NEW e \in Eps, NEW r \in Requests, NEW err \in Err
  PROVE  /\ Outcome(s, e, r, err) \in Return
         /\ Outcome(s, e, r, err).id = r.id /\ Outcome(s, e, r, err).err = err
         /\ Outcome(s, e, r, err).clean <=> ~r.bad
<1>1. Exact(s, e, r) \in BOOLEAN
  BY Zenon DEF Exact
<1>2. r.bad \in BOOLEAN /\ r.id \in 1..MaxReq
  BY Zenon DEF Requests
<1> QED BY <1>1, <1>2, Zenon DEF Outcome, Return

\* The latch when nothing is latched.
LEMMA NoTokenType == NoToken \in Latch /\ NoToken.ep = "none" /\ ~NoToken.bad
  BY UdcConstants DEF NoToken, Latch

\* Steps on the same endpoint compose.
LEMMA LocalTrans ==
  ASSUME NEW s, NEW m, NEW t, NEW e, Local(s, m, e), Local(m, t, e)
  PROVE  Local(s, t, e)
  BY DEF Local

\* Updating one flag of a table with one flag per endpoint.
LEMMA FlagUpdate ==
  ASSUME NEW f \in [Eps -> BOOLEAN], NEW e \in Eps, NEW v \in BOOLEAN
  PROVE  /\ [f EXCEPT ![e] = v] \in [Eps -> BOOLEAN] /\ [f EXCEPT ![e] = v][e] = v
         /\ \A g \in Eps \ {e} : [f EXCEPT ![e] = v][g] = f[g]
  BY Zenon

(***************************************************************************)
(* The books: who holds which request.                                     *)
(***************************************************************************)

\* Moving data changes no loan.
LEMMA BooksSame ==
  ASSUME NEW q, NEW r, NEW done, NEW n, Books(q, done, n),
         \A e \in Eps : DOMAIN r[e] = DOMAIN q[e] /\ \A i \in DOMAIN q[e] : r[e][i].id = q[e][i].id
  PROVE  Books(r, done, n)
  BY DEF Books

\* The first request of a queue goes back.
LEMMA BooksPop ==
  ASSUME NEW q, NEW r, NEW done, NEW n, Books(q, done, n), NEW e \in Eps,
         q[e] \in Seq(Requests), q[e] # <<>>, r[e] = Tail(q[e]),
         \A g \in Eps \ {e} : r[g] = q[g], NEW o, o.id = Head(q[e]).id
  PROVE  Books(r, done \cup {o}, n)
<1>1. PICK h \in Seq(Requests) : h = q[e]
  BY Zenon
<1>2. PICK l \in Seq(Requests) : l = r[e] /\ l = Tail(h)
  BY <1>1, First, Zenon
<1>3. /\ 1 \in DOMAIN h /\ h[1] = Head(h)
      /\ \A i \in DOMAIN l : i \in Nat /\ i # 0 /\ i + 1 \in DOMAIN h /\ l[i] = h[i + 1]
      /\ \A i \in DOMAIN h : i # 1 => i - 1 \in DOMAIN l /\ h[i] = l[i - 1]
      /\ \A i \in DOMAIN h : i \in Nat /\ i # 0
  <2>1. h # <<>> /\ l = Tail(h)
    BY <1>1, <1>2, Zenon
  <2> QED BY ONLY h \in Seq(Requests), l \in Seq(Requests), <2>1
<1>4. o.id = h[1].id
  BY <1>1, <1>3, Zenon
<1>5. ASSUME NEW g \in Eps, NEW i \in DOMAIN r[g]
      PROVE  \E j \in DOMAIN q[g] : /\ r[g][i] = q[g][j] /\ (g = e => j = i + 1)
                                    /\ (g # e => j = i)
  <2>1. CASE g = e
    <3>1. i \in DOMAIN l
      BY <1>2, <1>5, <2>1, Zenon
    <3>2. i + 1 \in DOMAIN h /\ l[i] = h[i + 1]
      BY <1>3, <3>1, Zenon
    <3> QED BY <1>1, <1>2, <2>1, <3>2, Zenon
  <2>2. CASE g # e
    BY <1>5, <2>2, Zenon
  <2> QED BY <2>1, <2>2, Zenon
<1>6. \A g \in Eps : \A i \in DOMAIN r[g] : r[g][i].id \in 1..n /\ r[g][i].id # o.id
  <2> TAKE g \in Eps
  <2> TAKE i \in DOMAIN r[g]
  <2>1. PICK j \in DOMAIN q[g] : r[g][i] = q[g][j] /\ (g = e => j = i + 1)
    BY <1>5, Zenon
  <2>2. ASSUME g = e PROVE j # 1
    <3>1. i \in DOMAIN l /\ j = i + 1
      BY <1>2, <2>1, <2>2, Zenon
    <3>2. i \in Nat /\ i # 0
      BY <1>3, <3>1, Zenon
    <3> QED BY <3>1, <3>2
  <2> QED BY <1>1, <1>3, <1>4, <2>1, <2>2 DEF Books
<1>7. \A g, f \in Eps : \A i \in DOMAIN r[g], j \in DOMAIN r[f] :
        r[g][i].id = r[f][j].id => g = f /\ i = j
  <2> TAKE g \in Eps, f \in Eps
  <2> TAKE i \in DOMAIN r[g], j \in DOMAIN r[f]
  <2> HAVE r[g][i].id = r[f][j].id
  <2>1. PICK a \in DOMAIN q[g] : r[g][i] = q[g][a] /\ (g = e => a = i + 1) /\ (g # e => a = i)
    BY <1>5, Zenon
  <2>2. PICK b \in DOMAIN q[f] : r[f][j] = q[f][b] /\ (f = e => b = j + 1) /\ (f # e => b = j)
    BY <1>5, Zenon
  <2>3. g = f /\ a = b
    BY <2>1, <2>2, SMTT(30) DEF Books
  <2>4. g = e => i \in Nat /\ j \in Nat
    BY <1>2, <1>3, <2>3, Zenon
  <2> QED BY <2>1, <2>2, <2>3, <2>4
<1>8. \A d \in done \cup {o} : d.id \in 1..n
  BY <1>1, <1>3, <1>4 DEF Books
<1>9. \A c, d \in done \cup {o} : c.id = d.id => c = d
  BY <1>1, <1>3, <1>4 DEF Books
<1>10. \A d \in done \cup {o} : \A g \in Eps : \A i \in DOMAIN r[g] : d.id # r[g][i].id
  BY <1>5, <1>6, SMTT(30) DEF Books
<1>11. \A k \in 1..n : \/ \E g \in Eps : \E i \in DOMAIN r[g] : r[g][i].id = k
                       \/ \E d \in done \cup {o} : d.id = k
  <2> TAKE k \in 1..n
  <2>1. CASE \E g \in Eps : \E i \in DOMAIN q[g] : q[g][i].id = k
    <3>0. PICK g \in Eps : \E i \in DOMAIN q[g] : q[g][i].id = k
      BY <2>1, Zenon
    <3>1. PICK i \in DOMAIN q[g] : q[g][i].id = k
      BY <3>0, Zenon
    <3>2. CASE g = e /\ i = 1
      BY <1>1, <1>4, <3>1, <3>2, Zenon
    <3>3. CASE g = e /\ i # 1
      <4>1. i - 1 \in DOMAIN r[e] /\ r[e][i - 1] = q[e][i]
        BY <1>1, <1>2, <1>3, <3>1, <3>3, Zenon
      <4> QED BY <3>1, <3>3, <4>1, Zenon
    <3>4. CASE g # e
      BY <3>1, <3>4, Zenon
    <3> QED BY <3>2, <3>3, <3>4, Zenon
  <2>2. CASE \E d \in done : d.id = k
    BY <2>2, Zenon
  <2> QED BY <2>1, <2>2, Zenon DEF Books
<1> QED BY <1>6, <1>7, <1>8, <1>9, <1>10, <1>11, Zenon DEF Books

\* A whole queue goes back.
LEMMA BooksClear ==
  ASSUME NEW q, NEW r, NEW done, NEW n, Books(q, done, n), NEW e \in Eps,
         Emptied(q, r, e), NEW back, Matches(back, q[e])
  PROVE  Books(r, done \cup back, n)
<1>1. DOMAIN r[e] = {}
  BY ONLY Emptied(q, r, e) DEF Emptied
<1>2. \A g \in Eps : \A i \in DOMAIN r[g] : g # e /\ i \in DOMAIN q[g] /\ r[g][i] = q[g][i]
  BY ONLY <1>1, Emptied(q, r, e), Zenon DEF Emptied
<1>3. \A g \in Eps : \A i \in DOMAIN r[g] : r[g][i].id \in 1..n
  BY <1>2 DEF Books
<1>4. \A g, f \in Eps : \A i \in DOMAIN r[g], j \in DOMAIN r[f] :
        r[g][i].id = r[f][j].id => g = f /\ i = j
  BY <1>2 DEF Books
<1>5. \A d \in done \cup back : d.id \in 1..n
  BY DEF Books, Matches
<1>6. \A c, d \in done \cup back : c.id = d.id => c = d
  BY DEF Books, Matches
<1>7. \A d \in done \cup back : \A g \in Eps : \A i \in DOMAIN r[g] : d.id # r[g][i].id
  <2> TAKE d \in done \cup back
  <2> TAKE g \in Eps
  <2> TAKE i \in DOMAIN r[g]
  <2>1. g # e /\ i \in DOMAIN q[g] /\ r[g][i] = q[g][i]
    BY <1>2, Zenon
  <2>2. CASE d \in done
    BY <2>1, <2>2 DEF Books
  <2>3. CASE d \in back
    <3>1. PICK j \in DOMAIN q[e] : d.id = q[e][j].id
      BY ONLY <2>3, Matches(back, q[e]), Zenon DEF Matches
    <3> QED BY <2>1, <3>1 DEF Books
  <2> QED BY <2>2, <2>3, Zenon
<1>8. \A k \in 1..n : \/ \E g \in Eps : \E i \in DOMAIN r[g] : r[g][i].id = k
                      \/ \E d \in done \cup back : d.id = k
  <2> TAKE k \in 1..n
  <2>1. CASE \E g \in Eps : \E i \in DOMAIN q[g] : q[g][i].id = k
    <3>0. PICK g \in Eps : \E i \in DOMAIN q[g] : q[g][i].id = k
      BY <2>1, Zenon
    <3>1. PICK i \in DOMAIN q[g] : q[g][i].id = k
      BY <3>0, Zenon
    <3>2. CASE g = e
      BY ONLY <3>1, <3>2, Matches(back, q[e]), Zenon DEF Matches
    <3>3. CASE g # e
      BY ONLY <3>1, <3>3, Emptied(q, r, e), g \in Eps, Zenon DEF Emptied
    <3> QED BY <3>2, <3>3, Zenon
  <2>2. CASE \E d \in done : d.id = k
    BY <2>2, Zenon
  <2> QED BY <2>1, <2>2, Zenon DEF Books
<1> QED BY <1>3, <1>4, <1>5, <1>6, <1>7, <1>8, Zenon DEF Books

\* The returns of a cancelled queue match its requests one to one.
LEMMA ReturnsMatch ==
  ASSUME NEW s, NEW m \in Device, NEW e \in Eps, NEW err \in Err, m.q[e] = s.q[e],
         NEW done, NEW n, Books(s.q, done, n)
  PROVE  Matches(Returns(m, e, err), s.q[e])
<1>1. m.q[e] \in Seq(Requests)
  BY Fields, Zenon
<1>2. \A i \in DOMAIN s.q[e] : m.q[e][i] \in Requests
  BY <1>1
<1>3. \A i \in DOMAIN s.q[e] : /\ Outcome(m, e, m.q[e][i], err).id = s.q[e][i].id
                               /\ Outcome(m, e, m.q[e][i], err).err = err
  BY <1>2, OutcomeType
<1>4. \A i, j \in DOMAIN s.q[e] : s.q[e][i].id = s.q[e][j].id => i = j
  BY DEF Books
<1> QED BY <1>3, <1>4 DEF Returns, Matches

\* Cancelling a queue keeps the books.
LEMMA SentBackBooks ==
  ASSUME NEW s \in Device, NEW t, NEW e \in Eps, Local(s, t, e), t.q[e] = <<>>, SentBack(s, t, e)
  PROVE  KeepsBooks(s, t) /\ OnlyAborts(s, t)
<1>1. PICK m \in Device : m.q[e] = s.q[e] /\ t.done = s.done \cup Returns(m, e, "ECONNABORTED")
  BY Zenon DEF SentBack
<1>2. PICK back : back = Returns(m, e, "ECONNABORTED")
  BY Zenon
<1>3. \A g \in Eps \ {e} : t.q[g] = s.q[g]
  BY Zenon DEF Local
<1>4. KeepsBooks(s, t)
  <2> SUFFICES ASSUME NEW n, Books(s.q, s.done, n) PROVE Books(t.q, t.done, n)
    BY Zenon DEF KeepsBooks
  <2>1. "ECONNABORTED" \in Err
    BY Zenon DEF Err
  <2>2. Matches(back, s.q[e])
    BY <1>1, <1>2, <2>1, ReturnsMatch, Zenon
  <2>3. Emptied(s.q, t.q, e)
    BY <1>3, Zenon DEF Emptied
  <2>4. Books(t.q, s.done \cup back, n)
    BY <2>2, <2>3, BooksClear, Zenon
  <2> QED BY <1>1, <1>2, <2>4, Zenon
<1>5. \A o \in back : o.err = "ECONNABORTED"
  <2>1. m.q[e] \in Seq(Requests) /\ "ECONNABORTED" \in Err
    BY Fields, Zenon DEF Err
  <2>2. \A i \in DOMAIN m.q[e] : m.q[e][i] \in Requests
    BY <2>1
  <2> QED BY <1>2, <2>1, <2>2, OutcomeType DEF Returns
<1> QED BY <1>1, <1>2, <1>4, <1>5, Zenon DEF OnlyAborts

\* Steps that keep the books compose.
LEMMA BooksTrans ==
  ASSUME NEW s, NEW m, NEW t, KeepsBooks(s, m), KeepsBooks(m, t)
  PROVE  KeepsBooks(s, t)
  BY Zenon DEF KeepsBooks

\* Credit for a packet keeps the books: its request stays at the head of the
\* queue or goes back.
LEMMA DataBooks ==
  ASSUME NEW s \in Device, NEW t, NEW e \in Eps, EpSound(s, e), DataTransferred(s, t, e)
  PROVE  KeepsBooks(s, t)
<1> SUFFICES ASSUME NEW n, Books(s.q, s.done, n) PROVE Books(t.q, t.done, n)
  BY Zenon DEF KeepsBooks
<1>1. \A g \in Eps \ {e} : t.q[g] = s.q[g]
  BY Zenon DEF DataTransferred, OneEp, Local
<1>2. CASE ~s.ep[e].busy
  BY <1>2, Zenon DEF DataTransferred
<1>3. CASE s.ep[e].busy
  <2>1. s.q[e] \in Seq(Requests) /\ s.q[e] # <<>>
    BY <1>3, Fields, Zenon DEF EpSound
  <2>2. ASSUME NEW r \in Requests, r.id = Head(s.q[e]).id, t.done = s.done,
               t.q[e] = [s.q[e] EXCEPT ![1] = r]
        PROVE  Books(t.q, t.done, n)
    <3>1. /\ DOMAIN t.q[e] = DOMAIN s.q[e] /\ t.q[e][1] = r
          /\ \A i \in DOMAIN s.q[e] \ {1} : t.q[e][i] = s.q[e][i]
      BY <2>1, <2>2, FirstReplaced
    <3>2. s.q[e][1] = Head(s.q[e])
      BY <2>1
    <3>3. \A g \in Eps : /\ DOMAIN t.q[g] = DOMAIN s.q[g]
                         /\ \A i \in DOMAIN s.q[g] : t.q[g][i].id = s.q[g][i].id
      BY <1>1, <2>2, <3>1, <3>2, Zenon
    <3> QED BY <2>2, <3>3, BooksSame
  <2>3. ASSUME NEW r \in Requests, NEW err \in Err, r.id = Head(s.q[e]).id,
               t.done = s.done \cup {Outcome(s, e, r, err)}, t.q[e] = Tail(s.q[e])
        PROVE  Books(t.q, t.done, n)
    <3>1. PICK o : o = Outcome(s, e, r, err)
      BY Zenon
    <3>2. o.id = Head(s.q[e]).id
      BY ONLY s \in Device, e \in Eps, <2>3, <3>1, OutcomeType
    <3> QED BY ONLY Books(s.q, s.done, n), e \in Eps, <1>1, <2>1, <2>3, <3>1, <3>2, BooksPop
  <2>4. "OK" \in Err /\ "EMSGSIZE" \in Err
    BY Zenon DEF Err
  <2>5. \E r \in Requests :
          /\ r.id = Head(s.q[e]).id
          /\ \/ GoesOn(s, t, e, r)
             \/ GoesBack(s, t, e, r, "OK")
             \/ GoesBack(s, t, e, r, "EMSGSIZE")
    <3>1. CASE IsIn(e)
      BY <1>3, <3>1, Zenon DEF DataTransferred, SentPacket, SameRequest
    <3>2. CASE ~IsIn(e) /\ s.st.ok
      BY <1>3, <3>2, Zenon DEF DataTransferred, ReceivedPacket, SameRequest
    <3>3. CASE ~IsIn(e) /\ ~s.st.ok
      BY <1>3, <3>3, Zenon DEF DataTransferred, IgnoredPacket, Replaced, SameRequest, GoesOn
    <3> QED BY <3>1, <3>2, <3>3, Zenon
  <2> QED BY <2>2, <2>3, <2>4, <2>5, Zenon DEF GoesOn, GoesBack
<1> QED BY <1>2, <1>3, Zenon

\* A SETUP keeps the books: both control queues go back.
LEMMA SupersededBooks ==
  ASSUME NEW s \in Device, NEW t, Superseded(s, t)
  PROVE  KeepsBooks(s, t)
<1> SUFFICES ASSUME NEW n, Books(s.q, s.done, n) PROVE Books(t.q, t.done, n)
  BY Zenon DEF KeepsBooks
<1>1. PICK err \in Err :
        t.done = s.done \cup SetupReturns(s, "in0", err) \cup SetupReturns(s, "out0", err)
  BY Zenon DEF Superseded
<1>2. ASSUME NEW e \in Eps
      PROVE  Matches(SetupReturns(s, e, err), s.q[e])
  <2>1. s.q[e] \in Seq(Requests)
    BY Fields, Zenon
  <2>2. \A i \in DOMAIN s.q[e] : s.q[e][i] \in Requests
    BY ONLY <2>1, SMTT(30)
  <2>3. \A i \in DOMAIN s.q[e] :
          Outcome(s, e, s.q[e][i], IF s.q[e][i].setup THEN err ELSE "ECONNRESET").id = s.q[e][i].id
    <3> TAKE i \in DOMAIN s.q[e]
    <3>1. PICK r \in Requests : r = s.q[e][i]
      BY <2>2, Zenon
    <3>2. PICK x \in Err : x = IF r.setup THEN err ELSE "ECONNRESET"
      BY ONLY err \in Err, Zenon DEF Err
    <3> QED BY ONLY s \in Device, e \in Eps, r \in Requests, x \in Err, <3>1, <3>2, OutcomeType
  <2>4. \A i, j \in DOMAIN s.q[e] : s.q[e][i].id = s.q[e][j].id => i = j
    BY ONLY Books(s.q, s.done, n), e \in Eps DEF Books
  <2> QED BY ONLY <2>3, <2>4 DEF SetupReturns, Matches
<1>3. /\ "in0" \in Eps /\ "out0" \in Eps /\ "in0" # "out0" /\ Eps = Control \cup Bulk
      /\ Control = {"in0", "out0"}
  BY Zenon DEF Eps, Control, Bulk
<1>4. PICK m : m = [g \in Eps |-> IF g = "in0" THEN <<>> ELSE s.q[g]]
  BY Zenon
<1>5. Emptied(s.q, m, "in0")
  BY <1>3, <1>4, Zenon DEF Emptied
<1>6. PICK b1, b2 : b1 = SetupReturns(s, "in0", err) /\ b2 = SetupReturns(s, "out0", err)
  BY Zenon
<1>7. Matches(b1, s.q["in0"])
  BY <1>2, <1>3, <1>6, Zenon
<1>8. Books(m, s.done \cup b1, n)
  BY <1>3, <1>5, <1>7, BooksClear, Zenon
<1>9. Emptied(m, t.q, "out0")
  <2>1. /\ t.q["in0"] = <<>> /\ t.q["out0"] = <<>>
        /\ \A g \in Bulk : t.q[g] = s.q[g]
    BY ONLY Superseded(s, t), <1>3, Zenon DEF Superseded
  <2> QED BY ONLY <1>3, <1>5, <2>1, Zenon DEF Emptied
<1>10. Matches(b2, m["out0"])
  BY <1>2, <1>3, <1>5, <1>6, Zenon DEF Emptied
<1>11. Books(t.q, (s.done \cup b1) \cup b2, n)
  BY <1>3, <1>8, <1>9, <1>10, BooksClear, Zenon
<1> QED BY <1>1, <1>6, <1>11, Zenon

\* What disabling an endpoint does to the rest of the device.
LEMMA EpDisabledKeeps ==
  ASSUME NEW s \in Device, NEW t, NEW e \in Eps, EpDisabled(s, t, e)
  PROVE  /\ t \in Device /\ SameBusButMode(s, t) /\ t.mode = s.mode \ {e}
         /\ Local(s, t, e) /\ EpIdle(t, e) /\ ~t.ep[e].enabled
         /\ KeepsBooks(s, t) /\ OnlyAborts(s, t)
         /\ IF LatchedFor(s, e) THEN t.fg = s.fg \ {"TRANSFER"} /\ t.st = NoToken
                                ELSE SameLatch(s, t)
<1>1. PICK m : Dequeued(s, m, e) /\ SwitchedOff(m, t, e)
  BY Zenon DEF EpDisabled
<1>2. KeepsBooks(s, m) /\ OnlyAborts(s, m)
  BY <1>1, SentBackBooks, Zenon DEF Dequeued
<1>3. KeepsBooks(s, t) /\ OnlyAborts(s, t)
  BY <1>1, <1>2, Zenon DEF SwitchedOff, KeepsBooks, OnlyAborts
<1>4. Local(s, t, e)
  <2>1. Local(s, m, e) /\ Local(m, t, e)
    BY <1>1, Zenon DEF Dequeued, SwitchedOff
  <2> QED BY <2>1, LocalTrans, Zenon
<1>5. t.refused[e] = m.refused[e] /\ ~m.refused[e]
  BY <1>1, Zenon DEF Dequeued, SwitchedOff, SameMarks
<1>6. EpIdle(t, e)
  BY <1>1, <1>5, Zenon DEF Dequeued, SwitchedOff, EpIdle
<1>7. t \in Device /\ SameBusButMode(s, t) /\ t.mode = s.mode \ {e} /\ ~t.ep[e].enabled
  BY <1>1, Zenon DEF Dequeued, SwitchedOff, SameBus, SameBusButMode
<1>8. IF LatchedFor(s, e) THEN t.fg = s.fg \ {"TRANSFER"} /\ t.st = NoToken
                          ELSE SameLatch(s, t)
  BY <1>1, Zenon DEF Dequeued, SwitchedOff, SameLatch
<1> QED BY <1>3, <1>4, <1>6, <1>7, <1>8, Zenon

(***************************************************************************)
(* The core of the invariant and the mutex.                                *)
(***************************************************************************)

\* Every step keeps the type and the core of the device record.
LEMMA CoreNext ==
  ASSUME Base, StepEffect
  PROVE  Sound(dev')
\* A step on one endpoint leaves the others sound.
<1>SoundElsewhere.
      ASSUME NEW s, NEW t, NEW e \in Eps, Local(s, t, e), t.running = s.running,
             \A g \in Eps : EpSound(s, g), EpSound(t, e)
      PROVE  \A g \in Eps : EpSound(t, g)
  BY <1>SoundElsewhere DEF Local, EpSound
\* Steps that leave the endpoints alone.
<1>SoundSame.
      ASSUME NEW s, NEW t, t.ep = s.ep, t.q = s.q, t.in_length = s.in_length,
             t.running = s.running, \A g \in Eps : EpSound(s, g)
      PROVE  \A g \in Eps : EpSound(t, g)
  BY <1>SoundSame, Zenon DEF EpSound
\* Steps aside, on the wire and in the interrupt flags.
<1>CoreAside.
      ASSUME NEW s, NEW t, DevCore(s), Aside(s, t)
      PROVE  DevCore(t)
  <2> USE <1>CoreAside
  <2>1. \A g \in Eps : EpSound(t, g)
    BY <1>SoundSame, Zenon DEF DevCore, Aside, SameEps, SameBus
  <2> QED BY <2>1, Zenon DEF DevCore, Aside, SameEps, SameBus, SameLatch, WireCore, CopySound
\* A token is taken or given up, a flag other than TRANSFER is raised.
<1>CoreWire.
      ASSUME NEW s, NEW t, NEW sie, NEW flags, DevCore(s), OnWire(s, t, sie, flags),
             "TRANSFER" \notin flags, sie # "none" => s.on /\ "TRANSFER" \notin s.fg
      PROVE  DevCore(t)
  <2> USE <1>CoreWire
  <2>1. \A g \in Eps : EpSound(t, g)
    BY <1>SoundSame, Zenon DEF DevCore, OnWire, SameEps, SameBusButSie
  <2> QED BY <2>1, Zenon DEF DevCore, OnWire, SameEps, SameBusButSie, WireCore, CopySound
\* An outcome is latched.
<1>CoreLatch.
      ASSUME NEW s, NEW t, NEW flags, NEW token, DevCore(s), LatchedIs(s, t, flags, token),
             "TRANSFER" \in flags, token.ep # "none"
      PROVE  DevCore(t)
  <2> USE <1>CoreLatch
  <2>1. \A g \in Eps : EpSound(t, g)
    BY <1>SoundSame, Zenon DEF DevCore, LatchedIs, SameEpsButUnheard, SameBusButSie
  <2> QED BY <2>1, Zenon DEF DevCore, LatchedIs, SameEpsButUnheard, SameBusButSie, WireCore, CopySound
\* An acknowledgement is lost.
<1>CoreUnheard.
      ASSUME NEW s, NEW t, NEW e, DevCore(s), UnheardIs(s, t, e)
      PROVE  DevCore(t)
  <2> USE <1>CoreUnheard
  <2>1. \A g \in Eps : EpSound(t, g)
    BY <1>SoundSame, Zenon DEF DevCore, UnheardIs, SameEpsButUnheard, SameBusButSie
  <2> QED BY <2>1, Zenon DEF DevCore, UnheardIs, SameEpsButUnheard, SameBusButSie, SameLatch,
                      WireCore, CopySound
\* The host takes a packet.
<1>CoreTaken.
      ASSUME NEW s \in Device, NEW t, NEW e \in Eps, DevCore(s), TakenIs(s, t, e)
      PROVE  DevCore(t)
  <2> USE <1>CoreTaken
  <2>1. CASE t = s
    BY <2>1, Zenon
  <2>2. CASE s.q[e] # <<>> /\ \E r \in Requests : TakenBy(Head(s.q[e]), r) /\ Replaced(s, t, e, r)
    <3>1. PICK r \in Requests : TakenBy(Head(s.q[e]), r) /\ Replaced(s, t, e, r)
      BY <2>2, Zenon
    <3>2. OneEp(s, t, e) /\ Local(s, t, e) /\ SameBus(s, t) /\ SameLatch(s, t)
      BY <3>1, Zenon DEF Replaced, OneEp
    <3>3. /\ t.ep = s.ep /\ t.in_length = s.in_length /\ t.q[e] # <<>>
          /\ Head(t.q[e]).setup = Head(s.q[e]).setup /\ Head(t.q[e]).len = Head(s.q[e]).len
      BY <3>1, Zenon DEF Replaced, TakenBy
    <3>4. EpSound(t, e)
      BY <3>2, <3>3, Zenon DEF DevCore, EpSound, SameBus
    <3>5. \A g \in Eps : EpSound(t, g)
      BY <3>2, <3>4, <1>SoundElsewhere, Zenon DEF DevCore, SameBus
    <3>6. t.running = s.running /\ s.running
      BY <2>2, <3>2, Fields, Zenon DEF DevCore, SameBus
    <3>7. WireCore(t)
      BY <3>2, Zenon DEF DevCore, WireCore, SameBus, SameLatch
    <3>8. CopySound(t)
      <4>1. "in0" \in Eps
        BY Zenon DEF Eps, Control
      <4> QED BY <3>2, <3>3, <4>1, Zenon DEF DevCore, CopySound, SameBus, Local
    <3> QED BY <3>5, <3>6, <3>7, <3>8, Zenon DEF DevCore
  <2> QED BY <2>1, <2>2, Zenon DEF TakenIs
\* Flags are acknowledged.
<1>CoreAck.
      ASSUME NEW s, NEW t, NEW flags, DevCore(s), Acked(s, t, flags)
      PROVE  DevCore(t)
  <2> USE <1>CoreAck
  <2>1. \A g \in Eps : EpSound(t, g)
    BY <1>SoundSame, Zenon DEF DevCore, Acked, SameEps, SameBus
  <2>2. NoToken.ep = "none"
    BY NoTokenType, Zenon
  <2>3. WireCore(t)
    BY <2>2, Zenon DEF DevCore, Acked, SameBus, WireCore
  <2> QED BY <2>1, <2>3, Zenon DEF DevCore, Acked, SameEps, SameBus, CopySound
\* wch_kick, and its two halves for EP0 IN.
<1>CoreKick.
      ASSUME NEW s \in Device, NEW t, NEW e \in Eps, DevCore(s), Kicked(s, t, e), ~s.copying
      PROVE  DevCore(t)
  <2> USE <1>CoreKick
  <2>1. CASE ~Startable(s, e)
    BY <2>1, Zenon DEF Kicked
  <2>2. CASE Startable(s, e)
    <3>1. Staged(s, t, e)
      BY <2>2, Zenon DEF Kicked
    <3>2. EpSound(t, e)
      BY <2>2, <3>1, Zenon DEF Startable, Staged, EpSound, SameBus, SameSwitches
    <3>3. \A g \in Eps : EpSound(t, g)
      BY <3>1, <3>2, <1>SoundElsewhere, Zenon DEF DevCore, Staged, SameBus
    <3>4. WireCore(t) /\ ~t.copying /\ t.running
      BY <2>2, <3>1, Zenon DEF DevCore, WireCore, Staged, SameBus, SameLatch, Startable
    <3> QED BY <3>3, <3>4, Zenon DEF DevCore, CopySound
  <2> QED BY <2>1, <2>2, Zenon
\* The check.
<1>CoreCheck.
      ASSUME NEW s, NEW t, DevCore(s), CheckedIs(s, t)
      PROVE  DevCore(t)
  <2> USE <1>CoreCheck
  <2>1. \A g \in Eps : EpSound(t, g)
    BY <1>SoundSame, Zenon DEF DevCore, CheckedIs, SameEps, SameBusButCopying
  <2>2. WireCore(t)
    BY Zenon DEF DevCore, CheckedIs, SameBusButCopying, SameLatch, WireCore
  <2>3. CopySound(t)
    BY Zenon DEF CheckedIs, SameEps, SameBusButCopying, CopySound, Startable
  <2> QED BY <2>1, <2>2, <2>3, Zenon DEF DevCore, CheckedIs, SameEps, SameBusButCopying
\* The copy.
<1>CoreCopy.
      ASSUME NEW s \in Device, NEW t, DevCore(s), s.copying, CopiedIs(s, t)
      PROVE  DevCore(t)
  <2> USE <1>CoreCopy
  <2>1. "in0" \in Eps
    BY Zenon DEF Eps, Control
  <2>2. PICK m : /\ Staged(s, m, "in0") /\ t \in Device /\ SameEps(m, t) /\ SameLatch(m, t)
                 /\ SameBusButCopying(m, t) /\ ~t.copying
    BY Zenon DEF CopiedIs
  <2>3. EpSound(m, "in0")
    BY <2>2, Zenon DEF DevCore, CopySound, Staged, EpSound, SameBus, SameSwitches
  <2>4. \A g \in Eps : EpSound(m, g)
    BY <2>1, <2>2, <2>3, <1>SoundElsewhere, Zenon DEF DevCore, Staged, SameBus
  <2>5. \A g \in Eps : EpSound(t, g)
    BY <2>2, <2>4, <1>SoundSame, Zenon DEF SameEps, SameBusButCopying
  <2>6. WireCore(t)
    BY <2>2, Zenon DEF DevCore, WireCore, Staged, SameBus, SameLatch, SameBusButCopying
  <2>7. t.running
    BY <2>2, Zenon DEF DevCore, CopySound, Staged, SameBus, SameBusButCopying
  <2> QED BY <2>2, <2>5, <2>6, <2>7, Zenon DEF DevCore, CopySound
\* A call works on one endpoint.
<1>CoreOneEp.
      ASSUME NEW s, NEW t, NEW e \in Eps, DevCore(s), Local(s, t, e), t.running = s.running,
             ~t.copying, ~t.running => t.q[e] = <<>>, EpSound(t, e), WireCore(t)
      PROVE  DevCore(t)
  <2> USE <1>CoreOneEp
  <2>1. \A g \in Eps : EpSound(t, g)
    BY <1>SoundElsewhere, Zenon DEF DevCore
  <2> QED BY <2>1, Zenon DEF DevCore, CopySound, Local
\* A request is queued.
<1>CorePut.
      ASSUME NEW s \in Device, NEW t, NEW e \in Eps, NEW r \in Requests,
             DevCore(s), PutIs(s, t, e, r), ~s.copying, s.running
      PROVE  DevCore(t)
  <2> USE <1>CorePut
  <2>1. Local(s, t, e) /\ SameBus(s, t) /\ SameLatch(s, t)
    BY Zenon DEF PutIs, OneEp
  <2>2. EpSound(t, e)
    <3>1. CASE ~s.ep[e].busy
      BY <3>1, Zenon DEF PutIs, EpSound
    <3>2. CASE s.ep[e].busy
      <4>1. s.q[e] # <<>> /\ s.q[e] \in Seq(Requests)
        BY <3>2, Fields, ZenonT(60) DEF DevCore, EpSound
      <4>2. Append(s.q[e], r) # <<>> /\ Head(Append(s.q[e], r)) = Head(s.q[e])
        BY ONLY <4>1, r \in Requests
      <4>3. EpSound(s, e) /\ t.running = s.running
        BY ONLY <2>1, DevCore(s), e \in Eps, Zenon DEF DevCore, SameBus
      <4> QED BY ONLY <3>2, <4>2, <4>3, PutIs(s, t, e, r), Zenon DEF EpSound, PutIs
    <3> QED BY <3>1, <3>2, Zenon
  <2>3. WireCore(t)
    BY <2>1, Zenon DEF DevCore, WireCore, SameBus, SameLatch
  <2> QED BY <2>1, <2>2, <2>3, <1>CoreOneEp, Zenon DEF SameBus
\* The kept SETUP is handed over.
<1>CoreHandOver.
      ASSUME NEW s, NEW t, NEW o, DevCore(s), HandedOver(s, t, o)
      PROVE  DevCore(t)
  <2> USE <1>CoreHandOver
  <2>1. \A g \in Eps : EpSound(t, g)
    BY <1>SoundSame, Zenon DEF DevCore, HandedOver
  <2> QED BY <2>1, Zenon DEF DevCore, HandedOver, SameLatch, WireCore, CopySound
\* A call is refused.
<1>CoreRefused.
      ASSUME NEW s, NEW t, NEW e \in Eps, DevCore(s), RefusedIs(s, t, e)
      PROVE  DevCore(t)
  <2> USE <1>CoreRefused
  <2>1. \A g \in Eps : EpSound(t, g)
    BY <1>SoundSame, Zenon DEF DevCore, RefusedIs, SameBus
  <2> QED BY <2>1, ZenonT(60) DEF DevCore, RefusedIs, SameLatch, SameBus, WireCore, CopySound
\* The latch after a quiesced endpoint.
<1>CoreUnlatched.
      ASSUME NEW s, NEW t, NEW e, WireCore(s), SameBus(s, t),
             IF LatchedFor(s, e) THEN t.fg = s.fg \ {"TRANSFER"} /\ t.st = NoToken
                                 ELSE SameLatch(s, t)
      PROVE  WireCore(t)
  <2> USE <1>CoreUnlatched
  <2>1. NoToken.ep = "none"
    BY NoTokenType, Zenon
  <2> QED BY <2>1, Zenon DEF WireCore, SameBus, SameLatch, LatchedFor
\* wch_dequeue.
<1>CoreDequeued.
      ASSUME NEW s, NEW t, NEW e \in Eps, DevCore(s), Dequeued(s, t, e), ~s.copying
      PROVE  DevCore(t)
  <2> USE <1>CoreDequeued
  <2>1. Local(s, t, e) /\ SameBus(s, t) /\ ~t.ep[e].busy /\ t.q[e] = <<>>
    BY Zenon DEF Dequeued
  <2>2. WireCore(t)
    BY <1>CoreUnlatched, Zenon DEF DevCore, Dequeued
  <2>3. EpSound(t, e)
    BY <2>1, Zenon DEF EpSound
  <2> QED BY <2>1, <2>2, <2>3, <1>CoreOneEp, Zenon DEF SameBus
\* wch_halt, with its two parts.
<1>CoreHalted.
      ASSUME NEW s, NEW t, NEW e \in Eps, DevCore(s), Halted(s, t, e), ~s.copying
      PROVE  DevCore(t)
  <2> USE <1>CoreHalted
  <2>1. PICK m : /\ Quiesced(s, m, e, FALSE)
                 /\ IF e \in Control /\ (wch_setup_pending(m) \/ m.pending) THEN t = m
                                                                      ELSE Stalled(m, t, e)
    BY Zenon DEF Halted
  <2>2. Local(s, m, e) /\ SameBus(s, m) /\ ~m.ep[e].busy
    BY <2>1, Zenon DEF Quiesced
  <2>3. WireCore(m)
    BY <2>1, <1>CoreUnlatched, Zenon DEF DevCore, Quiesced, Credited
  <2>6. ~m.running => m.q[e] = <<>>
    <3> SUFFICES ASSUME ~m.running PROVE m.q[e] = <<>>
      BY Zenon
    <3>1. ~s.running /\ s.q[e] = <<>> /\ ~s.ep[e].busy
      BY <2>2, Zenon DEF DevCore, EpSound, SameBus
    <3>2. CASE LatchedFor(s, e)
      <4>1. PICK n, u : Responded(s, n, e, "NAK") /\ DataTransferred(n, u, e) /\ m.q = u.q
        BY <2>1, <3>2, Zenon DEF Quiesced, Credited
      <4> QED BY <3>1, <4>1, Zenon DEF Responded, DataTransferred
    <3>3. CASE ~LatchedFor(s, e)
      BY <2>1, <3>1, <3>3, Zenon DEF Quiesced, Credited
    <3> QED BY <3>2, <3>3, Zenon
  <2>4. CASE t = m
    <3>1. EpSound(t, e)
      BY <2>2, <2>4, Zenon DEF EpSound
    <3> QED BY <2>2, <2>3, <2>4, <2>6, <3>1, <1>CoreOneEp, Zenon DEF SameBus
  <2>5. CASE Stalled(m, t, e)
    <3>1. Local(m, t, e) /\ SameBus(m, t) /\ SameLatch(m, t) /\ ~t.ep[e].busy /\ t.q = m.q
      BY <2>2, <2>5, Zenon DEF Stalled
    <3>2. Local(s, t, e) /\ SameBus(s, t)
      BY <2>2, <3>1, LocalTrans, Zenon DEF SameBus
    <3>3. EpSound(t, e)
      BY <3>1, Zenon DEF EpSound
    <3>4. WireCore(t)
      BY <2>3, <3>1, Zenon DEF WireCore, SameBus, SameLatch
    <3> QED BY <2>6, <3>1, <3>2, <3>3, <3>4, <1>CoreOneEp, Zenon DEF SameBus
  <2> QED BY <2>1, <2>4, <2>5, Zenon
\* udc_wch_ep_clear_halt.
<1>CoreToggle.
      ASSUME NEW s, NEW t, NEW e \in Eps, DevCore(s), ToggleReset(s, t, e), ~s.copying
      PROVE  DevCore(t)
  <2> USE <1>CoreToggle
  <2>1. Local(s, t, e) /\ SameBus(s, t) /\ SameLatch(s, t)
    BY Zenon DEF ToggleReset
  <2>2. EpSound(t, e)
    BY <2>1, Zenon DEF DevCore, EpSound, SameBus, ToggleReset
  <2>3. WireCore(t)
    BY <2>1, Zenon DEF DevCore, WireCore, SameBus, SameLatch
  <2> QED BY <2>1, <2>2, <2>3, <1>CoreOneEp, Zenon DEF SameBus, DevCore, ToggleReset
\* wch_ep_enable and wch_ep_disable.
<1>CoreEpEnabled.
      ASSUME NEW s, NEW t, NEW e \in Eps, DevCore(s), EpEnabled(s, t, e), ~s.copying
      PROVE  DevCore(t)
  <2> USE <1>CoreEpEnabled
  <2>1. Local(s, t, e) /\ SameBusButMode(s, t) /\ SameLatch(s, t) /\ ~t.ep[e].busy /\ t.q = s.q
    BY Zenon DEF EpEnabled
  <2>2. EpSound(t, e)
    BY <2>1, Zenon DEF EpSound
  <2>3. WireCore(t)
    BY <2>1, Zenon DEF DevCore, WireCore, SameBusButMode, SameLatch
  <2> QED BY <2>1, <2>2, <2>3, <1>CoreOneEp, Zenon DEF SameBusButMode, DevCore
\* The same, for the endpoint turned off.
<1>CoreEpDisabled.
      ASSUME NEW s, NEW t, NEW e \in Eps, DevCore(s), EpDisabled(s, t, e), ~s.copying
      PROVE  DevCore(t)
  <2> USE <1>CoreEpDisabled
  <2>1. PICK m : Dequeued(s, m, e) /\ SwitchedOff(m, t, e)
    BY Zenon DEF EpDisabled
  <2>2. DevCore(m)
    BY <2>1, <1>CoreDequeued, Zenon
  <2>3. ~m.copying /\ ~m.ep[e].busy
    BY <2>1, Zenon DEF Dequeued, SameBus
  <2>4. Local(m, t, e) /\ SameBusButMode(m, t) /\ SameLatch(m, t) /\ ~t.ep[e].busy /\ t.q = m.q
    BY <2>1, <2>3, Zenon DEF SwitchedOff
  <2>5. EpSound(t, e)
    BY <2>4, Zenon DEF EpSound
  <2>6. WireCore(t)
    BY <2>2, <2>4, Zenon DEF DevCore, WireCore, SameBusButMode, SameLatch
  <2> QED BY <2>2, <2>3, <2>4, <2>5, <2>6, <1>CoreOneEp, Zenon DEF SameBusButMode, DevCore
\* wch_reset: every endpoint is clear.
<1>CoreReset.
      ASSUME NEW s, NEW t, DevCore(s), AllReset(s, t), ~s.copying
      PROVE  DevCore(t)
  <2> USE <1>CoreReset
  <2>1. \A g \in Eps : EpSound(t, g)
    BY Zenon DEF AllReset, EpSound
  <2> QED BY <2>1, Zenon DEF DevCore, AllReset, SameLatch, WireCore, CopySound
\* wch_disable and udc_wch_shutdown.
<1>CoreDown.
      ASSUME NEW s, NEW t, Down(s, t), ~s.copying
      PROVE  DevCore(t)
  <2> USE <1>CoreDown
  <2>1. NoToken.ep = "none"
    BY NoTokenType, Zenon
  <2>2. \A g \in Eps : EpSound(t, g)
    BY Zenon DEF Down, EpIdle, EpSound
  <2> QED BY <2>1, <2>2, Zenon DEF DevCore, Down, NothingLatched, EpIdle, WireCore, CopySound
\* udc_wch_enable.
<1>CoreAttached.
      ASSUME NEW s, NEW t, DevCore(s), Attached(s, t), ~s.copying, ~s.running
      PROVE  DevCore(t)
  <2> USE <1>CoreAttached
  <2>1. NoToken.ep = "none"
    BY NoTokenType, Zenon
  <2>2. \A g \in Eps : EpSound(t, g)
    BY Zenon DEF DevCore, Attached, EpSound
  <2> QED BY <2>1, <2>2, Zenon DEF DevCore, Attached, NothingLatched, WireCore, CopySound
\* udc_wch_init.
<1>CoreInitialised.
      ASSUME NEW s, NEW t, DevCore(s), Prepared0(s, t), ~s.copying, ~s.running
      PROVE  DevCore(t)
  <2> USE <1>CoreInitialised
  <2>1. NoToken.ep = "none"
    BY NoTokenType, Zenon
  <2>2. \A g \in Eps : EpSound(t, g)
    BY Zenon DEF DevCore, Prepared0, EpSound
  <2> QED BY <2>1, <2>2, Zenon DEF DevCore, Prepared0, NothingLatched, WireCore, CopySound
\* wch_transfer: a packet is credited.
<1>CoreData.
      ASSUME NEW s \in Device, NEW t, NEW e \in Eps, DevCore(s), DataTransferred(s, t, e), ~s.copying
      PROVE  DevCore(t)
  <2> USE <1>CoreData
  <2>1. Local(s, t, e) /\ SameBus(s, t) /\ SameLatch(s, t) /\ SameSwitches(s, t, e)
    BY Zenon DEF DataTransferred, OneEp
  <2>2. WireCore(t)
    BY <2>1, Zenon DEF DevCore, WireCore, SameBus, SameLatch
  <2>3. CASE ~s.ep[e].busy
    BY <2>3, Zenon DEF DataTransferred
  <2>4. CASE s.ep[e].busy
    <3>0. s.running /\ s.q[e] # <<>> /\ s.q[e] \in Seq(Requests)
      BY <2>4, Fields, Zenon DEF DevCore, EpSound
    <3>1. EpSound(t, e)
      <4>1. CASE ~t.ep[e].busy
        BY <4>1, Zenon DEF EpSound
      <4>2. CASE IsIn(e) /\ t.ep[e].busy
        <5>1. PICK r \in Requests : /\ SameRequest(Head(s.q[e]), r) /\ r.len = 0
                                    /\ GoesOn(s, t, e, r) /\ t.in_length[e] = 0
          BY <2>4, <4>2, Zenon DEF DataTransferred, SentPacket, GoesBack
        <5>2. t.q[e] # <<>> /\ Head(t.q[e]) = r
          BY ONLY <3>0, <5>1, r \in Requests, FirstReplaced DEF GoesOn
        <5>3. Least(0, MPS) = 0
          BY DEF Least, MPS
        <5> QED BY <2>1, <2>4, <5>1, <5>2, <5>3, Zenon
                DEF DevCore, EpSound, SameBus, SameSwitches, SameRequest
      <4>3. CASE ~IsIn(e) /\ s.st.ok /\ t.ep[e].busy
        BY <2>4, <4>3, Zenon DEF DataTransferred, ReceivedPacket, GoesBack
      <4>4. CASE ~IsIn(e) /\ ~s.st.ok
        <5>1. PICK r \in Requests : SameRequest(Head(s.q[e]), r) /\ Replaced(s, t, e, r)
          BY <2>4, <4>4, Zenon DEF DataTransferred, IgnoredPacket
        <5> QED BY <2>1, <2>4, <4>4, <5>1, Zenon
                DEF DevCore, EpSound, SameBus, SameSwitches, SameRequest, Replaced
      <4> QED BY <4>1, <4>2, <4>3, <4>4, Zenon
    <3> QED BY <2>1, <2>2, <3>0, <3>1, <1>CoreOneEp, Zenon DEF SameBus
  <2> QED BY <2>3, <2>4, Zenon
\* wch_transfer: a SETUP supersedes the control transfer.
<1>CoreSuperseded.
      ASSUME NEW s, NEW t, DevCore(s), Superseded(s, t), ~s.copying
      PROVE  DevCore(t)
  <2> USE <1>CoreSuperseded
  <2>0. /\ \A g \in Bulk : /\ t.ep[g] = s.ep[g] /\ t.q[g] = s.q[g]
                           /\ t.in_length[g] = s.in_length[g]
        /\ \A g \in Control : t.q[g] = <<>> /\ ~t.ep[g].busy
        /\ t.running = s.running
    BY ONLY Superseded(s, t), Zenon DEF Superseded
  <2>1. \A g \in Eps : EpSound(t, g)
    <3>1. \A g \in Control : EpSound(t, g)
      BY ONLY <2>0, Zenon DEF EpSound
    <3>2. \A g \in Bulk : EpSound(s, g)
      BY ONLY DevCore(s), Zenon DEF DevCore, Eps
    <3>3. \A g \in Bulk : EpSound(t, g)
      BY ONLY <2>0, <3>2, Zenon DEF EpSound
    <3> QED BY ONLY <3>1, <3>3, Zenon DEF Eps
  <2>2. ~t.running => \A g \in Eps : t.q[g] = <<>>
    BY ONLY DevCore(s), <2>0, Zenon DEF DevCore, Eps
  <2> QED BY <2>1, <2>2, Zenon DEF DevCore, Superseded, SameLatch, WireCore, CopySound
\* The effects of the composed steps, on the core.
<1>CoreComposed.
      ASSUME NEW s \in Device, NEW t, DevCore(s)
      PROVE  /\ \A e \in Eps, r \in Requests : ~s.copying /\ s.running /\ Enqueued(s, t, e, r) => Sound(t)
             /\ \A flags : ~s.copying /\ ResetDone(s, t, flags) => Sound(t)
             /\ ~s.copying /\ s.st.ep \in Eps \cup {"setup"} /\ Serviced(s, t) => Sound(t)
             /\ ~s.copying /\ AllKicked(s, t) => Sound(t)
             /\ \A e \in Eps : InDone(s, t, e) => Sound(t)
             /\ \A e \in Eps : \A flags : "TRANSFER" \in flags /\ OutDone(s, t, e, flags) => Sound(t)
             /\ SetupDone(s, t) => Sound(t)
             /\ \A e \in Eps : ~s.copying /\ HaltCleared(s, t, e) => Sound(t)
  <2> USE <1>CoreComposed
  <2>0. "in0" \in Eps /\ "out0" \in Eps /\ "in1" \in Eps /\ "out2" \in Eps /\ "none" \notin Eps
    BY Zenon DEF Eps, Control, Bulk
  <2>00. ASSUME NEW m \in Device, NEW u, NEW e \in Eps, DevCore(m), ~m.copying, Kicked(m, u, e)
         PROVE  Sound(u) /\ ~u.copying
    BY <2>00, <1>CoreKick, Zenon DEF Kicked, Staged, SameBus, Sound
  <2>1. ASSUME NEW e \in Eps, NEW r \in Requests, ~s.copying, s.running, Enqueued(s, t, e, r) PROVE Sound(t)
    <3>1. PICK m : PutIs(s, m, e, r) /\ IF e = "in0" THEN CheckedIs(m, t) ELSE Kicked(m, t, e)
      BY <2>1, Zenon DEF Enqueued
    <3>2. m \in Device /\ DevCore(m) /\ ~m.copying
      BY <2>1, <3>1, <1>CorePut, Zenon DEF PutIs, OneEp, SameBus
    <3>3. CASE CheckedIs(m, t)
      BY <3>2, <3>3, <1>CoreCheck, Zenon DEF CheckedIs, Sound
    <3> QED BY <2>00, <3>1, <3>2, <3>3, Zenon
  <2>2. ASSUME NEW flags, ~s.copying, ResetDone(s, t, flags) PROVE Sound(t)
    <3>1. PICK m : AllReset(s, m) /\ Acked(m, t, flags)
      BY <2>2, Zenon DEF ResetDone
    <3> QED BY <2>2, <3>1, <1>CoreReset, <1>CoreAck, Zenon DEF Sound, Acked
  <2>3. ASSUME ~s.copying, s.st.ep \in Eps \cup {"setup"}, Serviced(s, t) PROVE Sound(t)
    <3>1. PICK m : /\ IF s.st.ep = "setup" THEN Superseded(s, m) ELSE DataTransferred(s, m, s.st.ep)
                   /\ Acked(m, t, {"TRANSFER"})
      BY <2>3, Zenon DEF Serviced
    <3>2. DevCore(m)
      BY <2>3, <3>1, <1>CoreSuperseded, <1>CoreData, Zenon
    <3> QED BY <3>1, <3>2, <1>CoreAck, Zenon DEF Sound, Acked
  <2>4. ASSUME ~s.copying, AllKicked(s, t) PROVE Sound(t)
    <3>1. PICK a, b, c : Kicked(s, a, "out0") /\ Kicked(a, b, "in1") /\ Kicked(b, c, "out2") /\ CheckedIs(c, t)
      BY <2>4, Zenon DEF AllKicked
    <3>2. Sound(a) /\ ~a.copying
      BY <2>0, <2>00, <2>4, <3>1, Zenon
    <3>3. Sound(b) /\ ~b.copying
      BY <2>0, <2>00, <3>1, <3>2, Zenon DEF Sound
    <3>4. Sound(c) /\ ~c.copying
      BY <2>0, <2>00, <3>1, <3>3, Zenon DEF Sound
    <3> QED BY <3>1, <3>4, <1>CoreCheck, Zenon DEF CheckedIs, Sound
  <2>5. ASSUME NEW e \in Eps, InDone(s, t, e) PROVE Sound(t)
    <3>1. PICK m : /\ TakenIs(s, m, e)
                   /\ \/ \E k : AboutHead(s, k, e) /\ ~k.bad /\ LatchedIs(m, t, {"TRANSFER"}, k)
                      \/ UnheardIs(m, t, e)
      BY <2>5, Zenon DEF InDone
    <3>2. DevCore(m)
      BY <3>1, <1>CoreTaken, Zenon
    <3>3. CASE UnheardIs(m, t, e)
      BY <3>2, <3>3, <1>CoreUnheard, Zenon DEF UnheardIs, Sound
    <3>4. ASSUME NEW k, AboutHead(s, k, e), LatchedIs(m, t, {"TRANSFER"}, k) PROVE Sound(t)
      BY <2>0, <3>2, <3>4, <1>CoreLatch, SMTT(30) DEF AboutHead, LatchedIs, Sound
    <3> QED BY <3>1, <3>3, <3>4, Zenon
  <2>6. ASSUME NEW e \in Eps, NEW flags, "TRANSFER" \in flags, OutDone(s, t, e, flags) PROVE Sound(t)
    <3>1. PICK k : AboutHead(s, k, e) /\ LatchedIs(s, t, flags, k)
      BY <2>6, Zenon DEF OutDone
    <3> QED BY <2>0, <2>6, <3>1, <1>CoreLatch DEF AboutHead, LatchedIs, Sound
  <2>7. ASSUME SetupDone(s, t) PROVE Sound(t)
    <3>1. PICK k : k.ep = "setup" /\ LatchedIs(s, t, {"TRANSFER"}, k)
      BY <2>7, Zenon DEF SetupDone
    <3> QED BY <3>1, <1>CoreLatch DEF LatchedIs, Sound
  <2>8. ASSUME NEW e \in Eps, ~s.copying, HaltCleared(s, t, e) PROVE Sound(t)
    <3>1. PICK m : ToggleReset(s, m, e) /\ Kicked(m, t, e)
      BY <2>8, Zenon DEF HaltCleared
    <3>2. m \in Device /\ DevCore(m) /\ ~m.copying
      BY <2>8, <3>1, <1>CoreToggle, Zenon DEF ToggleReset, SameBus
    <3> QED BY <2>00, <3>1, <3>2, Zenon
  <2> QED BY <2>1, <2>2, <2>3, <2>4, <2>5, <2>6, <2>7, <2>8, ZenonT(60)
<1>0. dev \in Device /\ DevCore(dev)
  BY Zenon DEF Base
<1>1. ASSUME NEW fault, ApiInit(fault), DidInit PROVE Sound(dev')
  BY <1>0, <1>1, <1>CoreInitialised, Zenon DEF DidInit, Prepared0, Sound
<1>2. CASE ApiEnable /\ DidEnable
  BY <1>0, <1>2, <1>CoreAttached, Zenon DEF DidEnable, Attached, Sound
<1>3. CASE (ApiDisable \/ ApiShutdown \/ WorkOverflow) /\ DidDown
  BY <1>0, <1>3, <1>CoreDown, Zenon DEF DidDown, Down, Sound
<1>4. ASSUME NEW e \in Eps, ApiEpEnable(e), DidEpEnable(e) PROVE Sound(dev')
  BY <1>0, <1>4, <1>CoreEpEnabled, Zenon DEF DidEpEnable, EpEnabled, Sound
<1>5. ASSUME NEW e \in Eps, RefusedIs(dev, dev', e) PROVE Sound(dev')
  BY <1>0, <1>5, <1>CoreRefused, Zenon DEF RefusedIs, Sound
<1>6. ASSUME NEW e \in Eps, ApiEpDisable(e), DidEpDisable(e) PROVE Sound(dev')
  <2>1. CASE EpDisabled(dev, dev', e)
    BY <1>0, <1>6, <2>1, <1>CoreEpDisabled, EpDisabledKeeps, Zenon DEF DidEpDisable, Sound
  <2> QED BY <1>5, <1>6, <2>1, Zenon DEF DidEpDisable
<1>7. ASSUME NEW e \in Eps, ApiDequeue(e), DidDequeue(e) PROVE Sound(dev')
  <2>1. CASE Dequeued(dev, dev', e)
    BY <1>0, <1>7, <2>1, <1>CoreDequeued, Zenon DEF DidDequeue, Dequeued, Sound
  <2> QED BY <1>5, <1>7, <2>1, Zenon DEF DidDequeue
<1>8. ASSUME NEW e \in Eps, ApiHalt(e), DidHalt(e) PROVE Sound(dev')
  <2>1. CASE Halted(dev, dev', e)
    <3>1. dev' \in Device
      BY <2>1, Zenon DEF Halted, Quiesced, Stalled
    <3> QED BY <1>0, <1>8, <2>1, <3>1, <1>CoreHalted, Zenon DEF DidHalt, Sound
  <2> QED BY <1>5, <1>8, <2>1, Zenon DEF DidHalt
<1>9. ASSUME NEW e \in Eps, ApiClearHalt(e), DidClearHalt(e) PROVE Sound(dev')
  BY <1>0, <1>9, <1>CoreComposed, Zenon DEF DidClearHalt
<1>10. ASSUME NEW e \in Eps, InAcked(e), DidIn(e) PROVE Sound(dev')
  BY <1>0, <1>10, <1>CoreComposed, Zenon DEF DidIn
<1>11. ASSUME NEW e \in Eps, Out(e), DidOut(e) PROVE Sound(dev')
  <2>1. PICK flags \in {{"TRANSFER"}, {"TRANSFER", "FIFO_OV"}} : OutDone(dev, dev', e, flags)
    BY <1>11, Zenon DEF DidOut
  <2> QED BY <1>0, <2>1, <1>CoreComposed, Zenon
<1>12. ASSUME NEW e \in Eps, NEW size \in Sizes, NEW zlp \in BOOLEAN, ApiEnqueue(e, size, zlp), DidEnqueue(e)
       PROVE  Sound(dev')
  BY <1>0, <1>12, <1>CoreComposed, Zenon DEF DidEnqueue
<1>13. CASE ApiEnqueueSetup /\ DidEnqueueSetup
  <2>1. CASE dev.pending
    BY <1>0, <1>13, <2>1, <1>CoreHandOver, Zenon DEF DidEnqueueSetup, HandedOver, Sound
  <2>2. CASE ~dev.pending
    <3>1. "out0" \in Eps
      BY Zenon DEF Eps, Control
    <3> QED BY <1>0, <1>13, <2>2, <3>1, <1>CoreComposed, Zenon DEF DidEnqueueSetup
  <2> QED BY <2>1, <2>2, Zenon
<1>14. CASE ((\E a \in 0..1 : wch_address(a)) \/ wch_isr \/ WorkSuspend \/ WorkUnmask) /\ DidAside
  BY <1>0, <1>14, <1>CoreAside, Zenon DEF DidAside, Aside, Sound
<1>15. CASE KickCopy /\ DidCopy
  BY <1>0, <1>15, <1>CoreCopy, Zenon DEF DidCopy, CopiedIs, Sound
<1>16. CASE WorkRead \/ UNCHANGED vars
  BY <1>0, <1>16, Zenon DEF WorkRead, vars, Sound
<1>17. CASE WorkReset /\ DidReset
  BY <1>0, <1>17, <1>CoreComposed, Zenon DEF DidReset
<1>18. CASE WorkTransfer /\ DidTransfer
  BY <1>0, <1>18, <1>CoreComposed, Zenon DEF DidTransfer, Sound
<1>19. CASE WorkSuspendAck /\ DidSuspendAck
  BY <1>0, <1>19, <1>CoreAck, Zenon DEF DidSuspendAck, Acked, Sound
<1>20. CASE WorkKick /\ DidKick
  BY <1>0, <1>20, <1>CoreComposed, Zenon DEF DidKick
<1>21. ASSUME NEW tk \in Eps \cup {"setup"}, Token(tk), DidToken(tk) PROVE Sound(dev')
  BY <1>0, <1>21, <1>CoreWire, Zenon DEF DidToken, OnWire, Sound
<1>22. CASE (Lost \/ BusReset \/ BusSuspend) /\ DidBus
  <2>1. \E flags \in {{}, {"RESET"}, {"SUSPEND"}} : OnWire(dev, dev', "none", flags)
    BY <1>22, Zenon DEF DidBus
  <2> QED BY <1>0, <2>1, <1>CoreWire, Zenon DEF OnWire, Sound
<1>23. ASSUME NEW valid \in BOOLEAN, SetupArrives(valid), DidSetup PROVE Sound(dev')
  BY <1>0, <1>23, <1>CoreComposed, Zenon DEF DidSetup
<1> QED BY <1>1, <1>2, <1>3, <1>4, <1>6, <1>7, <1>8, <1>9, <1>10, <1>11, <1>12, <1>13, <1>14,
           <1>15, <1>16, <1>17, <1>18, <1>19, <1>20, <1>21, <1>22, <1>23, ZenonT(60) DEF StepEffect

\* Mutex and worker.
LEMMA MutexNext ==
  ASSUME Base, StepEffect
  PROVE  Mutex' /\ stack' \in {"off", "init", "on"}
\* They are.
<1>DoWire.
      ASSUME Base, OnTheWire
      PROVE  UNCHANGED <<work, stack>> /\ Wired(dev, dev')
  <2> USE <1>DoWire
  <2>1. UNCHANGED <<work, stack>>
    BY Zenon DEF OnTheWire, Token, Lost, BusReset, BusSuspend, InAcked, Out, OutArrives, SetupArrives
  <2>2. ASSUME NEW sie, NEW flags, OnWire(dev, dev', sie, flags) PROVE Wired(dev, dev')
    BY <2>2, Zenon DEF OnWire, SameBusButSie, Wired
  <2>3. ASSUME NEW m, NEW flags, NEW k, LatchedIs(m, dev', flags, k), Wired(dev, m) PROVE Wired(dev, dev')
    BY <2>3, Zenon DEF LatchedIs, SameBusButSie, Wired
  <2>4. Wired(dev, dev)
    BY Zenon DEF Wired
  <2>5. ASSUME NEW tk \in Eps \cup {"setup"}, Token(tk), DidToken(tk) PROVE Wired(dev, dev')
    BY <2>2, <2>5, Zenon DEF DidToken
  <2>6. CASE (Lost \/ BusReset \/ BusSuspend) /\ DidBus
    <3>1. \E flags \in {{}, {"RESET"}, {"SUSPEND"}} : OnWire(dev, dev', "none", flags)
      BY <2>6, Zenon DEF DidBus
    <3> QED BY <2>1, <2>2, <3>1, Zenon
  <2>7. ASSUME NEW e \in Eps, InAcked(e), DidIn(e) PROVE Wired(dev, dev')
    <3>1. PICK m : /\ TakenIs(dev, m, e)
                   /\ \/ \E k : AboutHead(dev, k, e) /\ ~k.bad /\ LatchedIs(m, dev', {"TRANSFER"}, k)
                      \/ UnheardIs(m, dev', e)
      BY <2>7, Zenon DEF DidIn, InDone
    <3>2. Wired(dev, m)
      BY <2>4, <3>1, Zenon DEF TakenIs, Replaced, OneEp, SameBus, SameLatch, Wired
    <3>3. CASE UnheardIs(m, dev', e)
      BY <3>2, <3>3, Zenon DEF UnheardIs, SameBusButSie, SameLatch, Wired
    <3> QED BY <2>3, <3>1, <3>2, <3>3, Zenon
  <2>8. ASSUME NEW e \in Eps, Out(e), DidOut(e) PROVE Wired(dev, dev')
    BY <2>3, <2>4, <2>8, Zenon DEF DidOut, OutDone
  <2>9. ASSUME NEW valid \in BOOLEAN, SetupArrives(valid), DidSetup PROVE Wired(dev, dev')
    BY <2>3, <2>4, <2>9, Zenon DEF DidSetup, SetupDone
  <2> QED BY <2>1, <2>5, <2>6, <2>7, <2>8, <2>9, Zenon DEF OnTheWire
<1>0. stack \in {"off", "init", "on"} /\ Mutex /\ work \in Work
  BY Zenon DEF Base
<1> DEFINE Goal == Mutex' /\ stack' \in {"off", "init", "on"}
<1>1. ASSUME NEW fault, ApiInit(fault), DidInit PROVE Goal
  <2>1. /\ ~dev'.running /\ dev'.pending = dev.pending /\ dev'.taken = dev.taken
        /\ dev'.copying = dev.copying
    BY <1>1, Zenon DEF DidInit, Prepared0
  <2>2. work.pc = "idle" /\ work' = work /\ stack = "off" /\ stack' \in {"off", "init"}
    BY <1>1, Zenon DEF ApiInit, MutexFree
  <2> QED BY <1>0, <2>1, <2>2, Zenon DEF Mutex
<1>2. CASE ApiEnable /\ DidEnable
  <2>1. work.pc = "idle" /\ work' = work /\ stack' = "on"
    BY <1>2, Zenon DEF ApiEnable, MutexFree
  <2> QED BY <2>1, Zenon DEF Mutex
<1>3. CASE (ApiDisable \/ ApiShutdown \/ WorkOverflow) /\ DidDown
  <2>1. ~dev'.running /\ ~dev'.pending /\ ~dev'.taken /\ ~dev'.copying
    BY <1>3, Zenon DEF DidDown, Down
  <2>2. work'.pc = "idle" /\ stack' \in {"off", "init", "on"}
    BY <1>0, <1>3, Zenon DEF ApiDisable, ApiShutdown, WorkOverflow, Call, MutexFree, Work
  <2> QED BY <2>1, <2>2, Zenon DEF Mutex
<1>4. CASE OnStack
  <2>1. work.pc = "idle" /\ work' = work /\ stack = "on" /\ stack' = stack
    BY <1>4, Zenon
    DEF OnStack, ApiEpEnable, ApiEpDisable, ApiDequeue, ApiHalt, ApiClearHalt, ApiEnqueue,
                ApiEnqueueSetup, wch_address, Call, MutexFree
  <2> QED BY <2>1, Zenon DEF Mutex
<1>5. CASE KickCopy /\ DidCopy
  <2>1. /\ dev.copying /\ dev'.running = dev.running /\ dev'.taken = dev.taken
        /\ dev'.pending = dev.pending
    BY <1>5, Zenon DEF DidCopy, CopiedIs, Staged, SameBus, SameBusButCopying
  <2>2. work' = work /\ stack' = stack
    BY <1>5, Zenon DEF KickCopy
  <2> QED BY <1>0, <2>1, <2>2, Zenon DEF Mutex
<1>6. CASE wch_isr /\ DidAside
  <2>1. SameBus(dev, dev') /\ SameLatch(dev, dev')
    BY <1>6, Zenon DEF DidAside, Aside
  <2>2. work'.pc = work.pc /\ work'.flags = work.flags /\ stack' = stack
    BY <1>0, <1>6, Zenon DEF wch_isr, Work
  <2> QED BY <1>0, <2>1, <2>2, Zenon DEF Mutex, SameBus, SameLatch
<1>7. CASE WorkRead
  <2>1. /\ dev' = dev /\ stack' = stack /\ ~dev.copying
        /\ work'.pc = IF dev.running THEN "handle" ELSE "idle"
        /\ work'.flags = IF dev.running THEN dev.fg ELSE {}
    BY <1>7, Zenon DEF WorkRead, MutexFree
  <2> QED BY <1>0, <2>1, Zenon DEF Mutex
<1>8. ASSUME work.pc # "idle", work'.pc \in {"suspend", "ack", "kick"}, stack' = stack,
             dev'.running = dev.running, dev'.copying = dev.copying, ~dev.copying
      PROVE  Goal
  BY <1>0, <1>8, Zenon DEF Mutex
<1>9. CASE WorkReset /\ DidReset
  <2>1. dev'.running = dev.running /\ dev'.copying = dev.copying /\ ~dev.copying
    BY <1>9, Zenon DEF DidReset, ResetDone, AllReset, Acked, SameBus
  <2>2. work.pc # "idle" /\ work'.pc = "kick" /\ stack' = stack
    BY <1>0, <1>9, Zenon DEF WorkReset, Work
  <2> QED BY <1>8, <2>1, <2>2, Zenon
<1>10. CASE WorkTransfer /\ DidTransfer
  <2>1. ~dev.copying
    BY <1>10, Zenon DEF DidTransfer
  <2>2. dev'.running = dev.running /\ dev'.copying = dev.copying
    <3>1. CASE "TRANSFER" \notin work.flags
      BY <1>10, <3>1, Zenon DEF DidTransfer
    <3>2. CASE "TRANSFER" \in work.flags
      <4>1. PICK m : /\ IF dev.st.ep = "setup" THEN Superseded(dev, m) ELSE DataTransferred(dev, m, dev.st.ep)
                     /\ Acked(m, dev', {"TRANSFER"})
        BY <1>10, <3>2, Zenon DEF DidTransfer, Serviced
      <4>2. m.running = dev.running /\ m.copying = dev.copying
        BY <4>1, Zenon DEF Superseded, DataTransferred, OneEp, SameBus
      <4> QED BY <4>1, <4>2, Zenon DEF Acked, SameBus
    <3> QED BY <3>1, <3>2, Zenon
  <2>3. work.pc # "idle" /\ work'.pc \in {"suspend", "kick"} /\ stack' = stack
    BY <1>0, <1>10, Zenon DEF WorkTransfer, Work
  <2> QED BY <1>8, <2>1, <2>2, <2>3, Zenon
<1>11. CASE WorkSuspend /\ DidAside
  <2>1. SameBus(dev, dev')
    BY <1>11, Zenon DEF DidAside, Aside
  <2>2. work.pc = "suspend" /\ work'.pc = "ack" /\ stack' = stack /\ ~dev.copying
    BY <1>0, <1>11, Zenon DEF WorkSuspend, Work, Mutex
  <2> QED BY <1>8, <2>1, <2>2, Zenon DEF SameBus
<1>12. CASE WorkSuspendAck /\ DidSuspendAck
  <2>1. SameBus(dev, dev')
    BY <1>12, Zenon DEF DidSuspendAck, Acked
  <2>2. work.pc = "ack" /\ work'.pc = "kick" /\ stack' = stack /\ ~dev.copying
    BY <1>0, <1>12, Zenon DEF WorkSuspendAck, Work, Mutex
  <2> QED BY <1>8, <2>1, <2>2, Zenon DEF SameBus
<1>13. CASE WorkKick /\ DidKick
  <2>1. PICK a, b, c : Kicked(dev, a, "out0") /\ Kicked(a, b, "in1") /\ Kicked(b, c, "out2") /\ CheckedIs(c, dev')
    BY <1>13, Zenon DEF DidKick, AllKicked
  <2>2. dev'.running = dev.running
    BY <2>1, ZenonT(60) DEF Kicked, Staged, SameBus, CheckedIs, SameBusButCopying
  <2>3. work.pc = "kick" /\ work'.pc = "unmask" /\ stack' = stack
    BY <1>0, <1>13, Zenon DEF WorkKick, Work
  <2> QED BY <1>0, <2>2, <2>3, Zenon DEF Mutex
<1>14. CASE WorkUnmask /\ DidAside
  <2>1. SameBus(dev, dev') /\ ~dev.copying
    BY <1>14, Zenon DEF DidAside, Aside, WorkUnmask
  <2>2. work'.pc = "idle" /\ stack' = stack
    BY <1>0, <1>14, Zenon DEF WorkUnmask, Work
  <2> QED BY <1>0, <2>1, <2>2, Zenon DEF Mutex, SameBus
<1>15. CASE OnTheWire
  <2>1. work' = work /\ stack' = stack /\ Wired(dev, dev')
    BY <1>15, <1>DoWire, Zenon
  <2> QED BY <1>0, <2>1, Zenon DEF Mutex, Wired
<1>16. CASE UNCHANGED vars
  <2>1. dev' = dev /\ work' = work /\ stack' = stack
    BY <1>16, Zenon DEF vars
  <2> QED BY <1>0, <2>1, Zenon DEF Mutex
<1> QED BY <1>1, <1>2, <1>3, <1>4, <1>5, <1>6, <1>7, <1>9, <1>10, <1>11, <1>12, <1>13, <1>14, <1>15,
           <1>16, ZenonT(60) DEF StepEffect, OnStack, OnTheWire

\* Before the first call.
LEMMA BaseInit == ASSUME Init PROVE Base
<1>1. PICK s : s = dev
  BY Zenon
<1>2. NoToken \in Latch /\ NoToken.ep = "none"
  BY NoTokenType, Zenon
<1>3. dev \in Device
  <2>1. PICK c : c = [r |-> "ACK", t |-> 0]
    BY Zenon
  <2>2. PICK x : x = [enabled |-> FALSE, halted |-> FALSE, busy |-> FALSE]
    BY Zenon
  <2>3. /\ c \in Slot /\ x \in EpState /\ <<>> \in Seq(Requests) /\ 0 \in 0..MPS /\ 0 \in Nat
    BY ONLY <2>1, <2>2 DEF Slot, EpState, MPS
  <2>4. PICK ctl \in [Eps -> Slot], ep \in [Eps -> EpState] :
          ctl = [e \in Eps |-> c] /\ ep = [e \in Eps |-> x]
    BY ONLY <2>3, Zenon
  <2>5. PICK q \in [Eps -> Seq(Requests)], len \in [Eps -> 0..MPS], no \in [Eps -> BOOLEAN] :
          q = [e \in Eps |-> <<>>] /\ len = [e \in Eps |-> 0] /\ no = [e \in Eps |-> FALSE]
    BY ONLY <2>3, Zenon
  <2>6. dev = [running |-> FALSE, on |-> FALSE, en |-> FALSE, fg |-> {}, st |-> NoToken,
               sie |-> "none", addr |-> 0, mode |-> {}, ctl |-> ctl, ep |-> ep, q |-> q,
               in_length |-> len, packet0 |-> "none", copying |-> FALSE, pending |-> FALSE,
               valid |-> FALSE, taken |-> FALSE, suspended |-> FALSE, done |-> {},
               skew |-> no, unheard |-> no, refused |-> no, intact |-> TRUE]
    BY <2>1, <2>2, <2>4, <2>5, Zenon DEF Init
  <2> QED BY ONLY <1>2, <2>3, <2>6, ctl \in [Eps -> Slot], ep \in [Eps -> EpState],
                  q \in [Eps -> Seq(Requests)], len \in [Eps -> 0..MPS],
                  no \in [Eps -> BOOLEAN], Zenon DEF Device
<1>4. DevCore(dev)
  BY <1>2, Zenon DEF Init, DevCore, WireCore, CopySound, EpSound
<1>5. work \in Work /\ host \in Host /\ spent \in Spent /\ stack = "off"
  <2>1. work \in Work /\ stack = "off"
    BY ONLY Init, Zenon DEF Init, Work
  <2>2. host \in Host
    <3>1. 0 \in 0..1
      OBVIOUS
    <3> QED BY ONLY Init, <3>1, Zenon DEF Init, Host
  <2>3. spent \in Spent
    <3>1. 0 \in Nat /\ 0 \in 0..MaxReq
      BY UdcConstants
    <3> QED BY ONLY Init, <3>1, Zenon DEF Init, Spent
  <2> QED BY <2>1, <2>2, <2>3, Zenon
<1>6. Mutex
  BY Zenon DEF Init, Mutex
<1> QED BY <1>3, <1>4, <1>5, <1>6, Zenon DEF Base

\* Every step keeps it.
LEMMA BaseNext ==
  ASSUME Base, [Next]_vars, StepEffect
  PROVE  Base'
\* The host's view keeps its type.
<1>HostType.
      ASSUME Base, [Next]_vars
      PROVE  host' \in Host
  <2> USE <1>HostType
  <2>1. /\ host \in Host /\ host.tog \in [Eps -> 0..1] /\ host.resend \in [Eps -> BOOLEAN]
        /\ host.conf \in SUBSET Bulk /\ host.setup \in BOOLEAN /\ host.suspended \in BOOLEAN
    BY Zenon DEF Base, Host
  <2>2. dev \in Device
    BY Zenon DEF Base
  <2>3. CASE ApiEnable \/ BusReset
    <3>1. host' = [host EXCEPT !.conf = {}, !.setup = FALSE, !.suspended = FALSE]
      BY <2>3, Zenon DEF ApiEnable, BusReset
    <3> QED BY <2>1, <3>1, Zenon DEF Host
  <2>4. ASSUME NEW e \in Eps, ApiEpEnable(e) PROVE host' \in Host
    <3>1. PICK conf \in SUBSET Bulk : conf = host.conf \cup {e}
      BY <2>1, <2>4, Zenon DEF ApiEpEnable
    <3>2. PICK tog : tog = [host.tog EXCEPT ![e] = 0]
      BY Zenon
    <3>6. tog \in [Eps -> 0..1]
      BY <2>1, <3>2
    <3>3. PICK re : re = [host.resend EXCEPT ![e] = FALSE]
      BY Zenon
    <3>5. re \in [Eps -> BOOLEAN]
      BY <2>1, <3>3, Zenon
    <3>4. host' = host \/ host' = [host EXCEPT !.conf = conf, !.tog = tog, !.resend = re]
      BY <2>4, <3>1, <3>2, <3>3, Zenon DEF ApiEpEnable
    <3> QED BY <2>1, <3>4, <3>5, <3>6, Zenon DEF Host
  <2>5. ASSUME NEW e \in Eps, ApiEpDisable(e) PROVE host' \in Host
    BY <2>1, <2>5, Zenon DEF ApiEpDisable, Host
  <2>6. ASSUME NEW e \in Eps, ApiClearHalt(e) PROVE host' \in Host
    <3>2. PICK tog : tog = [host.tog EXCEPT ![e] = 0]
      BY Zenon
    <3>6. tog \in [Eps -> 0..1]
      BY <2>1, <3>2
    <3>3. PICK re : re = [host.resend EXCEPT ![e] = FALSE]
      BY Zenon
    <3>5. re \in [Eps -> BOOLEAN]
      BY <2>1, <3>3, Zenon
    <3>4. host' = [host EXCEPT !.tog = tog, !.resend = re]
      BY <2>6, <3>2, <3>3, Zenon DEF ApiClearHalt
    <3> QED BY <2>1, <3>4, <3>5, <3>6, Zenon DEF Host
  <2>7. ASSUME NEW e \in Eps, InAcked(e) PROVE host' \in Host
    <3>1. dev.ctl[e].t \in 0..1
      BY <2>2, Fields, Zenon DEF Slot
    <3>2. 1 - dev.ctl[e].t \in 0..1
      BY <3>1
    <3>3. PICK tog \in [Eps -> 0..1] : tog = [host.tog EXCEPT ![e] = 1 - dev.ctl[e].t]
      BY <2>1, <3>2, Zenon
    <3>4. host' = [host EXCEPT !.tog = tog]
      BY <2>7, <3>3, Zenon DEF InAcked
    <3> QED BY <2>1, <3>4, Zenon DEF Host
  <2>8. ASSUME NEW e \in Eps, NEW len, NEW heard \in BOOLEAN, NEW flags, OutArrives(e, len, heard, flags)
        PROVE  host' \in Host
    <3>1. host.tog[e] \in 0..1
      BY <2>1, Zenon
    <3>2. PICK n \in 0..1 : n = IF heard THEN 1 - host.tog[e] ELSE host.tog[e]
      BY <3>1
    <3>3. PICK tog \in [Eps -> 0..1] : tog = [host.tog EXCEPT ![e] = n]
      BY <2>1, Zenon
    <3>4. (~heard) \in BOOLEAN
      BY Zenon
    <3>5. [host.resend EXCEPT ![e] = ~heard] \in [Eps -> BOOLEAN]
      BY <2>1, <3>4, FlagUpdate, Zenon
    <3>6. PICK re \in [Eps -> BOOLEAN] : re = [host.resend EXCEPT ![e] = ~heard]
      BY <3>5, Zenon
    <3>7. host' = [host EXCEPT !.tog = tog, !.resend = re]
      BY <2>8, <3>2, <3>3, <3>6, ZenonT(60) DEF OutArrives
    <3> QED BY <2>1, <3>7, Zenon DEF Host
  <2>9. ASSUME NEW valid \in BOOLEAN, SetupArrives(valid) PROVE host' \in Host
    <3>1. "in0" \in Eps /\ "out0" \in Eps
      BY Zenon DEF Eps, Control
    <3>7. PICK half : half = [host.tog EXCEPT !["in0"] = 1]
      BY Zenon
    <3>8. half \in [Eps -> 0..1]
      BY ONLY <2>1, <3>1, <3>7
    <3>2. PICK tog : tog = [half EXCEPT !["out0"] = 1]
      BY Zenon
    <3>6. tog \in [Eps -> 0..1]
      BY ONLY <3>1, <3>2, <3>8
    <3>3. PICK re : re = [host.resend EXCEPT !["out0"] = FALSE]
      BY Zenon
    <3>5. re \in [Eps -> BOOLEAN]
      BY <2>1, <3>1, <3>3, Zenon
    <3>4. host' = [host EXCEPT !.setup = TRUE, !.tog = tog, !.resend = re]
      BY <2>9, <3>2, <3>3, <3>7, Zenon DEF SetupArrives
    <3> QED BY <2>1, <3>4, <3>5, <3>6, Zenon DEF Host
  <2>10. CASE BusSuspend
    <3>1. PICK b \in BOOLEAN : b = ~host.suspended
      <4>1. (~host.suspended) \in BOOLEAN
        BY Zenon
      <4> WITNESS (~host.suspended) \in BOOLEAN
      <4> QED BY Zenon
    <3>2. host' = [host EXCEPT !.suspended = b]
      BY <2>10, <3>1, Zenon DEF BusSuspend
    <3>3. CASE b = TRUE
      <4>1. host' = [host EXCEPT !.suspended = TRUE]
        BY <3>2, <3>3, Zenon
      <4> QED BY <2>1, <4>1, Zenon DEF Host
    <3>4. CASE b = FALSE
      <4>1. host' = [host EXCEPT !.suspended = FALSE]
        BY <3>2, <3>4, Zenon
      <4> QED BY <2>1, <4>1, Zenon DEF Host
    <3> QED BY <3>3, <3>4, Zenon
  <2>11. CASE UNCHANGED host
    BY <2>1, <2>11, Zenon
  <2>12. \/ ApiEnable \/ BusReset \/ BusSuspend
         \/ \E e \in Eps : ApiEpEnable(e) \/ ApiEpDisable(e) \/ ApiClearHalt(e) \/ InAcked(e)
         \/ \E e \in Eps, len \in Packets : \/ OutArrives(e, len, TRUE, {"TRANSFER"})
                                            \/ OutArrives(e, len, FALSE, {"TRANSFER"})
                                            \/ OutArrives(e, len, TRUE, {"TRANSFER", "FIFO_OV"})
         \/ \E valid \in BOOLEAN : SetupArrives(valid)
         \/ UNCHANGED host
    BY Zenon DEF Next, vars, Api, ApiInit, ApiDisable, ApiShutdown, ApiEnqueue, ApiEnqueueSetup,
       ApiDequeue, ApiHalt, wch_address, KickCopy, wch_isr, wch_work,
       WorkRead, WorkReset, WorkOverflow, WorkTransfer, WorkSuspend, WorkSuspendAck,
       WorkKick, WorkUnmask, Transaction, Token, Lost, OutAcked, OutUnheard, OutOverflow
  <2> QED BY <2>3, <2>4, <2>5, <2>6, <2>7, <2>8, <2>9, <2>10, <2>11, <2>12, Zenon
\* The bounds keep their type.
<1>SpentType.
      ASSUME Base, [Next]_vars
      PROVE  spent' \in Spent
  <2> USE <1>SpentType
  <2>1. spent \in Spent /\ spent.req \in 0..MaxReq /\ spent.fault \in Nat /\ spent.bus \in Nat
    BY Zenon DEF Base, Spent
  <2>2. CASE spent.req < MaxReq /\ spent' = [spent EXCEPT !.req = @ + 1]
    <3>1. PICK n \in 0..MaxReq : n = spent.req + 1
      BY <2>1, <2>2, UdcConstants
    <3>2. spent' = [spent EXCEPT !.req = n]
      BY <2>2, <3>1, Zenon
    <3> QED BY <2>1, <3>2, Zenon DEF Spent
  <2>3. CASE Fault
    BY <2>1, <2>3 DEF Spent, Fault
  <2>4. CASE BusStep
    BY <2>1, <2>4 DEF Spent, BusStep
  <2>5. CASE UNCHANGED spent
    BY <2>1, <2>5, Zenon
  <2>6. \/ spent.req < MaxReq /\ spent' = [spent EXCEPT !.req = @ + 1]
        \/ Fault \/ BusStep \/ UNCHANGED spent
    BY Zenon DEF Next, vars, Api, ApiInit, ApiEnable, ApiDisable, ApiShutdown, ApiEpEnable,
       ApiEpDisable, ApiEnqueue, ApiEnqueueSetup, ApiDequeue, ApiHalt, ApiClearHalt,
       wch_address, KickCopy, wch_isr, wch_work,
       WorkRead, WorkReset, WorkOverflow, WorkTransfer, WorkSuspend, WorkSuspendAck,
       WorkKick, WorkUnmask, Transaction, Token, Lost, InAcked, OutAcked, OutUnheard,
       OutOverflow, OutArrives, SetupArrives, BusReset, BusSuspend
  <2> QED BY <2>2, <2>3, <2>4, <2>5, <2>6, Zenon
\* The work item keeps its type.
<1>WorkType.
      ASSUME Base, [Next]_vars
      PROVE  work' \in Work
  <2> USE <1>WorkType
  <2>1. work \in Work /\ work.flags \in SUBSET Flag /\ work.queued \in BOOLEAN /\ dev.fg \in SUBSET Flag
    BY Fields, Zenon DEF Base, Work
  <2>2. CASE WorkRead
    <3>1. PICK flags \in SUBSET Flag : flags = IF dev.running THEN dev.fg ELSE {}
      BY <2>1, Zenon
    <3>2. PICK pc \in {"idle", "handle"} : pc = IF dev.running THEN "handle" ELSE "idle"
      BY Zenon
    <3>3. work' = [queued |-> FALSE, flags |-> flags, pc |-> pc]
      BY <2>2, <3>1, <3>2, Zenon DEF WorkRead
    <3> QED BY ONLY <3>3, flags \in SUBSET Flag, pc \in {"idle", "handle"}, Zenon DEF Work
  <2>3. CASE wch_isr
    <3>1. work' = [work EXCEPT !.queued = TRUE]
      BY <2>3, Zenon DEF wch_isr
    <3> QED BY ONLY <2>1, <3>1, Zenon DEF Work
  <2>4. ASSUME NEW pc \in {"idle", "suspend", "ack", "kick", "unmask"},
               work' = [work EXCEPT !.pc = pc] \/ work' = [work EXCEPT !.pc = pc, !.flags = {}]
        PROVE  work' \in Work
    BY ONLY <2>1, <2>4, pc \in {"idle", "suspend", "ack", "kick", "unmask"}, Zenon DEF Work
  <2>5. CASE WorkReset \/ WorkOverflow \/ WorkTransfer \/ WorkSuspend \/ WorkSuspendAck
                \/ WorkKick \/ WorkUnmask
    BY <2>4, <2>5, Zenon DEF WorkReset, WorkOverflow, WorkTransfer, WorkSuspend, WorkSuspendAck,
                      WorkKick, WorkUnmask
  <2>6. CASE UNCHANGED work
    BY <2>1, <2>6, Zenon
  <2>7. \/ WorkRead \/ wch_isr \/ WorkReset \/ WorkOverflow \/ WorkTransfer \/ WorkSuspend
        \/ WorkSuspendAck \/ WorkKick \/ WorkUnmask \/ UNCHANGED work
    BY Zenon DEF Next, vars, Api, ApiInit, ApiEnable, ApiDisable, ApiShutdown, ApiEpEnable,
       ApiEpDisable, ApiEnqueue, ApiEnqueueSetup, ApiDequeue, ApiHalt, ApiClearHalt,
       wch_address, KickCopy, wch_work, Transaction, Token, Lost, InAcked, OutAcked, OutUnheard,
       OutOverflow, OutArrives, SetupArrives, BusReset, BusSuspend
  <2> QED BY <2>2, <2>3, <2>5, <2>6, <2>7, Zenon
<1> QED BY CoreNext, <1>WorkType, <1>HostType, <1>SpentType, MutexNext, Zenon DEF Base, Sound

(***************************************************************************)
(* The loans.                                                              *)
(***************************************************************************)

\* Every step keeps the books.
LEMMA BooksNext ==
  ASSUME Base, BooksInv, StepEffect
  PROVE  BooksInv'
\* A step that moves no request.
<1>BooksUnmoved.
      ASSUME NEW s, NEW t, t.q = s.q, t.done = s.done
      PROVE  KeepsBooks(s, t)
  BY <1>BooksUnmoved, Zenon DEF KeepsBooks
\* A step that only updates the request at the head.
<1>BooksReplaced.
      ASSUME NEW s \in Device, NEW t, NEW e \in Eps, NEW r \in Requests, s.q[e] # <<>>,
             r.id = Head(s.q[e]).id, Replaced(s, t, e, r)
      PROVE  KeepsBooks(s, t)
  <2> USE <1>BooksReplaced
  <2> SUFFICES ASSUME NEW n, Books(s.q, s.done, n) PROVE Books(t.q, t.done, n)
    BY Zenon DEF KeepsBooks
  <2>1. t.done = s.done
    BY Zenon DEF Replaced
  <2>2. s.q[e] \in Seq(Requests) /\ t.q[e] = [s.q[e] EXCEPT ![1] = r]
    BY Fields, Zenon DEF Replaced
  <2>3. DOMAIN t.q[e] = DOMAIN s.q[e] /\ \A i \in DOMAIN s.q[e] : t.q[e][i].id = s.q[e][i].id
    BY <2>2, First, Zenon
  <2>4. \A g \in Eps \ {e} : t.q[g] = s.q[g]
    BY Zenon DEF Replaced, OneEp, Local
  <2>5. \A g \in Eps : DOMAIN t.q[g] = DOMAIN s.q[g] /\ \A i \in DOMAIN s.q[g] : t.q[g][i].id = s.q[g][i].id
    BY <2>3, <2>4, Zenon
  <2> QED BY <2>1, <2>5, BooksSame
\* wch_quiesce.
<1>BooksQuiesced.
      ASSUME NEW s \in Device, NEW t, NEW e \in Eps, EpSound(s, e), Quiesced(s, t, e, FALSE)
      PROVE  KeepsBooks(s, t)
  <2> USE <1>BooksQuiesced
  <2>1. CASE ~LatchedFor(s, e)
    BY <2>1, <1>BooksUnmoved, Zenon DEF Quiesced, Credited
  <2>2. CASE LatchedFor(s, e)
    <3>1. PICK n, m : /\ Responded(s, n, e, "NAK") /\ DataTransferred(n, m, e)
                      /\ t.q = m.q /\ t.done = m.done
      BY <2>2, Zenon DEF Quiesced, Credited
    <3>2. n \in Device /\ EpSound(n, e) /\ n.q = s.q /\ n.done = s.done
      BY <3>1, Zenon DEF Responded, EpSound, SameBus
    <3>3. KeepsBooks(n, m)
      BY <3>1, <3>2, DataBooks, Zenon
    <3> QED BY <3>1, <3>2, <3>3, Zenon DEF KeepsBooks
  <2> QED BY <2>1, <2>2, Zenon
\* A request is queued.
<1>BooksPut.
      ASSUME NEW s \in Device, NEW t, NEW e \in Eps, NEW r \in Requests, PutIs(s, t, e, r),
             NEW n \in Nat, r.id = n + 1
      PROVE  BooksOpen(s, t, n)
  <2> USE <1>BooksPut
  <2> SUFFICES ASSUME Books(s.q, s.done, n) PROVE Books(t.q, t.done, n + 1)
    BY Zenon DEF BooksOpen
  <2>1. s.q[e] \in Seq(Requests) /\ t.q[e] = Append(s.q[e], r) /\ t.done = s.done
    BY Fields, Zenon DEF PutIs
  <2>2. \A g \in Eps \ {e} : t.q[g] = s.q[g]
    BY Zenon DEF PutIs, OneEp, Local
  <2>3. PICK k \in Nat : k = Len(s.q[e])
    BY <2>1
  <2>4. /\ DOMAIN s.q[e] = 1..k /\ DOMAIN t.q[e] = 1..(k + 1)
        /\ \A i \in 1..k : t.q[e][i] = s.q[e][i]
        /\ t.q[e][k + 1] = r
    BY ONLY <2>1, <2>3, r \in Requests
  <2>5. \A g \in Eps : \A i \in DOMAIN t.q[g] :
          \/ i \in DOMAIN s.q[g] /\ t.q[g][i] = s.q[g][i] /\ s.q[g][i].id \in 1..n
          \/ g = e /\ i = k + 1 /\ t.q[g][i].id = n + 1
    <3>1. \A g \in Eps : \A i \in DOMAIN s.q[g] : s.q[g][i].id \in 1..n
      BY Zenon DEF Books
    <3> TAKE g \in Eps
    <3> TAKE i \in DOMAIN t.q[g]
    <3>2. CASE g # e
      BY <2>2, <3>1, <3>2, Zenon
    <3>3. CASE g = e /\ i \in 1..k
      BY <2>4, <3>1, <3>3, Zenon
    <3>4. CASE g = e /\ i = k + 1
      BY <2>4, <3>4, Zenon
    <3>5. g = e => i \in 1..k \/ i = k + 1
      BY <2>4
    <3> QED BY <3>2, <3>3, <3>4, <3>5, Zenon
  <2>6. \A g \in Eps : \A i \in DOMAIN s.q[g] : i \in DOMAIN t.q[g] /\ t.q[g][i] = s.q[g][i]
    <3> TAKE g \in Eps
    <3> TAKE i \in DOMAIN s.q[g]
    <3>1. CASE g # e
      BY <2>2, <3>1, Zenon
    <3>2. CASE g = e
      <4>1. i \in 1..k
        BY <2>4, <3>2, Zenon
      <4>2. i \in 1..(k + 1)
        BY <4>1
      <4> QED BY <2>4, <3>2, <4>1, <4>2, Zenon
    <3> QED BY <3>1, <3>2, Zenon
  <2>7. \A g \in Eps : \A i \in DOMAIN t.q[g] : t.q[g][i].id \in 1..(n + 1)
    BY <2>5
  <2>8. \A g, f \in Eps : \A i \in DOMAIN t.q[g], j \in DOMAIN t.q[f] :
          t.q[g][i].id = t.q[f][j].id => g = f /\ i = j
    <3> TAKE g, f \in Eps
    <3> TAKE i \in DOMAIN t.q[g], j \in DOMAIN t.q[f]
    <3> HAVE t.q[g][i].id = t.q[f][j].id
    <3>1. CASE i \in DOMAIN s.q[g] /\ t.q[g][i] = s.q[g][i] /\ s.q[g][i].id \in 1..n
      <4>1. j \in DOMAIN s.q[f] /\ t.q[f][j] = s.q[f][j]
        BY <2>5, <3>1, SMTT(30)
      <4> QED BY <3>1, <4>1, SMTT(30) DEF Books
    <3>2. CASE g = e /\ i = k + 1 /\ t.q[g][i].id = n + 1
      BY <2>5, <3>2
    <3> QED BY <2>5, <3>1, <3>2, Zenon
  <2>9. \A d \in t.done : d.id \in 1..n
    BY <2>1, Zenon DEF Books
  <2>10. \A d \in t.done : d.id \in 1..(n + 1)
    BY <2>9
  <2>11. \A c, d \in t.done : c.id = d.id => c = d
    BY <2>1, Zenon DEF Books
  <2>12. \A d \in t.done : \A g \in Eps : \A i \in DOMAIN t.q[g] : d.id # t.q[g][i].id
    <3> TAKE d \in t.done
    <3> TAKE g \in Eps
    <3> TAKE i \in DOMAIN t.q[g]
    <3>1. CASE i \in DOMAIN s.q[g] /\ t.q[g][i] = s.q[g][i]
      BY <2>1, <3>1 DEF Books
    <3>2. CASE t.q[g][i].id = n + 1
      BY <2>9, <3>2, SMTT(30)
    <3> QED BY <2>5, <3>1, <3>2, Zenon
  <2>13. \A j \in 1..(n + 1) : \/ \E g \in Eps : \E i \in DOMAIN t.q[g] : t.q[g][i].id = j
                               \/ \E d \in t.done : d.id = j
    <3> TAKE j \in 1..(n + 1)
    <3>1. CASE j = n + 1
      BY <2>4, <3>1, SMTT(30)
    <3>2. CASE j \in 1..n
      <4>1. \/ \E g \in Eps : \E i \in DOMAIN s.q[g] : s.q[g][i].id = j
            \/ \E d \in s.done : d.id = j
        BY <3>2, Zenon DEF Books
      <4> QED BY <2>1, <2>6, <4>1
    <3> QED BY <3>1, <3>2
  <2> QED BY <2>7, <2>8, <2>10, <2>11, <2>12, <2>13, Zenon DEF Books
\* A request is answered at once.
<1>BooksHandOver.
      ASSUME NEW s, NEW t, NEW o, HandedOver(s, t, o), NEW n \in Nat, o.id = n + 1
      PROVE  BooksOpen(s, t, n)
  <2> USE <1>BooksHandOver
  <2> SUFFICES ASSUME Books(s.q, s.done, n) PROVE Books(t.q, t.done, n + 1)
    BY Zenon DEF BooksOpen
  <2>1. t.q = s.q /\ t.done = s.done \cup {o}
    BY Zenon DEF HandedOver
  <2>2. \A g \in Eps : \A i \in DOMAIN t.q[g] : t.q[g][i].id \in 1..n
    BY <2>1, Zenon DEF Books
  <2>3. \A d \in s.done : d.id \in 1..n
    BY Zenon DEF Books
  <2>4. \A g, f \in Eps : \A i \in DOMAIN t.q[g], j \in DOMAIN t.q[f] :
          t.q[g][i].id = t.q[f][j].id => g = f /\ i = j
    BY <2>1 DEF Books
  <2>5. \A d \in t.done : d.id \in 1..(n + 1)
    BY <2>1, <2>3
  <2>6. \A c, d \in t.done : c.id = d.id => c = d
    <3>1. \A c, d \in s.done : c.id = d.id => c = d
      BY Zenon DEF Books
    <3>2. \A c \in s.done : c.id # o.id
      BY <2>3
    <3> QED BY ONLY <2>1, <3>1, <3>2, Zenon
  <2>7. \A d \in t.done : \A g \in Eps : \A i \in DOMAIN t.q[g] : d.id # t.q[g][i].id
    <3>1. \A d \in s.done : \A g \in Eps : \A i \in DOMAIN t.q[g] : d.id # t.q[g][i].id
      BY <2>1 DEF Books
    <3>2. \A g \in Eps : \A i \in DOMAIN t.q[g] : o.id # t.q[g][i].id
      BY <2>2
    <3> QED BY <2>1, <3>1, <3>2, ZenonT(60)
  <2>8. \A j \in 1..(n + 1) : \/ \E g \in Eps : \E i \in DOMAIN t.q[g] : t.q[g][i].id = j
                              \/ \E d \in t.done : d.id = j
    <3> TAKE j \in 1..(n + 1)
    <3>1. CASE j = n + 1
      BY <2>1, <3>1, ZenonT(60)
    <3>2. CASE j \in 1..n
      BY <2>1, <3>2 DEF Books
    <3> QED BY <3>1, <3>2
  <2>9. \A g \in Eps : \A i \in DOMAIN t.q[g] : t.q[g][i].id \in 1..(n + 1)
    BY <2>2
  <2> QED BY <2>4, <2>5, <2>6, <2>7, <2>8, <2>9, Zenon DEF Books
\* Steps that do not accept a request spend none.
<1>SpendNone.
      ASSUME Base, StepEffect
      PROVE  \/ spent'.req = spent.req
             \/ ApiEnqueueSetup /\ DidEnqueueSetup
             \/ \E e \in Eps, size \in Sizes, zlp \in BOOLEAN : ApiEnqueue(e, size, zlp) /\ DidEnqueue(e)
  <2> USE <1>SpendNone
  <2>1. spent \in Spent
    BY Zenon DEF Base
  <2>2. CASE Fault \/ BusStep \/ UNCHANGED spent
    BY <2>1, <2>2, Zenon DEF Fault, BusStep, Spent
  <2> DEFINE Quiet == Fault \/ BusStep \/ UNCHANGED spent
  <2>3. ASSUME NEW e \in Eps, \/ ApiEpEnable(e) \/ ApiEpDisable(e) \/ ApiDequeue(e) \/ ApiHalt(e)
                              \/ ApiClearHalt(e) \/ InAcked(e) \/ Out(e)
        PROVE  Quiet
    BY ONLY <2>3, Zenon DEF ApiEpEnable, ApiEpDisable, ApiDequeue, ApiHalt, ApiClearHalt, InAcked, Out,
                            OutArrives
  <2>4. ASSUME \/ \E fault : ApiInit(fault)
               \/ \E a \in 0..1 : wch_address(a)
               \/ ApiEnable \/ ApiDisable \/ ApiShutdown \/ KickCopy \/ wch_isr \/ UNCHANGED vars
        PROVE  Quiet
    BY ONLY <2>4, Zenon
    DEF ApiInit, wch_address, ApiEnable, ApiDisable, ApiShutdown, KickCopy, wch_isr, vars
  <2>5. ASSUME \/ WorkRead \/ WorkReset \/ WorkOverflow \/ WorkTransfer \/ WorkSuspend \/ WorkSuspendAck
               \/ WorkKick \/ WorkUnmask
        PROVE  Quiet
    BY ONLY <2>5, Zenon
    DEF WorkRead, WorkReset, WorkOverflow, WorkTransfer, WorkSuspend, WorkSuspendAck,
                            WorkKick, WorkUnmask
  <2>6. ASSUME \/ \E tk \in Eps \cup {"setup"} : Token(tk)
               \/ \E valid \in BOOLEAN : SetupArrives(valid)
               \/ Lost \/ BusReset \/ BusSuspend
        PROVE  Quiet
    BY ONLY <2>6, Zenon DEF Token, SetupArrives, Lost, BusReset, BusSuspend
  <2>7. \/ Quiet
        \/ ApiEnqueueSetup /\ DidEnqueueSetup
        \/ \E e \in Eps, size \in Sizes, zlp \in BOOLEAN : ApiEnqueue(e, size, zlp) /\ DidEnqueue(e)
    <3> HIDE DEF Quiet
    <3> QED BY <2>3, <2>4, <2>5, <2>6, Zenon DEF StepEffect
  <2> QED BY <2>2, <2>7, Zenon
\* The steps that accept a request.
<1>BooksOpened.
      ASSUME Base, BooksInv, NEW r \in Requests, NEW e \in Eps, Enqueued(dev, dev', e, r),
             r.id = spent.req + 1, spent'.req = spent.req + 1
      PROVE  BooksInv'
  <2> USE <1>BooksOpened
  <2>1. PICK m : PutIs(dev, m, e, r) /\ IF e = "in0" THEN CheckedIs(m, dev') ELSE Kicked(m, dev', e)
    BY Zenon DEF Enqueued
  <2>2. PICK n \in Nat : n = spent.req
    BY UdcConstants DEF Base, Spent
  <2>3. Books(m.q, m.done, n + 1)
    BY <2>1, <2>2, <1>BooksPut, Zenon DEF Base, BooksInv, BooksOpen
  <2>4. dev'.done = m.done
    BY <2>1, Zenon DEF CheckedIs, SameEps, Kicked, Staged
  <2>5. \A g \in Eps : dev'.q[g] = m.q[g]
    BY <2>1, Zenon DEF CheckedIs, SameEps, Kicked, Staged, Local
  <2>6. Books(dev'.q, dev'.done, n + 1)
    BY <2>3, <2>4, <2>5, BooksSame, Zenon
  <2> QED BY <2>2, <2>6, Zenon DEF BooksInv
\* Endpoints kicked keep their queues.
<1>BooksKicked.
      ASSUME NEW s, NEW t, NEW e \in Eps, Kicked(s, t, e)
      PROVE  KeepsBooks(s, t)
  <2> USE <1>BooksKicked
  <2>1. t.done = s.done /\ \A g \in Eps : t.q[g] = s.q[g]
    BY Zenon DEF Kicked, Staged, Local
  <2> QED BY <2>1, BooksSame, Zenon DEF KeepsBooks
<1>0. dev \in Device /\ DevCore(dev) /\ \A e \in Eps : EpSound(dev, e)
  BY Zenon DEF Base, DevCore
<1>00. "in0" \in Eps /\ "out0" \in Eps /\ "in1" \in Eps /\ "out2" \in Eps
  BY Zenon DEF Eps, Control, Bulk
<1> DEFINE Keep == KeepsBooks(dev, dev')
<1>1. ASSUME NEW fault, ApiInit(fault), DidInit PROVE Keep
  BY <1>1, Zenon DEF DidInit, Prepared0, KeepsBooks
<1>2. CASE ApiEnable /\ DidEnable
  <2>1. Keep
    BY <1>2, <1>BooksUnmoved, Zenon DEF DidEnable, Attached
  <2>2. spent'.req = spent.req
    BY <1>2, Zenon DEF ApiEnable, BusStep, Base, Spent
  <2> QED BY <2>1, <2>2, Zenon DEF BooksInv, KeepsBooks
<1>3. ASSUME ApiDisable \/ ApiShutdown \/ WorkOverflow, DidDown PROVE Keep
  BY <1>3, Zenon DEF DidDown, Down
<1>4. ASSUME NEW e \in Eps, ApiEpEnable(e), DidEpEnable(e) PROVE Keep
  BY <1>4, <1>BooksUnmoved, Zenon DEF DidEpEnable, EpEnabled
<1>5. ASSUME NEW e \in Eps, RefusedIs(dev, dev', e) PROVE Keep
  BY <1>5, <1>BooksUnmoved, Zenon DEF RefusedIs
<1>6. ASSUME NEW e \in Eps, ApiEpDisable(e), DidEpDisable(e) PROVE Keep
  BY <1>0, <1>5, <1>6, EpDisabledKeeps, Zenon DEF DidEpDisable
<1>7. ASSUME NEW e \in Eps, ApiDequeue(e), DidDequeue(e) PROVE Keep
  <2>1. ASSUME Dequeued(dev, dev', e) PROVE Keep
    BY <1>0, <2>1, SentBackBooks, Zenon DEF Dequeued
  <2> QED BY <1>5, <1>7, <2>1, Zenon DEF DidDequeue
<1>8. ASSUME NEW e \in Eps, ApiHalt(e), DidHalt(e) PROVE Keep
  <2>1. ASSUME Halted(dev, dev', e) PROVE Keep
    <3>1. PICK m : Quiesced(dev, m, e, FALSE) /\ (dev' = m \/ Stalled(m, dev', e))
      BY <2>1, Zenon DEF Halted
    <3>2. KeepsBooks(dev, m)
      BY <1>0, <3>1, <1>BooksQuiesced, Zenon
    <3>3. dev'.q = m.q /\ dev'.done = m.done
      BY <3>1, Zenon DEF Stalled
    <3> QED BY <3>2, <3>3, Zenon DEF KeepsBooks
  <2> QED BY <1>5, <1>8, <2>1, Zenon DEF DidHalt
<1>9. ASSUME NEW e \in Eps, ApiClearHalt(e), DidClearHalt(e) PROVE Keep
  <2>1. PICK m : ToggleReset(dev, m, e) /\ Kicked(m, dev', e)
    BY <1>9, Zenon DEF DidClearHalt, HaltCleared
  <2>2. KeepsBooks(dev, m) /\ KeepsBooks(m, dev')
    BY <2>1, <1>BooksUnmoved, <1>BooksKicked, Zenon DEF ToggleReset
  <2> QED BY <2>2, BooksTrans, Zenon
<1>10. ASSUME NEW e \in Eps, InAcked(e), DidIn(e) PROVE Keep
  <2>1. PICK m : /\ TakenIs(dev, m, e)
                 /\ \/ \E k : AboutHead(dev, k, e) /\ ~k.bad /\ LatchedIs(m, dev', {"TRANSFER"}, k)
                    \/ UnheardIs(m, dev', e)
    BY <1>10, Zenon DEF DidIn, InDone
  <2>2. KeepsBooks(dev, m)
    <3>1. CASE m = dev
      BY <3>1, Zenon DEF KeepsBooks
    <3>2. CASE m # dev
      BY <1>0, <2>1, <3>2, <1>BooksReplaced, Zenon DEF TakenIs, TakenBy
    <3> QED BY <3>1, <3>2, Zenon
  <2>3. dev'.q = m.q /\ dev'.done = m.done
    BY <2>1, Zenon DEF LatchedIs, UnheardIs, SameEpsButUnheard
  <2> QED BY <2>2, <2>3, Zenon DEF KeepsBooks
<1>11. ASSUME NEW e \in Eps, Out(e), DidOut(e) PROVE Keep
  BY <1>11, <1>BooksUnmoved, Zenon DEF DidOut, OutDone, LatchedIs, SameEpsButUnheard
<1>12. ASSUME NEW e \in Eps, NEW size \in Sizes, NEW zlp \in BOOLEAN, ApiEnqueue(e, size, zlp), DidEnqueue(e)
       PROVE  BooksInv'
  <2>1. spent'.req = spent.req + 1
    BY <1>12, Zenon DEF ApiEnqueue, Base, Spent
  <2> QED BY <1>12, <2>1, <1>BooksOpened, Zenon DEF DidEnqueue
<1>13. CASE ApiEnqueueSetup /\ DidEnqueueSetup
  <2>1. spent'.req = spent.req + 1
    BY <1>13, Zenon DEF ApiEnqueueSetup, Base, Spent
  <2>2. CASE dev.pending
    <3>1. PICK o \in Return : o.id = spent.req + 1 /\ HandedOver(dev, dev', o)
      BY <1>13, <2>2, Zenon DEF DidEnqueueSetup
    <3>2. PICK n \in Nat : n = spent.req
      BY UdcConstants DEF Base, Spent
    <3>3. Books(dev'.q, dev'.done, n + 1)
      BY <3>1, <3>2, <1>BooksHandOver, Zenon DEF BooksInv, BooksOpen
    <3> QED BY <2>1, <3>2, <3>3, Zenon DEF BooksInv
  <2>3. CASE ~dev.pending
    BY <1>00, <1>13, <2>1, <2>3, <1>BooksOpened, Zenon DEF DidEnqueueSetup
  <2> QED BY <2>2, <2>3, Zenon
<1>14. ASSUME (\E a \in 0..1 : wch_address(a)) \/ wch_isr \/ WorkSuspend \/ WorkUnmask, DidAside PROVE Keep
  BY <1>14, <1>BooksUnmoved, Zenon DEF DidAside, Aside, SameEps
<1>15. ASSUME KickCopy, DidCopy PROVE Keep
  <2>1. PICK m : Staged(dev, m, "in0") /\ SameEps(m, dev')
    BY <1>15, Zenon DEF DidCopy, CopiedIs
  <2>2. dev'.done = dev.done /\ \A g \in Eps : dev'.q[g] = dev.q[g]
    BY <2>1 DEF Staged, SameEps, Local
  <2> QED BY <2>2, BooksSame, Zenon DEF KeepsBooks
<1>16. ASSUME WorkRead \/ UNCHANGED vars PROVE Keep
  BY <1>16, Zenon DEF WorkRead, vars, KeepsBooks
<1>17. ASSUME WorkReset, DidReset PROVE Keep
  <2>1. PICK m : AllReset(dev, m) /\ Acked(m, dev', work.flags)
    BY <1>17, Zenon DEF DidReset, ResetDone
  <2> QED BY <2>1, Zenon DEF AllReset, Acked, SameEps, KeepsBooks
<1>18. ASSUME WorkTransfer, DidTransfer PROVE Keep
  <2>1. CASE "TRANSFER" \notin work.flags
    BY <1>18, <2>1, Zenon DEF DidTransfer, KeepsBooks
  <2>2. CASE "TRANSFER" \in work.flags
    <3>1. PICK m : /\ IF dev.st.ep = "setup" THEN Superseded(dev, m) ELSE DataTransferred(dev, m, dev.st.ep)
                   /\ Acked(m, dev', {"TRANSFER"})
      BY <1>18, <2>2, Zenon DEF DidTransfer, Serviced
    <3>2. dev.st.ep \in Eps \cup {"setup"}
      BY <1>18, <2>2, Zenon DEF DidTransfer
    <3>3. KeepsBooks(dev, m)
      BY <1>0, <3>1, <3>2, SupersededBooks, DataBooks, Zenon
    <3> QED BY <3>1, <3>3, Zenon DEF Acked, SameEps, KeepsBooks
  <2> QED BY <2>1, <2>2, Zenon
<1>19. ASSUME WorkSuspendAck, DidSuspendAck PROVE Keep
  BY <1>19, <1>BooksUnmoved, Zenon DEF DidSuspendAck, Acked, SameEps
<1>20. ASSUME WorkKick, DidKick PROVE Keep
  <2>1. PICK a, b, c : Kicked(dev, a, "out0") /\ Kicked(a, b, "in1") /\ Kicked(b, c, "out2") /\ CheckedIs(c, dev')
    BY <1>20, Zenon DEF DidKick, AllKicked
  <2>2. KeepsBooks(dev, a) /\ KeepsBooks(a, b) /\ KeepsBooks(b, c)
    BY <1>00, <2>1, <1>BooksKicked, Zenon
  <2> QED BY <2>1, <2>2, Zenon DEF CheckedIs, SameEps, KeepsBooks
<1>21. ASSUME NEW tk \in Eps \cup {"setup"}, Token(tk), DidToken(tk) PROVE Keep
  BY <1>21, <1>BooksUnmoved, Zenon DEF DidToken, OnWire, SameEps
<1>22. ASSUME Lost \/ BusReset \/ BusSuspend, DidBus PROVE Keep
  BY <1>22, <1>BooksUnmoved, Zenon DEF DidBus, OnWire, SameEps
<1>23. ASSUME NEW valid \in BOOLEAN, SetupArrives(valid), DidSetup PROVE Keep
  BY <1>23, <1>BooksUnmoved, Zenon DEF DidSetup, SetupDone, LatchedIs, SameEpsButUnheard
<1>24. \/ Keep
       \/ ApiEnable /\ DidEnable
       \/ ApiEnqueueSetup /\ DidEnqueueSetup
       \/ \E e \in Eps, size \in Sizes, zlp \in BOOLEAN : ApiEnqueue(e, size, zlp) /\ DidEnqueue(e)
  BY <1>1, <1>3, <1>4, <1>6, <1>7, <1>8, <1>9, <1>10, <1>11, <1>14,
     <1>15, <1>16, <1>17, <1>18, <1>19, <1>20, <1>21, <1>22, <1>23, ZenonT(60) DEF StepEffect
<1>25. Keep /\ spent'.req = spent.req => BooksInv'
  BY Zenon DEF BooksInv, KeepsBooks
<1> HIDE DEF Keep
<1> QED BY <1>2, <1>12, <1>13, <1>24, <1>25, <1>SpendNone, Zenon

(***************************************************************************)
(* A SETUP that waits for the stack.                                       *)
(***************************************************************************)

\* Every step keeps it.
LEMMA SetupNext ==
  ASSUME Base, SetupInv, StepEffect
  PROVE  SetupInv'
\* It keeps the promise.
<1>SetupStays.
      ASSUME NEW s, NEW t, SetupSafe(s), SetupKept(s, t)
      PROVE  SetupSafe(t)
  BY <1>SetupStays, Zenon DEF SetupSafe, SetupKept
\* Steps on a bulk endpoint do.
<1>SetupElsewhere.
      ASSUME NEW s, NEW t, NEW e \in Bulk, Local(s, t, e), t.pending = s.pending, t.taken = s.taken
      PROVE  SetupKept(s, t)
  <2> USE <1>SetupElsewhere
  <2>1. \A g \in Control : g \in Eps \ {e}
    BY Zenon DEF Eps, Control, Bulk
  <2> QED BY <2>1, Zenon DEF SetupKept, Local
\* So do steps that leave the control endpoints alone.
<1>SetupSame.
      ASSUME NEW s, NEW t, t.ep = s.ep, t.ctl = s.ctl, t.q = s.q, t.pending = s.pending, t.taken = s.taken
      PROVE  SetupKept(s, t)
  BY <1>SetupSame, Zenon DEF SetupKept
\* One step after the other.
<1>SetupTrans.
      ASSUME NEW s, NEW m, NEW t, SetupKept(s, m), SetupKept(m, t)
      PROVE  SetupKept(s, t)
  BY <1>SetupTrans, Zenon DEF SetupKept
\* A step on any endpoint that calms it.
<1>SetupCalm.
      ASSUME NEW s, NEW t, NEW e \in Eps, Local(s, t, e), SameBus(s, t), t.ctl[e].r = "NAK",
             t.ep[e].halted = s.ep[e].halted, s.pending => t.q[e] = s.q[e] \/ t.q[e] = <<>>
      PROVE  SetupKept(s, t)
  <2> USE <1>SetupCalm
  <2>1. \A g \in Control : g \in Eps
    BY Zenon DEF Eps
  <2> QED BY <2>1, Zenon DEF SetupKept, Local, SameBus
\* wch_kick finds nothing to start on a control endpoint.
<1>SetupKick.
      ASSUME NEW s, NEW t, NEW e \in Eps, SetupSafe(s), Kicked(s, t, e)
      PROVE  SetupKept(s, t)
  <2> USE <1>SetupKick
  <2>1. CASE t = s
    BY <2>1, Zenon DEF SetupKept
  <2>2. CASE t # s
    <3>1. Startable(s, e) /\ Staged(s, t, e)
      BY <2>2, Zenon DEF Kicked
    <3>2. CASE e \in Bulk
      BY <3>1, <3>2, <1>SetupElsewhere, Zenon DEF Staged, SameBus
    <3>3. CASE e \in Control
      <4>1. ~s.pending
        BY <3>1, <3>3, Zenon DEF Startable, SetupSafe
      <4> QED BY <3>1, <4>1, Zenon DEF SetupKept, Staged, SameBus
    <3> QED BY <3>2, <3>3, Zenon DEF Eps
  <2> QED BY <2>1, <2>2, Zenon
\* A packet is credited.
<1>SetupData.
      ASSUME NEW s, NEW t, NEW e \in Eps, SetupSafe(s), EpSound(s, e), DataTransferred(s, t, e)
      PROVE  SetupKept(s, t)
  <2> USE <1>SetupData
  <2>1. CASE ~s.ep[e].busy
    BY <2>1, Zenon DEF DataTransferred, SetupKept
  <2>2. CASE s.ep[e].busy
    <3>0. Local(s, t, e) /\ SameBus(s, t)
      BY Zenon DEF DataTransferred, OneEp
    <3>1. CASE e \in Bulk
      BY <3>0, <3>1, <1>SetupElsewhere, Zenon DEF SameBus
    <3>2. CASE e \in Control
      <4>1. ~s.pending
        BY <2>2, <3>2, Zenon DEF EpSound, SetupSafe
      <4> QED BY <3>0, <4>1, Zenon DEF SetupKept, SameBus
    <3> QED BY <3>1, <3>2, Zenon DEF Eps
  <2> QED BY <2>1, <2>2, Zenon
\* wch_halt.
<1>SetupHalt.
      ASSUME NEW s, NEW t, NEW e \in Eps, SetupSafe(s), EpSound(s, e), Halted(s, t, e)
      PROVE  SetupKept(s, t)
  <2> USE <1>SetupHalt
  <2>1. PICK m : /\ Quiesced(s, m, e, FALSE)
                 /\ IF e \in Control /\ (wch_setup_pending(m) \/ m.pending) THEN t = m
                                                                      ELSE Stalled(m, t, e)
    BY Zenon DEF Halted
  <2>2. Local(s, m, e) /\ SameBus(s, m) /\ m.ctl[e].r = "NAK" /\ SameSwitches(s, m, e)
    BY <2>1, Zenon DEF Quiesced
  <2>3. CASE e \in Bulk
    <3>1. Local(s, t, e) /\ SameBus(s, t)
      <4>1. CASE t = m
        BY <2>2, <4>1, Zenon
      <4>2. CASE Stalled(m, t, e)
        BY <2>2, <4>2, LocalTrans, Zenon DEF Stalled, SameBus
      <4> QED BY <2>1, <4>1, <4>2, Zenon
    <3> QED BY <2>3, <3>1, <1>SetupElsewhere, Zenon DEF SameBus
  <2>4. CASE e \in Control /\ s.pending
    <3>1. t = m
      BY <2>1, <2>2, <2>4, Zenon DEF SameBus
    <3>2. ~s.ep[e].busy
      BY <2>4, Zenon DEF EpSound, SetupSafe
    <3>3. m.q = s.q
      <4>1. CASE LatchedFor(s, e)
        <5>1. PICK n, u : Responded(s, n, e, "NAK") /\ DataTransferred(n, u, e) /\ m.q = u.q
          BY <2>1, <4>1, Zenon DEF Quiesced, Credited
        <5> QED BY <3>2, <5>1, Zenon DEF Responded, DataTransferred
      <4>2. CASE ~LatchedFor(s, e)
        BY <2>1, <4>2, Zenon DEF Quiesced, Credited
      <4> QED BY <4>1, <4>2, Zenon
    <3> QED BY <2>2, <3>1, <3>3, <1>SetupCalm, Zenon DEF SameSwitches
  <2>5. CASE e \in Control /\ ~s.pending
    <3>1. t.pending = s.pending /\ t.taken = s.taken
      BY <2>1, <2>2, Zenon DEF Stalled, SameBus
    <3> QED BY <2>5, <3>1, Zenon DEF SetupKept
  <2> QED BY <2>3, <2>4, <2>5, Zenon DEF Eps
<1>0. dev \in Device /\ SetupSafe(dev) /\ \A e \in Eps : EpSound(dev, e)
  BY Zenon DEF Base, DevCore, SetupInv
<1>00. "in0" \in Eps /\ "out0" \in Eps /\ "in1" \in Eps /\ "out2" \in Eps /\ "in0" \in Control
  BY Zenon DEF Eps, Control, Bulk
<1> DEFINE Kept == SetupKept(dev, dev')
           Safe == SetupSafe(dev')
<1>1. ASSUME NEW fault, ApiInit(fault), DidInit PROVE Safe
  <2>1. ~dev.pending
    BY <1>1, Zenon DEF DidInit, Base, Mutex
  <2> QED BY <1>1, <2>1, Zenon DEF DidInit, Prepared0, SetupSafe
<1>2. ASSUME ApiEnable, DidEnable PROVE Safe
  <2>1. ~dev.pending
    BY <1>2, Zenon DEF DidEnable, Base, Mutex
  <2> QED BY <1>2, <2>1, Zenon DEF DidEnable, Attached, SetupSafe
<1>3. ASSUME ApiDisable \/ ApiShutdown \/ WorkOverflow, DidDown PROVE Safe
  BY <1>3, Zenon DEF DidDown, Down, SetupSafe
<1>4. ASSUME NEW e \in Eps, ApiEpEnable(e), DidEpEnable(e) PROVE Kept
  BY <1>4, <1>SetupElsewhere, Zenon DEF DidEpEnable, EpEnabled, SameBusButMode
<1>5. ASSUME NEW e \in Eps, RefusedIs(dev, dev', e) PROVE Kept
  BY <1>5, <1>SetupCalm, Zenon DEF RefusedIs
<1>6. ASSUME NEW e \in Eps, ApiEpDisable(e), DidEpDisable(e) PROVE Kept
  <2>1. ASSUME EpDisabled(dev, dev', e) PROVE Kept
    BY <1>0, <1>6, <2>1, EpDisabledKeeps, <1>SetupElsewhere, Zenon DEF DidEpDisable, SameBusButMode
  <2> QED BY <1>5, <1>6, <2>1, Zenon DEF DidEpDisable
<1>7. ASSUME NEW e \in Eps, ApiDequeue(e), DidDequeue(e) PROVE Kept
  <2>1. ASSUME Dequeued(dev, dev', e) PROVE Kept
    BY <2>1, <1>SetupCalm, Zenon DEF Dequeued, SameSwitches
  <2> QED BY <1>5, <1>7, <2>1, Zenon DEF DidDequeue
<1>8. ASSUME NEW e \in Eps, ApiHalt(e), DidHalt(e) PROVE Kept
  BY <1>0, <1>5, <1>8, <1>SetupHalt, Zenon DEF DidHalt
<1>9. ASSUME NEW e \in Eps, ApiClearHalt(e), DidClearHalt(e) PROVE Kept
  <2>1. PICK m : ToggleReset(dev, m, e) /\ Kicked(m, dev', e)
    BY <1>9, Zenon DEF DidClearHalt, HaltCleared
  <2>2. e \in Bulk
    BY <1>9, Zenon DEF DidClearHalt
  <2>3. SetupKept(dev, m)
    BY <2>1, <2>2, <1>SetupElsewhere, Zenon DEF ToggleReset, SameBus
  <2>4. SetupKept(m, dev')
    BY <1>0, <2>1, <2>3, <1>SetupStays, <1>SetupKick, Zenon
  <2> QED BY <2>3, <2>4, <1>SetupTrans, Zenon
<1>10. ASSUME NEW e \in Eps, InAcked(e), DidIn(e) PROVE Kept
  <2>1. PICK m : /\ TakenIs(dev, m, e)
                 /\ \/ \E k : AboutHead(dev, k, e) /\ ~k.bad /\ LatchedIs(m, dev', {"TRANSFER"}, k)
                    \/ UnheardIs(m, dev', e)
    BY <1>10, Zenon DEF DidIn, InDone
  <2>2. SetupKept(dev, m)
    <3>1. CASE m = dev
      BY <3>1, Zenon DEF SetupKept
    <3>2. CASE m # dev
      <4>1. dev.q[e] # <<>> /\ \E r \in Requests : Replaced(dev, m, e, r)
        BY <2>1, <3>2, Zenon DEF TakenIs
      <4>2. Local(dev, m, e) /\ SameBus(dev, m)
        BY <4>1, Zenon DEF Replaced, OneEp
      <4>3. CASE e \in Bulk
        BY <4>2, <4>3, <1>SetupElsewhere, Zenon DEF SameBus
      <4>4. CASE e \in Control
        BY <1>0, <4>1, <4>2, <4>4, Zenon DEF SetupSafe, SetupKept, SameBus
      <4> QED BY <4>3, <4>4, Zenon DEF Eps
    <3> QED BY <3>1, <3>2, Zenon
  <2>3. SetupKept(m, dev')
    BY <2>1, <1>SetupSame, Zenon DEF LatchedIs, UnheardIs, SameEpsButUnheard, SameBusButSie
  <2> QED BY <2>2, <2>3, <1>SetupTrans, Zenon
<1>11. ASSUME NEW e \in Eps, Out(e), DidOut(e) PROVE Kept
  BY <1>11, <1>SetupSame, Zenon DEF DidOut, OutDone, LatchedIs, SameEpsButUnheard, SameBusButSie
<1>12. ASSUME NEW e \in Eps, NEW r \in Requests, e \in Control => ~dev.pending, Enqueued(dev, dev', e, r)
       PROVE  Safe
  <2>1. PICK m : PutIs(dev, m, e, r) /\ IF e = "in0" THEN CheckedIs(m, dev') ELSE Kicked(m, dev', e)
    BY <1>12, Zenon DEF Enqueued
  <2>2. SetupKept(dev, m)
    <3>1. Local(dev, m, e) /\ SameBus(dev, m)
      BY <2>1, Zenon DEF PutIs, OneEp
    <3>2. CASE e \in Bulk
      BY <3>1, <3>2, <1>SetupElsewhere, Zenon DEF SameBus
    <3>3. CASE e \in Control
      BY <1>12, <3>1, <3>3, Zenon DEF SetupKept, SameBus
    <3> QED BY <3>2, <3>3, Zenon DEF Eps
  <2>3. SetupSafe(m)
    BY <1>0, <2>2, <1>SetupStays, Zenon
  <2>4. SetupKept(m, dev')
    <3>1. CASE CheckedIs(m, dev')
      BY <3>1, <1>SetupSame, Zenon DEF CheckedIs, SameEps, SameBusButCopying
    <3> QED BY <2>1, <2>3, <3>1, <1>SetupKick, Zenon
  <2> QED BY <2>3, <2>4, <1>SetupStays, Zenon
<1>13. ASSUME NEW e \in Eps, NEW size \in Sizes, NEW zlp \in BOOLEAN, ApiEnqueue(e, size, zlp), DidEnqueue(e)
       PROVE  Safe
  <2>1. e \in Control => ~dev.pending
    BY <1>0, <1>13, Zenon DEF DidEnqueue, SetupSafe
  <2> QED BY <1>12, <1>13, <2>1, Zenon DEF DidEnqueue
<1>14. ASSUME ApiEnqueueSetup, DidEnqueueSetup PROVE Safe
  <2>1. CASE dev.pending
    BY <1>14, <2>1, Zenon DEF DidEnqueueSetup, HandedOver, SetupSafe
  <2>2. CASE ~dev.pending
    BY <1>00, <1>12, <1>14, <2>2, Zenon DEF DidEnqueueSetup
  <2> QED BY <2>1, <2>2, Zenon
<1>15. ASSUME (\E a \in 0..1 : wch_address(a)) \/ wch_isr \/ WorkSuspend \/ WorkUnmask, DidAside PROVE Kept
  BY <1>15, <1>SetupSame, Zenon DEF DidAside, Aside, SameEps, SameBus
<1>16. ASSUME KickCopy, DidCopy PROVE Safe
  <2>1. ~dev.pending
    BY <1>0, <1>00, <1>16, Zenon DEF DidCopy, Base, DevCore, CopySound, SetupSafe
  <2> QED BY <1>16, <2>1, Zenon DEF DidCopy, CopiedIs, Staged, SameBus, SameBusButCopying, SetupSafe
<1>17. ASSUME WorkRead \/ UNCHANGED vars PROVE Kept
  BY <1>17, Zenon DEF WorkRead, vars, SetupKept
<1>18. ASSUME WorkReset, DidReset PROVE Safe
  BY <1>18, Zenon DEF DidReset, ResetDone, AllReset, Acked, SameBus, SetupSafe
<1>19. ASSUME WorkTransfer, DidTransfer PROVE Safe
  <2>1. CASE "TRANSFER" \notin work.flags
    BY <1>0, <1>19, <2>1, Zenon DEF DidTransfer
  <2>2. CASE "TRANSFER" \in work.flags
    <3>1. PICK m : /\ IF dev.st.ep = "setup" THEN Superseded(dev, m) ELSE DataTransferred(dev, m, dev.st.ep)
                   /\ Acked(m, dev', {"TRANSFER"})
      BY <1>19, <2>2, Zenon DEF DidTransfer, Serviced
    <3>2. dev.st.ep \in Eps \cup {"setup"}
      BY <1>19, <2>2, Zenon DEF DidTransfer
    <3>3. SetupSafe(m)
      <4>1. CASE Superseded(dev, m)
        BY <4>1, Zenon DEF Superseded, SetupSafe
      <4>2. CASE dev.st.ep # "setup"
        BY <1>0, <3>1, <3>2, <4>2, <1>SetupData, <1>SetupStays
      <4> QED BY <3>1, <4>1, <4>2, Zenon
    <3> QED BY <3>1, <3>3, <1>SetupSame, <1>SetupStays, ZenonT(60) DEF Acked, SameEps, SameBus
  <2> QED BY <2>1, <2>2, Zenon
<1>20. ASSUME WorkSuspendAck, DidSuspendAck PROVE Kept
  BY <1>20, <1>SetupSame, Zenon DEF DidSuspendAck, Acked, SameEps, SameBus
<1>21. ASSUME WorkKick, DidKick PROVE Safe
  <2>1. PICK a, b, c : Kicked(dev, a, "out0") /\ Kicked(a, b, "in1") /\ Kicked(b, c, "out2") /\ CheckedIs(c, dev')
    BY <1>21, Zenon DEF DidKick, AllKicked
  <2>2. \A s, t : \A e \in Eps : SetupSafe(s) /\ Kicked(s, t, e) => SetupSafe(t)
    BY <1>SetupKick, <1>SetupStays, Zenon
  <2>3. SetupSafe(a)
    BY <1>0, <1>00, <2>1, <2>2, Zenon
  <2>4. SetupSafe(b)
    BY <1>00, <2>1, <2>2, <2>3, Zenon
  <2>5. SetupSafe(c)
    BY <1>00, <2>1, <2>2, <2>4, Zenon
  <2> QED BY <2>1, <2>5, <1>SetupSame, <1>SetupStays, Zenon DEF CheckedIs, SameEps, SameBusButCopying
<1>22. ASSUME NEW tk \in Eps \cup {"setup"}, Token(tk), DidToken(tk) PROVE Kept
  BY <1>22, <1>SetupSame, Zenon DEF DidToken, OnWire, SameEps, SameBusButSie
<1>23. ASSUME Lost \/ BusReset \/ BusSuspend, DidBus PROVE Kept
  BY <1>23, <1>SetupSame, Zenon DEF DidBus, OnWire, SameEps, SameBusButSie
<1>24. ASSUME NEW valid \in BOOLEAN, SetupArrives(valid), DidSetup PROVE Kept
  BY <1>24, <1>SetupSame, ZenonT(60)
  DEF DidSetup, SetupDone, LatchedIs, SameEpsButUnheard, SameBusButSie
<1>25. Kept \/ Safe
  BY <1>1, <1>2, <1>3, <1>4, <1>6, <1>7, <1>8, <1>9, <1>10, <1>11, <1>13, <1>14, <1>15,
     <1>16, <1>17, <1>18, <1>19, <1>20, <1>21, <1>22, <1>23, <1>24, Zenon DEF StepEffect
<1> QED BY <1>0, <1>25, <1>SetupStays, Zenon DEF SetupInv

(***************************************************************************)
(* A completion and the request it is credited to.                         *)
(***************************************************************************)

\* Every step keeps the reset invariant.
LEMMA ResetNext ==
  ASSUME Base, ResetInv, StepEffect
  PROVE  ResetInv'
\* So do the calls.
<1>ResetCalm.
      ASSUME NEW s, NEW t, NEW e \in Eps,
             IF LatchedFor(s, e) THEN t.fg = s.fg \ {"TRANSFER"} /\ t.st = NoToken
                                 ELSE SameLatch(s, t),
             t.sie = s.sie
      PROVE  ResetKept(s, t)
  <2> USE <1>ResetCalm
  <2>1. e # "setup"
    BY Zenon DEF Eps, Control, Bulk
  <2> QED BY <2>1, Zenon DEF ResetKept, LatchedFor, SameLatch
\* Every call of the stack leaves the reset to the worker.
<1>ResetCalls.
      ASSUME Base, NEW e \in Eps, CalledOn(e)
      PROVE  ResetKept(dev, dev')
  <2> USE <1>ResetCalls
  <2>0. dev \in Device
    BY Zenon DEF Base
  <2>1. ASSUME RefusedIs(dev, dev', e) PROVE ResetKept(dev, dev')
    BY <2>1, Zenon DEF RefusedIs, SameBus, SameLatch, ResetKept
  <2>2. ASSUME ApiEpDisable(e), DidEpDisable(e) PROVE ResetKept(dev, dev')
    <3>1. ASSUME EpDisabled(dev, dev', e) PROVE ResetKept(dev, dev')
      BY <2>0, <3>1, EpDisabledKeeps, <1>ResetCalm DEF SameBusButMode
    <3> QED BY <2>1, <2>2, <3>1, Zenon DEF DidEpDisable
  <2>3. ASSUME ApiDequeue(e), DidDequeue(e) PROVE ResetKept(dev, dev')
    <3>1. ASSUME Dequeued(dev, dev', e) PROVE ResetKept(dev, dev')
      BY <3>1, <1>ResetCalm, Zenon DEF Dequeued, SameBus
    <3> QED BY <2>1, <2>3, <3>1, Zenon DEF DidDequeue
  <2>4. ASSUME ApiHalt(e), DidHalt(e) PROVE ResetKept(dev, dev')
    <3>1. ASSUME Halted(dev, dev', e) PROVE ResetKept(dev, dev')
      <4>1. PICK m : Quiesced(dev, m, e, FALSE) /\ (dev' = m \/ Stalled(m, dev', e))
        BY <3>1, Zenon DEF Halted
      <4>2. ResetKept(dev, m)
        BY <4>1, <1>ResetCalm, Zenon DEF Quiesced, Credited, SameBus
      <4> QED BY <4>1, <4>2, Zenon DEF Stalled, SameBus, SameLatch, ResetKept
    <3> QED BY <2>1, <2>4, <3>1, Zenon DEF DidHalt
  <2>5. ASSUME ApiClearHalt(e), DidClearHalt(e) PROVE ResetKept(dev, dev')
    <3>1. PICK m : ToggleReset(dev, m, e) /\ Kicked(m, dev', e)
      BY <2>5, Zenon DEF DidClearHalt, HaltCleared
    <3> QED BY <3>1, Zenon DEF ToggleReset, Kicked, Staged, SameBus, SameLatch, ResetKept
  <2> QED BY <2>2, <2>3, <2>4, <2>5, Zenon DEF CalledOn
\* The same, for new requests.
<1>ResetEnqueued.
      ASSUME NEW s, NEW t, NEW e, NEW r, Enqueued(s, t, e, r)
      PROVE  ResetKept(s, t)
  <2> USE <1>ResetEnqueued
  <2>1. PICK m : PutIs(s, m, e, r) /\ (CheckedIs(m, t) \/ Kicked(m, t, e))
    BY Zenon DEF Enqueued
  <2>2. m.sie = s.sie /\ SameLatch(s, m)
    BY <2>1, Zenon DEF PutIs, OneEp, SameBus
  <2> QED BY <2>1, <2>2, Zenon
          DEF CheckedIs, SameBusButCopying, Kicked, Staged, SameBus, SameLatch, ResetKept
\* A call that neither configures an endpoint for the host nor ends a SETUP.
<1>ResetApi.
      ASSUME ResetInv, ResetKept(dev, dev'), work' = work, work.pc # "handle",
             "RESET" \in dev.fg => host'.conf \subseteq host.conf, host'.setup <=> host.setup
      PROVE  ResetInv'
  BY <1>ResetApi, Zenon DEF ResetInv, ResetKept
<1>0. /\ dev \in Device /\ WireCore(dev) /\ Mutex /\ work \in Work /\ host \in Host
  BY Zenon DEF Base, DevCore
<1>00. host.setup \in BOOLEAN /\ host.conf \subseteq Bulk
  BY <1>0, Zenon DEF Host
<1> DEFINE Goal == ResetInv'
<1>1. ASSUME NEW fault, ApiInit(fault), DidInit PROVE Goal
  <2>1. ResetKept(dev, dev')
    BY <1>1, Zenon DEF DidInit, Prepared0, NothingLatched, ResetKept
  <2>2. UNCHANGED <<work, host>> /\ work.pc # "handle"
    BY <1>1, Zenon DEF ApiInit, MutexFree
  <2> QED BY <2>1, <2>2, <1>ResetApi, Zenon
<1>2. ASSUME ApiEnable, DidEnable PROVE Goal
  <2>1. dev'.fg = {} /\ work' = work /\ work.pc # "handle"
    BY <1>2, Zenon DEF DidEnable, Attached, NothingLatched, ApiEnable, MutexFree
  <2> QED BY <2>1, Zenon DEF ResetInv
<1>3. ASSUME ApiDisable \/ ApiShutdown \/ WorkOverflow, DidDown PROVE Goal
  <2>1. dev'.fg = {}
    BY <1>3, Zenon DEF DidDown, Down, NothingLatched
  <2>2. work'.pc # "handle"
    BY <1>0, <1>3, Zenon DEF ApiDisable, ApiShutdown, WorkOverflow, Call, MutexFree, Work
  <2> QED BY <2>1, <2>2, Zenon DEF ResetInv
<1>4. ASSUME NEW e \in Eps, ApiEpEnable(e), DidEpEnable(e) PROVE Goal
  <2>1. ResetKept(dev, dev')
    BY <1>4, Zenon DEF DidEpEnable, EpEnabled, SameBusButMode, SameLatch, ResetKept
  <2>2. work' = work /\ work.pc # "handle"
    BY <1>4, Zenon DEF ApiEpEnable, MutexFree
  <2>3. "RESET" \in dev.fg => host' = host
    BY <1>4, Zenon DEF ApiEpEnable
  <2> QED BY <2>1, <2>2, <2>3, Zenon DEF ResetInv, ResetKept
<1>5. ASSUME NEW e \in Eps, CalledOn(e) PROVE Goal
  <2>1. ResetKept(dev, dev')
    BY <1>5, <1>ResetCalls, Zenon
  <2>2. work' = work /\ work.pc # "handle"
    BY <1>5, Zenon DEF CalledOn, ApiEpDisable, ApiDequeue, ApiHalt, ApiClearHalt, Call, MutexFree
  <2>3. host'.setup = host.setup /\ host'.conf \subseteq host.conf
    BY <1>0, <1>5, Zenon DEF CalledOn, ApiEpDisable, ApiDequeue, ApiHalt, ApiClearHalt, Host
  <2> QED BY <2>1, <2>2, <2>3, <1>ResetApi, Zenon
<1>6. ASSUME NEW e \in Eps, NEW size \in Sizes, NEW zlp \in BOOLEAN, ApiEnqueue(e, size, zlp), DidEnqueue(e) PROVE Goal
  <2>1. ResetKept(dev, dev')
    BY <1>6, <1>ResetEnqueued, Zenon DEF DidEnqueue
  <2>2. UNCHANGED <<work, host>> /\ work.pc # "handle"
    BY <1>6, Zenon DEF ApiEnqueue, MutexFree
  <2> QED BY <2>1, <2>2, <1>ResetApi, Zenon
<1>7. ASSUME ApiEnqueueSetup, DidEnqueueSetup PROVE Goal
  <2>1. ResetKept(dev, dev')
    <3>1. ASSUME NEW o, HandedOver(dev, dev', o) PROVE ResetKept(dev, dev')
      BY <3>1, Zenon DEF HandedOver, SameLatch, ResetKept
    <3> QED BY <1>7, <3>1, <1>ResetEnqueued, Zenon DEF DidEnqueueSetup
  <2>2. UNCHANGED <<work, host>> /\ work.pc # "handle"
    BY <1>7, Zenon DEF ApiEnqueueSetup, Call, MutexFree
  <2> QED BY <2>1, <2>2, <1>ResetApi, Zenon
<1>8. ASSUME (\E a \in 0..1 : wch_address(a)) \/ wch_isr \/ WorkSuspend \/ WorkUnmask, DidAside PROVE Goal
  <2>1. dev'.fg = dev.fg /\ dev'.st = dev.st /\ dev'.sie = dev.sie
    BY <1>8, Zenon DEF DidAside, Aside, SameBus, SameLatch
  <2>2. host' = host
    BY <1>8, Zenon DEF wch_address, wch_isr, WorkSuspend, WorkUnmask
  <2>3. work'.pc = "handle" => work'.flags = work.flags /\ work.pc = "handle"
    BY <1>0, <1>8, Zenon DEF wch_address, wch_isr, WorkSuspend, WorkUnmask, Work
  <2> QED BY <2>1, <2>2, <2>3, Zenon DEF ResetInv
<1>9. ASSUME KickCopy, DidCopy PROVE Goal
  <2>1. ResetKept(dev, dev')
    BY <1>9, Zenon DEF DidCopy, CopiedIs, Staged, SameBus, SameBusButCopying, SameLatch, ResetKept
  <2>2. UNCHANGED <<work, host>> /\ work.pc # "handle"
    BY <1>0, <1>9, Zenon DEF KickCopy, Mutex
  <2> QED BY <2>1, <2>2, <1>ResetApi, Zenon
<1>10. ASSUME WorkRead PROVE Goal
  <2>1. UNCHANGED <<dev, host>> /\ (work'.pc = "handle" => work'.flags = dev.fg)
    BY <1>0, <1>10, Zenon DEF WorkRead
  <2> QED BY <2>1, Zenon DEF ResetInv
<1>11. ASSUME UNCHANGED vars PROVE Goal
  BY <1>11, Zenon DEF vars, ResetInv
<1>12. ASSUME WorkReset, DidReset PROVE Goal
  <2>1. work'.pc # "handle" /\ "RESET" \notin dev'.fg
    BY <1>0, <1>12, Zenon DEF DidReset, WorkReset, ResetDone, Acked, Work
  <2> QED BY <2>1, Zenon DEF ResetInv
<1>13. ASSUME WorkTransfer, DidTransfer PROVE Goal
  <2>1. work'.pc # "handle" /\ host' = host
    BY <1>0, <1>13, Zenon DEF WorkTransfer, Work
  <2>2. CASE "TRANSFER" \notin work.flags
    BY <1>13, <2>1, <2>2, Zenon DEF DidTransfer, ResetInv
  <2>3. CASE "TRANSFER" \in work.flags
    <3>1. PICK m : /\ IF dev.st.ep = "setup" THEN Superseded(dev, m) ELSE DataTransferred(dev, m, dev.st.ep)
                   /\ Acked(m, dev', {"TRANSFER"})
      BY <1>13, <2>3, Zenon DEF DidTransfer, Serviced
    <3>2. m.sie = dev.sie /\ m.fg = dev.fg
      BY <3>1, Zenon DEF Superseded, DataTransferred, OneEp, SameBus, SameLatch
    <3>3. dev'.sie = dev.sie /\ dev'.fg \subseteq dev.fg
      BY <3>1, <3>2, Zenon DEF Acked, SameBus
    <3>4. work.pc = "handle" /\ "RESET" \notin work.flags
      BY <1>13, Zenon DEF DidTransfer
    <3> QED BY <2>1, <2>3, <3>3, <3>4, Zenon DEF ResetInv
  <2> QED BY <2>2, <2>3, Zenon
<1>14. ASSUME WorkSuspendAck, DidSuspendAck PROVE Goal
  <2>1. ResetKept(dev, dev') /\ dev'.fg \subseteq dev.fg
    BY <1>14, Zenon DEF DidSuspendAck, Acked, SameBus, ResetKept
  <2>2. host' = host /\ work'.pc # "handle"
    BY <1>0, <1>14, Zenon DEF WorkSuspendAck, Work
  <2> QED BY <2>1, <2>2, Zenon DEF ResetInv, ResetKept
<1>15. ASSUME WorkKick, DidKick PROVE Goal
  <2>1. PICK a, b, c : Kicked(dev, a, "out0") /\ Kicked(a, b, "in1") /\ Kicked(b, c, "out2") /\ CheckedIs(c, dev')
    BY <1>15, Zenon DEF DidKick, AllKicked
  <2>2. \A s, t, e : Kicked(s, t, e) => t.sie = s.sie /\ t.fg = s.fg /\ t.st = s.st
    BY DEF Kicked, Staged, SameBus, SameLatch
  <2>3. ResetKept(dev, dev')
    <3>1. c.sie = dev.sie /\ c.fg = dev.fg /\ c.st = dev.st
      BY <2>1, <2>2
    <3> QED BY <2>1, <3>1, Zenon DEF CheckedIs, SameBusButCopying, SameLatch, ResetKept
  <2>4. host' = host /\ work'.pc # "handle"
    BY <1>0, <1>15, Zenon DEF WorkKick, Work
  <2> QED BY <2>3, <2>4, Zenon DEF ResetInv, ResetKept
<1>16. ASSUME NEW tk \in Eps \cup {"setup"}, Token(tk), DidToken(tk) PROVE Goal
  <2>1. UNCHANGED <<work, host>> /\ OnWire(dev, dev', tk, {}) /\ "TRANSFER" \notin dev.fg
    BY <1>16, Zenon DEF DidToken, Token
  <2>2. "RESET" \in dev.fg => tk = "setup"
    <3>1. dev.st.ep # "setup"
      BY <1>0, <2>1, Zenon DEF WireCore
    <3> QED BY <1>16, <3>1, Zenon DEF DidToken, ResetInv
  <2> QED BY <2>1, <2>2, Zenon DEF ResetInv, OnWire
<1>17. ASSUME Lost \/ BusSuspend, DidBus PROVE Goal
  <2>1. /\ dev'.sie = "none" /\ dev'.st = dev.st
        /\ dev'.fg = dev.fg \cup {"SUSPEND"} \/ dev'.fg = dev.fg
    BY <1>17, Zenon DEF DidBus, OnWire
  <2>2. work' = work /\ host'.conf = host.conf /\ host'.setup = host.setup
    BY <1>0, <1>17, Zenon DEF Lost, BusSuspend, Host
  <2> QED BY <2>1, <2>2, Zenon DEF ResetInv
<1>18. ASSUME BusReset, DidBus PROVE Goal
  <2>1. dev'.sie = "none" /\ dev'.st = dev.st /\ dev'.fg = dev.fg \cup {"RESET"}
    BY <1>18, Zenon DEF DidBus, OnWire
  <2>2. work' = work /\ host'.conf = {} /\ ~host'.setup
    BY <1>0, <1>18, Zenon DEF BusReset, Host
  <2> QED BY <2>1, <2>2, Zenon DEF ResetInv
<1>19. ASSUME NEW e \in Eps, dev.sie = e, dev'.sie = "none", dev'.fg \ dev.fg \subseteq {"TRANSFER", "FIFO_OV"},
              work' = work, host'.conf = host.conf, host'.setup = host.setup
       PROVE  Goal
  <2>1. "RESET" \notin dev.fg
    BY <1>19, Zenon DEF ResetInv, Eps, Control, Bulk
  <2>2. work.pc = "handle" => "RESET" \notin work.flags
    BY <1>0, <2>1, Zenon DEF Mutex
  <2> QED BY <1>19, <2>1, <2>2 DEF ResetInv
<1>20. ASSUME NEW e \in Eps, InAcked(e), DidIn(e) PROVE Goal
  <2>1. PICK m : /\ TakenIs(dev, m, e)
                 /\ \/ \E k : AboutHead(dev, k, e) /\ ~k.bad /\ LatchedIs(m, dev', {"TRANSFER"}, k)
                    \/ UnheardIs(m, dev', e)
    BY <1>20, Zenon DEF DidIn, InDone
  <2>2. m.fg = dev.fg
    BY <2>1, Zenon DEF TakenIs, Replaced, OneEp, SameLatch
  <2>3. dev'.sie = "none" /\ dev'.fg \ dev.fg \subseteq {"TRANSFER", "FIFO_OV"}
    BY <2>1, <2>2, Zenon DEF LatchedIs, UnheardIs, SameLatch
  <2>4. work' = work /\ host'.conf = host.conf /\ host'.setup = host.setup
    BY <1>0, <1>20, Zenon DEF InAcked, Host
  <2> QED BY <1>19, <1>20, <2>3, <2>4, ZenonT(60) DEF DidIn
<1>21. ASSUME NEW e \in Eps, Out(e), DidOut(e) PROVE Goal
  <2>1. dev.sie = e /\ dev'.sie = "none" /\ dev'.fg \ dev.fg \subseteq {"TRANSFER", "FIFO_OV"}
    BY <1>21, Zenon DEF DidOut, OutDone, LatchedIs
  <2>2. work' = work /\ host'.conf = host.conf /\ host'.setup = host.setup
    BY <1>0, <1>21, Zenon DEF Out, OutArrives, Host
  <2> QED BY <1>19, <2>1, <2>2, Zenon
<1>22. ASSUME NEW valid \in BOOLEAN, SetupArrives(valid), DidSetup PROVE Goal
  <2>1. /\ dev.sie = "setup" /\ dev'.sie = "none" /\ dev'.st.ep = "setup"
        /\ dev'.fg = dev.fg \cup {"TRANSFER"}
    BY <1>22, Zenon DEF DidSetup, SetupDone, LatchedIs
  <2>2. work' = work /\ host'.conf = host.conf
    BY <1>0, <1>22, Zenon DEF SetupArrives, Host
  <2>3. "TRANSFER" \notin dev.fg
    BY <1>0, <2>1, Zenon DEF WireCore
  <2>4. work.pc = "handle" => "TRANSFER" \notin work.flags
    BY <1>0, <2>3, Zenon DEF Mutex
  <2> QED BY <2>1, <2>2, <2>4, Zenon DEF ResetInv
<1> QED BY <1>1, <1>2, <1>3, <1>4, <1>5, <1>6, <1>7, <1>8, <1>9, <1>10, <1>11, <1>12, <1>13,
           <1>14, <1>15, <1>16, <1>17, <1>18, <1>20, <1>21, <1>22, ZenonT(60) DEF StepEffect, CalledOn

\* Every step keeps the credit.
LEMMA CreditNext ==
  ASSUME Base, ResetInv, CreditInv, StepEffect
  PROVE  CreditInv'
\* A step on one endpoint leaves the others their credit.
<1>CreditElsewhere.
      ASSUME NEW s, NEW t, NEW e \in Eps, Local(s, t, e), CreditSafe(s), EpCredit(t, e),
             t.on => s.on, t.mode \subseteq s.mode \cup {e}, Free(s) => Free(t),
             t.sie = "none" \/ t.sie = s.sie,
             "TRANSFER" \in t.fg => SameLatch(s, t)
      PROVE  CreditSafe(t)
  <2> USE <1>CreditElsewhere
  <2> SUFFICES ASSUME NEW g \in Eps PROVE EpCredit(t, g)
    BY Zenon DEF CreditSafe
  <2>1. CASE g = e
    BY <2>1, Zenon
  <2>2. CASE g # e
    <3>1. /\ t.ep[g] = s.ep[g] /\ t.ctl[g] = s.ctl[g] /\ t.q[g] = s.q[g]
      BY <2>2, Zenon DEF Local
    <3>2. EpCredit(s, g)
      BY Zenon DEF CreditSafe
    <3>3. Held(s, g) => Held(t, g)
      BY <3>1, Zenon DEF Held
    <3>4. Answers(t, g) => Answers(s, g)
      BY <2>2, <3>1, Zenon DEF Answers
    <3>5. t.sie = g => s.sie = g
      BY Zenon DEF Eps, Control, Bulk
    <3>6. LatchedFor(t, g) => LatchedFor(s, g) /\ t.st = s.st
      BY Zenon DEF LatchedFor, SameLatch
    <3> QED BY <3>1, <3>2, <3>3, <3>4, <3>5, <3>6, ZenonT(60) DEF EpCredit
  <2> QED BY <2>1, <2>2, Zenon
\* A step that leaves the endpoints alone and takes no token.
<1>CreditSame.
      ASSUME NEW s, NEW t, CreditSafe(s), t.ep = s.ep, t.ctl = s.ctl, t.q = s.q,
             t.on => s.on, t.mode \subseteq s.mode, Free(s) => Free(t),
             t.sie = "none" \/ t.sie = s.sie, "TRANSFER" \in t.fg => "TRANSFER" \in s.fg /\ t.st = s.st
      PROVE  CreditSafe(t)
  <2> USE <1>CreditSame
  <2> SUFFICES ASSUME NEW g \in Eps PROVE EpCredit(t, g)
    BY Zenon DEF CreditSafe
  <2>1. EpCredit(s, g)
    BY Zenon DEF CreditSafe
  <2>2. (Held(s, g) => Held(t, g)) /\ (Answers(t, g) => Answers(s, g))
    BY Zenon DEF Held, Answers
  <2>3. t.sie = g => s.sie = g
    BY Zenon DEF Eps, Control, Bulk
  <2> QED BY <2>1, <2>2, <2>3, Zenon DEF EpCredit, LatchedFor
\* An outcome is latched: the token was answered for a held endpoint.
<1>CreditLatch.
      ASSUME NEW s, NEW t, NEW flags, NEW k, NEW e, CreditSafe(s), k.ep = e, LatchedIs(s, t, flags, k),
             e \in Eps => IF s.ep[e].busy THEN Head(s.q[e]).id = k.id ELSE Held(s, e)
      PROVE  CreditSafe(t)
  <2> USE <1>CreditLatch
  <2> SUFFICES ASSUME NEW g \in Eps PROVE EpCredit(t, g)
    BY Zenon DEF CreditSafe
  <2>1. EpCredit(s, g)
    BY Zenon DEF CreditSafe
  <2>2. (Held(s, g) => Held(t, g)) /\ (Answers(t, g) => Answers(s, g))
    BY Zenon DEF Held, Answers, Free, LatchedIs, SameEpsButUnheard, SameBusButSie
  <2>3. t.sie # g
    BY Zenon DEF Eps, Control, Bulk, LatchedIs
  <2>4. LatchedFor(t, g) => g = e /\ t.st.id = k.id /\ t.q = s.q /\ t.ep = s.ep
    BY Zenon DEF LatchedFor, LatchedIs, SameEpsButUnheard
  <2> QED BY <2>1, <2>2, <2>3, <2>4, Zenon DEF EpCredit
\* The controller takes a token.
<1>CreditToken.
      ASSUME NEW s, NEW t, NEW tk \in Eps \cup {"setup"}, CreditSafe(s), OnWire(s, t, tk, {}),
             tk \in Eps => Answers(s, tk)
      PROVE  CreditSafe(t)
  <2> USE <1>CreditToken
  <2> SUFFICES ASSUME NEW g \in Eps PROVE EpCredit(t, g)
    BY Zenon DEF CreditSafe
  <2>1. EpCredit(s, g)
    BY Zenon DEF CreditSafe
  <2>2. (Held(s, g) <=> Held(t, g)) /\ (Answers(t, g) <=> Answers(s, g))
    BY Zenon DEF Held, Answers, Free, OnWire, SameEps, SameBusButSie
  <2>3. t.sie = g => Answers(s, g)
    BY Zenon DEF OnWire
  <2>4. LatchedFor(t, g) => LatchedFor(s, g) /\ t.st = s.st /\ t.q = s.q /\ t.ep = s.ep
    BY Zenon DEF LatchedFor, OnWire, SameEps
  <2> QED BY <2>1, <2>2, <2>3, <2>4, Zenon DEF EpCredit
\* The host takes a packet.
<1>CreditTaken.
      ASSUME NEW s, NEW t, NEW e \in Eps, CreditSafe(s), TakenIs(s, t, e)
      PROVE  CreditSafe(t)
  <2> USE <1>CreditTaken
  <2>1. CASE t = s
    BY <2>1, Zenon
  <2>2. CASE t # s
    <3>1. PICK r \in Requests : TakenBy(Head(s.q[e]), r) /\ Replaced(s, t, e, r)
      BY <2>2, Zenon DEF TakenIs
    <3>2. /\ Local(s, t, e) /\ SameBus(s, t) /\ SameLatch(s, t) /\ t.ep = s.ep /\ t.ctl = s.ctl
          /\ Head(t.q[e]).id = Head(s.q[e]).id
      BY <3>1, Zenon DEF Replaced, OneEp, TakenBy
    <3>3. EpCredit(t, e)
      <4>1. (Held(s, e) <=> Held(t, e)) /\ (Answers(s, e) <=> Answers(t, e))
        BY <3>2, Zenon DEF Held, Answers, Free, SameBus
      <4> QED BY <3>2, <4>1, Zenon DEF CreditSafe, EpCredit, LatchedFor, SameBus, SameLatch
    <3> QED BY <3>2, <3>3, <1>CreditElsewhere, Zenon DEF SameBus, Free
  <2> QED BY <2>1, <2>2, Zenon
\* A request is queued behind the others.
<1>CreditPut.
      ASSUME NEW s \in Device, NEW t, NEW e \in Eps, NEW r \in Requests, CreditSafe(s), EpSound(s, e),
             PutIs(s, t, e, r)
      PROVE  CreditSafe(t)
  <2> USE <1>CreditPut
  <2>1. /\ Local(s, t, e) /\ SameBus(s, t) /\ SameLatch(s, t) /\ t.ep = s.ep /\ t.ctl = s.ctl
        /\ s.q[e] \in Seq(Requests) /\ t.q[e] = Append(s.q[e], r)
    BY Fields, Zenon DEF PutIs, OneEp
  <2>2. s.ep[e].busy => Head(t.q[e]) = Head(s.q[e])
    <3>1. s.ep[e].busy => s.q[e] # <<>>
      BY Zenon DEF EpSound
    <3>2. s.q[e] \in Seq(Requests) /\ t.q[e] = Append(s.q[e], r)
      BY <2>1, Zenon
    <3> QED BY ONLY <3>1, <3>2, r \in Requests
  <2>3. EpCredit(t, e)
    <3>1. (Held(s, e) <=> Held(t, e)) /\ (Answers(s, e) <=> Answers(t, e))
      BY <2>1, Zenon DEF Held, Answers, Free, SameBus
    <3> QED BY <2>1, <2>2, <3>1, Zenon DEF CreditSafe, EpCredit, LatchedFor, SameBus, SameLatch
  <2> QED BY <2>1, <2>3, <1>CreditElsewhere, Zenon DEF SameBus, Free
\* A packet is staged for an endpoint that was not held.
<1>CreditStage.
      ASSUME NEW s, NEW t, NEW e \in Eps, CreditSafe(s), ~Held(s, e), Staged(s, t, e)
      PROVE  CreditSafe(t)
  <2> USE <1>CreditStage
  <2>1. /\ Local(s, t, e) /\ SameBus(s, t) /\ SameLatch(s, t) /\ Held(t, e)
    BY Zenon DEF Staged, Held
  <2>2. ~LatchedFor(t, e)
    BY <2>1, Zenon DEF CreditSafe, EpCredit, LatchedFor, SameLatch, Held
  <2>3. EpCredit(t, e)
    BY <2>1, <2>2, Zenon DEF EpCredit
  <2> QED BY <2>1, <2>3, <1>CreditElsewhere, Zenon DEF SameBus, Free
\* wch_kick.
<1>CreditKick.
      ASSUME NEW s \in Device, NEW t, NEW e \in Eps, CreditSafe(s), FreeSafe(s), Kicked(s, t, e)
      PROVE  CreditSafe(t)
  <2> USE <1>CreditKick
  <2>1. CASE t = s
    BY <2>1, Zenon
  <2>2. CASE t # s
    <3>1. Startable(s, e) /\ Staged(s, t, e)
      BY <2>2, Zenon DEF Kicked
    <3>2. ~Held(s, e)
      <4>1. ~s.ep[e].busy /\ s.q[e] # <<>> /\ ~Head(s.q[e]).setup
        BY <3>1, Zenon DEF Startable
      <4>2. s.q[e][1] = Head(s.q[e]) /\ 1 \in DOMAIN s.q[e]
        BY <4>1, Fields, First, Zenon
      <4>3. e = "out0" => ~Free(s)
        BY <4>1, <4>2, Zenon DEF FreeSafe, Control
      <4> QED BY <4>1, <4>3, Zenon DEF Held
    <3> QED BY <3>1, <3>2, <1>CreditStage, Zenon
  <2> QED BY <2>1, <2>2, Zenon
\* A quiesced endpoint, the serial engine free.
<1>CreditCalm.
      ASSUME NEW s, NEW t, NEW e \in Eps, CreditSafe(s), Local(s, t, e), t.sie = "none", t.ctl[e].r # "ACK",
             IF LatchedFor(s, e) THEN t.fg = s.fg \ {"TRANSFER"} /\ t.st = NoToken
                                 ELSE SameLatch(s, t),
             t.on => s.on, t.mode \subseteq s.mode, Free(s) => Free(t)
      PROVE  CreditSafe(t)
  <2> USE <1>CreditCalm
  <2>1. ~LatchedFor(t, e) /\ ("TRANSFER" \in t.fg => SameLatch(s, t))
    BY Zenon DEF LatchedFor, SameLatch
  <2>2. EpCredit(t, e)
    <3>1. ~Answers(t, e) /\ t.sie # e
      BY Zenon DEF Answers, Eps, Control, Bulk
    <3> QED BY <2>1, <3>1, Zenon DEF EpCredit
  <2> QED BY <2>1, <2>2, <1>CreditElsewhere, Zenon
\* A packet is credited and the latch given up.
<1>CreditData.
      ASSUME NEW s, NEW m, NEW t, NEW e \in Eps, CreditSafe(s), s.sie = "none",
             DataTransferred(s, m, e), Acked(m, t, {"TRANSFER"})
      PROVE  CreditSafe(t)
  <2> USE <1>CreditData
  <2>1. /\ t.ep = m.ep /\ t.ctl = m.ctl /\ t.q = m.q /\ SameBus(m, t) /\ "TRANSFER" \notin t.fg
    BY Zenon DEF Acked, SameEps
  <2>2. CASE m = s
    BY <2>1, <2>2, <1>CreditSame, Zenon DEF SameBus, Free
  <2>3. CASE m # s
    <3>1. s.ep[e].busy
      BY <2>3, Zenon DEF DataTransferred
    <3>2. Local(s, m, e) /\ SameBus(s, m)
      BY Zenon DEF DataTransferred, OneEp
    <3>3. m.ctl[e].r = "ACK" => m.ep[e].busy
      <4>1. CASE IsIn(e)
        BY <3>1, <4>1, Zenon DEF DataTransferred, SentPacket
      <4>2. CASE ~IsIn(e) /\ s.st.ok
        BY <3>1, <4>2, Zenon DEF DataTransferred, ReceivedPacket
      <4>3. CASE ~IsIn(e) /\ ~s.st.ok
        <5>1. m.ep = s.ep
          BY <3>1, <4>3, Zenon DEF DataTransferred, IgnoredPacket, Replaced
        <5> QED BY <3>1, <5>1, Zenon
      <4> QED BY <4>1, <4>2, <4>3, Zenon
    <3>4. CreditSafe(t)
      <4> SUFFICES ASSUME NEW g \in Eps PROVE EpCredit(t, g)
        BY Zenon DEF CreditSafe
      <4>0. ~LatchedFor(t, g) /\ t.sie # g
        BY <2>1, <3>2, Zenon DEF LatchedFor, SameBus, Eps, Control, Bulk
      <4>1. CASE g = e
        BY <2>1, <3>3, <4>0, <4>1, Zenon DEF EpCredit, Answers, Held
      <4>2. CASE g # e
        <5>1. (Held(s, g) => Held(t, g)) /\ (Answers(t, g) => Answers(s, g))
          <6>1. t.ep[g] = s.ep[g] /\ t.ctl[g] = s.ctl[g]
            BY <2>1, <3>2, <4>2, Zenon DEF Local
          <6>2. t.mode = s.mode /\ t.on = s.on /\ t.taken = s.taken /\ t.pending = s.pending
            BY <2>1, <3>2, Zenon DEF SameBus
          <6> QED BY ONLY <6>1, <6>2, Zenon DEF Held, Answers, Free
        <5> QED BY <4>0, <5>1, Zenon DEF CreditSafe, EpCredit
      <4> QED BY <4>1, <4>2, Zenon
    <3> QED BY <3>4, Zenon
  <2> QED BY <2>2, <2>3, Zenon
\* Steps that leave the control queues alone, or empty them.
<1>FreeStays.
      ASSUME NEW s, NEW t, FreeSafe(s), t.taken = s.taken, t.pending = s.pending,
             Free(s) => \A g \in Control : t.q[g] = s.q[g] \/ t.q[g] = <<>>
      PROVE  FreeSafe(t)
  <2> USE <1>FreeStays
  <2>1. DOMAIN <<>> = {}
    OBVIOUS
  <2> QED BY <2>1, Zenon DEF FreeSafe, Free
\* Steps on a bulk endpoint do.
<1>FreeLocal.
      ASSUME NEW s, NEW t, NEW e \in Eps, FreeSafe(s), Local(s, t, e), t.taken = s.taken, t.pending = s.pending,
             Free(s) /\ e \in Control => t.q[e] = s.q[e] \/ t.q[e] = <<>>
      PROVE  FreeSafe(t)
  <2> USE <1>FreeLocal
  <2>1. \A g \in Control : g \in Eps
    BY Zenon DEF Eps
  <2> QED BY <2>1, <1>FreeStays, Zenon DEF Local
\* A control endpoint with data under way is not free.
<1>FreeBusy.
      ASSUME NEW s \in Device, NEW e \in Control, FreeSafe(s), EpSound(s, e), s.ep[e].busy
      PROVE  ~Free(s)
  <2> USE <1>FreeBusy
  <2>1. e \in Eps
    BY Zenon DEF Eps
  <2>2. s.q[e] # <<>> /\ ~Head(s.q[e]).setup /\ s.q[e] \in Seq(Requests)
    BY <2>1, Fields, Zenon DEF EpSound
  <2>3. 1 \in DOMAIN s.q[e] /\ s.q[e][1] = Head(s.q[e])
    BY <2>2, First, Zenon
  <2> QED BY <2>2, <2>3, Zenon DEF FreeSafe
\* The host takes a packet: the request stays what it is.
<1>FreeTaken.
      ASSUME NEW s \in Device, NEW t, NEW e \in Eps, FreeSafe(s), TakenIs(s, t, e)
      PROVE  FreeSafe(t)
  <2> USE <1>FreeTaken
  <2>1. CASE t = s
    BY <2>1, Zenon
  <2>2. CASE t # s
    <3>1. PICK r \in Requests : TakenBy(Head(s.q[e]), r) /\ Replaced(s, t, e, r) /\ s.q[e] # <<>>
      BY <2>2, Zenon DEF TakenIs
    <3>2. /\ Local(s, t, e) /\ t.taken = s.taken /\ t.pending = s.pending
          /\ t.q[e] = [s.q[e] EXCEPT ![1] = r] /\ r.setup = Head(s.q[e]).setup
      BY <3>1, Zenon DEF Replaced, OneEp, TakenBy, SameBus
    <3>3. s.q[e] \in Seq(Requests)
      BY Fields, Zenon
    <3>4. /\ DOMAIN t.q[e] = DOMAIN s.q[e]
          /\ \A i \in DOMAIN s.q[e] : t.q[e][i].setup = s.q[e][i].setup
      BY <3>1, <3>2, <3>3, First, Zenon
    <3>5. \A g \in Control : g \in Eps
      BY Zenon DEF Eps
    <3>6. Free(t) <=> Free(s)
      BY <3>2, Zenon DEF Free
    <3>7. ASSUME Free(t), NEW g \in Control, NEW i \in DOMAIN t.q[g] PROVE t.q[g][i].setup
      <4>1. CASE g = e
        BY <3>4, <3>6, <3>7, <4>1, Zenon DEF FreeSafe
      <4>2. CASE g # e
        <5>1. t.q[g] = s.q[g]
          BY <3>2, <3>5, <4>2, Zenon DEF Local
        <5> QED BY <3>6, <3>7, <5>1, Zenon DEF FreeSafe
      <4> QED BY <4>1, <4>2, Zenon
    <3> QED BY <3>7, Zenon DEF FreeSafe
  <2> QED BY <2>1, <2>2, Zenon
\* A request is queued: a setup request, or data of a control transfer.
<1>FreePut.
      ASSUME NEW s \in Device, NEW t, NEW e \in Eps, NEW r \in Requests, FreeSafe(s), PutIs(s, t, e, r),
             e \in Control => r.setup \/ s.taken
      PROVE  FreeSafe(t)
  <2> USE <1>FreePut
  <2>1. Local(s, t, e) /\ t.taken = s.taken /\ t.pending = s.pending /\ t.q[e] = Append(s.q[e], r)
    BY Zenon DEF PutIs, OneEp, SameBus
  <2>2. s.q[e] \in Seq(Requests)
    BY Fields, Zenon
  <2>3. \A i \in DOMAIN t.q[e] : (i \in DOMAIN s.q[e] /\ t.q[e][i] = s.q[e][i]) \/ t.q[e][i] = r
    BY <2>1, <2>2
  <2>4. \A g \in Control : g \in Eps
    BY Zenon DEF Eps
  <2>5. (Free(t) <=> Free(s)) /\ (Free(s) => ~s.taken)
    BY <2>1, Zenon DEF Free
  <2>6. ASSUME Free(t), NEW g \in Control, NEW i \in DOMAIN t.q[g] PROVE t.q[g][i].setup
    <3>1. CASE g = e
      <4>1. r.setup
        BY <2>5, <2>6, <3>1, Zenon
      <4>2. i \in DOMAIN s.q[g] => s.q[g][i].setup
        BY <2>5, <2>6, Zenon DEF FreeSafe
      <4> QED BY <2>3, <2>6, <3>1, <4>1, <4>2, Zenon
    <3>2. CASE g # e
      <4>1. t.q[g] = s.q[g]
        BY <2>1, <2>4, <3>2, Zenon DEF Local
      <4> QED BY <2>5, <2>6, <4>1, Zenon DEF FreeSafe
    <3> QED BY <3>1, <3>2, Zenon
  <2> QED BY <2>6, Zenon DEF FreeSafe
\* A call that gives up with -EBUSY.
<1>CreditRefused.
      ASSUME NEW s, NEW t, NEW e \in Eps, CreditSafe(s), FreeSafe(s), RefusedIs(s, t, e)
      PROVE  CreditSafe(t) /\ FreeSafe(t)
  <2> USE <1>CreditRefused
  <2>1. Local(s, t, e) /\ SameBus(s, t) /\ SameLatch(s, t) /\ t.ep = s.ep /\ t.q = s.q /\ t.ctl[e].r = "NAK"
    BY Zenon DEF RefusedIs
  <2>2. EpCredit(t, e)
    <3>1. ~Answers(t, e) /\ (Held(s, e) <=> Held(t, e))
      BY <2>1, Zenon DEF Answers, Held, Free, SameBus
    <3> QED BY <2>1, <3>1, Zenon DEF CreditSafe, EpCredit, LatchedFor, SameBus, SameLatch
  <2>3. CreditSafe(t)
    BY <2>1, <2>2, <1>CreditElsewhere, Zenon DEF SameBus, Free
  <2>4. FreeSafe(t)
    BY <2>1, <1>FreeStays, Zenon DEF SameBus
  <2> QED BY <2>3, <2>4, Zenon
\* wch_dequeue, wch_ep_disable and the quiescing part of wch_halt.
<1>CreditQuiet.
      ASSUME NEW s \in Device, NEW t, NEW e \in Eps, CreditSafe(s), FreeSafe(s), WireCore(s), SieFree(s),
             Local(s, t, e), SameBusButMode(s, t), t.mode \subseteq s.mode, t.ctl[e].r # "ACK",
             IF LatchedFor(s, e) THEN t.fg = s.fg \ {"TRANSFER"} /\ t.st = NoToken ELSE SameLatch(s, t),
             Free(s) /\ e \in Control => t.q[e] = s.q[e] \/ t.q[e] = <<>>
      PROVE  CreditSafe(t) /\ FreeSafe(t)
  <2> USE <1>CreditQuiet
  <2>1. s.sie = "none"
    BY Zenon DEF SieFree, WireCore
  <2>2. CreditSafe(t)
    BY <2>1, <1>CreditCalm, Zenon DEF SameBusButMode, Free
  <2>3. FreeSafe(t)
    BY <1>FreeLocal, Zenon DEF SameBusButMode
  <2> QED BY <2>2, <2>3, Zenon
\* wch_halt.
<1>CreditHalt.
      ASSUME NEW s \in Device, NEW t, NEW e \in Eps, CreditSafe(s), FreeSafe(s), WireCore(s), EpSound(s, e),
             SieFree(s), Halted(s, t, e)
      PROVE  CreditSafe(t) /\ FreeSafe(t)
  <2> USE <1>CreditHalt
  <2>1. PICK m : Quiesced(s, m, e, FALSE) /\ (t = m \/ Stalled(m, t, e))
    BY Zenon DEF Halted
  <2>2. /\ m \in Device /\ Local(s, m, e) /\ SameBus(s, m) /\ m.ctl[e].r = "NAK" /\ Credited(s, m, e, FALSE)
    BY <2>1, Zenon DEF Quiesced
  <2>3. Free(s) /\ e \in Control => m.q[e] = s.q[e]
    <3> SUFFICES ASSUME Free(s), e \in Control PROVE m.q[e] = s.q[e]
      BY Zenon
    <3>1. ~s.ep[e].busy
      BY <1>FreeBusy, Zenon
    <3>2. CASE LatchedFor(s, e)
      <4>1. PICK n, u : Responded(s, n, e, "NAK") /\ DataTransferred(n, u, e) /\ m.q = u.q
        BY <2>2, <3>2, Zenon DEF Credited
      <4> QED BY <3>1, <4>1, Zenon DEF Responded, DataTransferred
    <3>3. CASE ~LatchedFor(s, e)
      BY <2>2, <3>3, Zenon DEF Credited
    <3> QED BY <3>2, <3>3, Zenon
  <2>4. /\ Local(s, t, e) /\ SameBus(s, t) /\ t.ctl[e].r # "ACK" /\ t.fg = m.fg /\ t.st = m.st /\ t.q = m.q
    <3>1. CASE t = m
      BY <2>2, <3>1, Zenon
    <3>2. CASE Stalled(m, t, e)
      <4>1. Local(s, t, e)
        BY <2>2, <3>2, LocalTrans, Zenon DEF Stalled
      <4> QED BY <2>2, <3>2, <4>1, Zenon DEF Stalled, SameBus, SameLatch
    <3> QED BY <2>1, <3>1, <3>2, Zenon
  <2>5. IF LatchedFor(s, e) THEN t.fg = s.fg \ {"TRANSFER"} /\ t.st = NoToken ELSE SameLatch(s, t)
    BY <2>2, <2>4, Zenon DEF Credited, SameLatch
  <2>6. SameBusButMode(s, t) /\ t.mode \subseteq s.mode
    BY <2>4, Zenon DEF SameBus, SameBusButMode
  <2>7. Free(s) /\ e \in Control => t.q[e] = s.q[e] \/ t.q[e] = <<>>
    BY <2>3, <2>4, Zenon
  <2> QED BY <2>4, <2>5, <2>6, <2>7, <1>CreditQuiet, Zenon
\* wch_kick, for both.
<1>CreditKicked.
      ASSUME NEW s \in Device, NEW t, NEW e \in Eps, CreditSafe(s), FreeSafe(s), Kicked(s, t, e)
      PROVE  t \in Device /\ CreditSafe(t) /\ FreeSafe(t)
  <2> USE <1>CreditKicked
  <2>1. t \in Device /\ CreditSafe(t)
    BY <1>CreditKick, Zenon DEF Kicked, Staged
  <2>2. FreeSafe(t)
    <3>1. CASE t = s
      BY <3>1, Zenon
    <3>2. CASE Staged(s, t, e)
      BY <3>2, <1>FreeLocal, Zenon DEF Staged, SameBus
    <3> QED BY <3>1, <3>2, Zenon DEF Kicked
  <2> QED BY <2>1, <2>2, Zenon
\* A new request.
<1>CreditEnqueued.
      ASSUME NEW s \in Device, NEW t, NEW e \in Eps, NEW r \in Requests, CreditSafe(s), FreeSafe(s),
             EpSound(s, e), e \in Control => r.setup \/ s.taken, Enqueued(s, t, e, r)
      PROVE  CreditSafe(t) /\ FreeSafe(t)
  <2> USE <1>CreditEnqueued
  <2>1. PICK m : PutIs(s, m, e, r) /\ (CheckedIs(m, t) \/ Kicked(m, t, e))
    BY Zenon DEF Enqueued
  <2>2. m \in Device /\ CreditSafe(m) /\ FreeSafe(m)
    BY <2>1, <1>CreditPut, <1>FreePut, Zenon DEF PutIs, OneEp
  <2>3. CASE CheckedIs(m, t)
    <3>1. CreditSafe(t)
      BY <2>2, <2>3, <1>CreditSame, Zenon DEF CheckedIs, SameEps, SameBusButCopying, SameLatch, Free
    <3>2. FreeSafe(t)
      BY <2>2, <2>3, <1>FreeStays, Zenon DEF CheckedIs, SameEps, SameBusButCopying
    <3> QED BY <3>1, <3>2, Zenon
  <2>4. CASE Kicked(m, t, e)
    BY <2>2, <2>4, <1>CreditKicked, Zenon
  <2> QED BY <2>1, <2>3, <2>4, Zenon
<1>0. /\ dev \in Device /\ CreditSafe(dev) /\ FreeSafe(dev) /\ WireCore(dev) /\ Mutex
      /\ \A e \in Eps : EpSound(dev, e)
  BY Zenon DEF Base, DevCore, CreditInv
<1>00. /\ "in0" \in Eps /\ "out0" \in Eps /\ "in1" \in Eps /\ "out2" \in Eps
       /\ \A g \in Eps : g # "none" /\ g # "setup"
  BY Zenon DEF Eps, Control, Bulk
<1> DEFINE Safe == CreditSafe(dev') /\ FreeSafe(dev')
<1>1. ASSUME NEW fault, ApiInit(fault), DidInit PROVE Safe
  <2>1. CASE dev' = dev
    BY <1>0, <2>1, Zenon
  <2>2. CASE Prepared0(dev, dev')
    <3>1. /\ ~dev'.on /\ dev'.mode = {} /\ "TRANSFER" \notin dev'.fg
          /\ \A g \in Eps : dev'.q[g] = <<>>
          /\ dev'.sie = dev.sie /\ dev'.pending = dev.pending /\ dev'.taken = dev.taken
      BY <2>2, Zenon DEF Prepared0, NothingLatched
    <3>2. ~dev.pending /\ ~dev.taken /\ dev.sie = "none"
      BY <1>0, <1>1, Zenon DEF DidInit, Mutex, WireCore
    <3>3. ASSUME NEW g \in Eps PROVE EpCredit(dev', g)
      <4>1. Answers(dev', g) => g = "out0"
        BY <3>1, Zenon DEF Answers, Eps, Control
      <4> QED BY <1>00, <3>1, <3>2, <4>1, Zenon DEF EpCredit, Held, Free, LatchedFor
    <3>4. FreeSafe(dev')
      BY <1>0, <3>1, <1>FreeStays, Zenon DEF Eps
    <3> QED BY <3>3, <3>4, Zenon DEF CreditSafe
  <2> QED BY <1>1, <2>1, <2>2, Zenon DEF DidInit
<1>2. ASSUME ApiEnable, DidEnable PROVE Safe
  <2>1. Attached(dev, dev') /\ ~dev.running /\ stack = "init"
    BY <1>2, Zenon DEF DidEnable
  <2>2. ~dev.pending /\ ~dev.taken /\ dev.sie = "none"
    BY <1>0, <2>1, Zenon DEF Mutex, WireCore
  <2>3. ASSUME NEW g \in Eps PROVE EpCredit(dev', g)
    <3>1. dev'.sie # g /\ ~LatchedFor(dev', g)
      BY <1>00, <2>1, <2>2, Zenon DEF Attached, NothingLatched, LatchedFor
    <3>2. CASE g \in Bulk
      <4>1. Answers(dev', g) => Answers(dev, g)
        BY <2>1, <3>2, Zenon DEF Attached, Answers, Bulk
      <4>2. Held(dev, g) => Held(dev', g)
        BY <2>1, Zenon DEF Attached, Held, Free
      <4> QED BY <1>0, <3>1, <4>1, <4>2, Zenon DEF CreditSafe, EpCredit
    <3>3. CASE g = "in0"
      BY <2>1, <3>1, <3>3, Zenon DEF Attached, Answers, EpCredit
    <3>4. CASE g = "out0"
      BY <2>1, <2>2, <3>1, <3>4, Zenon DEF Attached, Held, Free, EpCredit
    <3> QED BY <3>2, <3>3, <3>4, Zenon DEF Eps, Control
  <2>4. FreeSafe(dev')
    BY <1>0, <2>1, <1>FreeStays, Zenon DEF Attached
  <2> QED BY <2>3, <2>4, Zenon DEF CreditSafe
<1>3. ASSUME ApiDisable \/ ApiShutdown \/ WorkOverflow, DidDown PROVE Safe
  <2>1. Down(dev, dev')
    BY <1>3, Zenon DEF DidDown
  <2>2. ASSUME NEW g \in Eps PROVE EpCredit(dev', g)
    BY <1>00, <2>1, Zenon DEF Down, EpIdle, NothingLatched, EpCredit, Answers, LatchedFor
  <2>3. \A g \in Control : dev'.q[g] = <<>>
    BY <2>1, Zenon DEF Down, EpIdle, Eps
  <2>4. DOMAIN <<>> = {}
    OBVIOUS
  <2> QED BY <2>2, <2>3, <2>4, Zenon DEF CreditSafe, FreeSafe
<1>4. ASSUME NEW e \in Eps, ApiEpEnable(e), DidEpEnable(e) PROVE Safe
  <2>1. e \in Bulk /\ ~dev.ep[e].enabled /\ EpEnabled(dev, dev', e)
    BY <1>4, Zenon DEF DidEpEnable
  <2>2. ~Held(dev, e)
    BY <1>0, <2>1, Zenon DEF EpSound, Held, Bulk
  <2>3. /\ Local(dev, dev', e) /\ SameBusButMode(dev, dev') /\ SameLatch(dev, dev')
        /\ dev'.mode \subseteq dev.mode \cup {e} /\ dev'.ctl[e].r = "NAK" /\ dev'.q = dev.q
    BY <2>1, Zenon DEF EpEnabled, Bulk
  <2>4. dev.sie # e /\ ~LatchedFor(dev, e)
    BY <1>0, <2>2, Zenon DEF CreditSafe, EpCredit, Held
  <2>5. EpCredit(dev', e)
    BY <2>3, <2>4, Zenon DEF EpCredit, Answers, LatchedFor, SameBusButMode, SameLatch
  <2>6. CreditSafe(dev')
    BY <1>0, <2>3, <2>5, <1>CreditElsewhere, Zenon DEF SameBusButMode, Free
  <2> QED BY <1>0, <2>3, <2>6, <1>FreeStays, Zenon DEF SameBusButMode
<1>5. ASSUME NEW e \in Eps, ApiEpDisable(e), DidEpDisable(e) PROVE Safe
  <2>1. ASSUME SieFree(dev), EpDisabled(dev, dev', e) PROVE Safe
    BY <1>0, <2>1, EpDisabledKeeps, <1>CreditQuiet, Zenon DEF EpIdle
  <2> QED BY <1>0, <1>5, <2>1, <1>CreditRefused, Zenon DEF DidEpDisable
<1>6. ASSUME NEW e \in Eps, ApiDequeue(e), DidDequeue(e) PROVE Safe
  <2>1. ASSUME SieFree(dev), Dequeued(dev, dev', e) PROVE Safe
    <3>1. SameBusButMode(dev, dev') /\ dev'.mode \subseteq dev.mode
      BY <2>1, Zenon DEF Dequeued, SameBus, SameBusButMode
    <3> QED BY <1>0, <2>1, <3>1, <1>CreditQuiet, Zenon DEF Dequeued
  <2> QED BY <1>0, <1>6, <2>1, <1>CreditRefused, Zenon DEF DidDequeue
<1>7. ASSUME NEW e \in Eps, ApiHalt(e), DidHalt(e) PROVE Safe
  BY <1>0, <1>7, <1>CreditHalt, <1>CreditRefused, Zenon DEF DidHalt
<1>8. ASSUME NEW e \in Eps, ApiClearHalt(e), DidClearHalt(e) PROVE Safe
  <2>1. PICK m : ToggleReset(dev, m, e) /\ Kicked(m, dev', e)
    BY <1>8, Zenon DEF DidClearHalt, HaltCleared
  <2>2. dev.sie # e /\ ~LatchedFor(dev, e)
    BY <1>8, Zenon DEF DidClearHalt
  <2>3. EpCredit(m, e)
    BY <2>1, <2>2, Zenon DEF ToggleReset, EpCredit, Answers, LatchedFor, SameBus, SameLatch
  <2>4. CreditSafe(m)
    BY <1>0, <2>1, <2>3, <1>CreditElsewhere, Zenon DEF ToggleReset, SameBus, Free
  <2>5. m \in Device /\ FreeSafe(m)
    BY <1>0, <2>1, <1>FreeStays, Zenon DEF ToggleReset, SameBus
  <2> QED BY <2>1, <2>4, <2>5, <1>CreditKicked, Zenon
<1>9. ASSUME NEW e \in Eps, NEW size \in Sizes, NEW zlp \in BOOLEAN, ApiEnqueue(e, size, zlp), DidEnqueue(e) PROVE Safe
  BY <1>0, <1>9, <1>CreditEnqueued, Zenon DEF DidEnqueue
<1>10. ASSUME ApiEnqueueSetup, DidEnqueueSetup PROVE Safe
  <2>1. CASE dev.pending
    <3>1. PICK o : HandedOver(dev, dev', o)
      BY <1>10, <2>1, Zenon DEF DidEnqueueSetup
    <3>2. ~Free(dev) /\ ~Free(dev')
      BY <2>1, <3>1, Zenon DEF Free, HandedOver
    <3> QED BY <1>0, <3>1, <3>2, <1>CreditSame, Zenon DEF HandedOver, SameLatch, FreeSafe
  <2>2. CASE ~dev.pending
    BY <1>0, <1>00, <1>10, <2>2, <1>CreditEnqueued, Zenon DEF DidEnqueueSetup
  <2> QED BY <2>1, <2>2, Zenon
<1>11. ASSUME dev'.ep = dev.ep, dev'.ctl = dev.ctl, dev'.q = dev.q, dev'.on = dev.on, dev'.mode = dev.mode,
              dev'.taken = dev.taken, dev'.pending = dev.pending, dev'.sie = "none" \/ dev'.sie = dev.sie,
              "TRANSFER" \in dev'.fg => "TRANSFER" \in dev.fg /\ dev'.st = dev.st
       PROVE  Safe
  <2>1. CreditSafe(dev')
    BY <1>0, <1>11, <1>CreditSame, Zenon DEF Free
  <2>2. FreeSafe(dev')
    BY <1>0, <1>11, <1>FreeStays, Zenon
  <2> QED BY <2>1, <2>2, Zenon
<1>12. ASSUME (\E a \in 0..1 : wch_address(a)) \/ wch_isr \/ WorkSuspend \/ WorkUnmask, DidAside PROVE Safe
  BY <1>11, <1>12, Zenon DEF DidAside, Aside, SameEps, SameBus, SameLatch
<1>13. ASSUME KickCopy, DidCopy PROVE Safe
  <2>1. PICK m : /\ Staged(dev, m, "in0") /\ SameEps(m, dev') /\ SameLatch(m, dev')
                 /\ SameBusButCopying(m, dev')
    BY <1>13, Zenon DEF DidCopy, CopiedIs
  <2>2. ~Held(dev, "in0")
    BY <1>13, Zenon DEF DidCopy, Base, DevCore, CopySound, Held
  <2>3. CreditSafe(m)
    BY <1>0, <1>00, <2>1, <2>2, <1>CreditStage, Zenon
  <2>4. FreeSafe(m)
    BY <1>0, <1>00, <2>1, <1>FreeLocal, Zenon DEF Staged, SameBus
  <2>5. CreditSafe(dev')
    BY <2>1, <2>3, <1>CreditSame, Zenon DEF SameEps, SameBusButCopying, SameLatch, Free
  <2> QED BY <2>1, <2>4, <2>5, <1>FreeStays, Zenon DEF SameEps, SameBusButCopying
<1>14. ASSUME WorkRead \/ UNCHANGED vars PROVE Safe
  BY <1>0, <1>14, Zenon DEF WorkRead, vars
<1>15. ASSUME WorkReset, DidReset PROVE Safe
  <2>1. PICK m : AllReset(dev, m) /\ Acked(m, dev', work.flags)
    BY <1>15, Zenon DEF DidReset, ResetDone
  <2>2. work.pc = "handle" /\ "RESET" \in work.flags /\ "RESET" \in dev.fg
    BY <1>0, <1>15, Zenon DEF WorkReset, Mutex
  <2>3. ASSUME NEW g \in Eps PROVE EpCredit(dev', g)
    <3>1. dev'.sie # g
      <4>1. dev'.sie = dev.sie
        BY <2>1, Zenon DEF AllReset, Acked, SameBus
      <4>2. dev.sie \in {"none", "setup"}
        BY <2>2, Zenon DEF ResetInv
      <4> QED BY ONLY <4>1, <4>2, g \in Eps, Zenon DEF Eps, Control, Bulk
    <3>2. ~LatchedFor(dev', g)
      <4> SUFFICES ASSUME LatchedFor(dev', g) PROVE FALSE
        BY Zenon
      <4>1. /\ dev'.fg = dev.fg \ work.flags
            /\ dev'.st = IF "TRANSFER" \in work.flags THEN NoToken ELSE dev.st
        BY <2>1, Zenon DEF AllReset, Acked, SameLatch
      <4>2. "TRANSFER" \in dev.fg \ work.flags /\ dev.st.ep = g
        BY ONLY <4>1, LatchedFor(dev', g), Zenon DEF LatchedFor
      <4>3. dev.st.ep = "setup"
        BY <2>2, <4>2, Zenon DEF ResetInv
      <4> QED BY ONLY <4>2, <4>3, g \in Eps, Zenon DEF Eps, Control, Bulk
    <3>3. Answers(dev', g) => Held(dev', g)
      BY <2>1, Zenon DEF AllReset, Acked, SameEps, SameBus, Answers, Held, Free
    <3> QED BY <3>1, <3>2, <3>3, Zenon DEF EpCredit
  <2>4. FreeSafe(dev')
    <3>1. \A g \in Control : dev'.q[g] = <<>>
      BY <2>1, Zenon DEF AllReset, Acked, SameEps, Eps
    <3>2. DOMAIN <<>> = {}
      OBVIOUS
    <3> QED BY <3>1, <3>2, Zenon DEF FreeSafe
  <2> QED BY <2>3, <2>4, Zenon DEF CreditSafe
<1>16. ASSUME WorkTransfer, DidTransfer PROVE Safe
  <2>1. CASE "TRANSFER" \notin work.flags
    BY <1>0, <1>16, <2>1, Zenon DEF DidTransfer
  <2>2. CASE "TRANSFER" \in work.flags
    <3>1. PICK m : /\ IF dev.st.ep = "setup" THEN Superseded(dev, m) ELSE DataTransferred(dev, m, dev.st.ep)
                   /\ Acked(m, dev', {"TRANSFER"})
      BY <1>16, <2>2, Zenon DEF DidTransfer, Serviced
    <3>2. dev.st.ep \in Eps \cup {"setup"} /\ "TRANSFER" \in dev.fg
      BY <1>16, <2>2, Zenon DEF DidTransfer
    <3>3. dev.sie = "none"
      BY <1>0, <3>2, Zenon DEF WireCore
    <3>4. CASE dev.st.ep = "setup"
      <4>1. Superseded(dev, m)
        BY <3>1, <3>4, Zenon
      <4>2. ~Free(dev')
        BY <3>1, <4>1, Zenon DEF Superseded, Acked, SameBus, Free
      <4>3. ASSUME NEW g \in Eps PROVE EpCredit(dev', g)
        <5>1. dev'.sie # g /\ ~LatchedFor(dev', g)
          <6>1. dev'.sie = dev.sie /\ dev'.fg = m.fg \ {"TRANSFER"}
            BY <3>1, <4>1, Zenon DEF Superseded, Acked, SameBus
          <6> QED BY ONLY <3>3, <6>1, g \in Eps, Zenon DEF LatchedFor, Eps, Control, Bulk
        <5>2. CASE g \in Control
          BY <3>1, <4>1, <5>1, <5>2, Zenon DEF Superseded, Acked, SameEps, EpCredit, Answers
        <5>3. CASE g \in Bulk
          <6>1. (Answers(dev', g) => Answers(dev, g)) /\ (Held(dev, g) => Held(dev', g))
            <7>0. dev'.ep = m.ep /\ dev'.ctl = m.ctl /\ dev'.mode = m.mode /\ dev'.on = m.on
              BY ONLY <3>1, Zenon DEF Acked, SameEps, SameBus
            <7>1. /\ m.ep[g] = dev.ep[g] /\ m.ctl[g] = dev.ctl[g]
                  /\ m.mode = dev.mode /\ m.on = dev.on
              BY ONLY <4>1, <5>3, Zenon DEF Superseded
            <7>2. g # "out0"
              BY <5>3, Zenon DEF Bulk
            <7> QED BY ONLY <7>0, <7>1, <7>2, Zenon DEF Answers, Held
          <6> QED BY <1>0, <5>1, <6>1, Zenon DEF CreditSafe, EpCredit
        <5> QED BY <5>2, <5>3, Zenon DEF Eps
      <4> QED BY <4>2, <4>3, Zenon DEF CreditSafe, FreeSafe
    <3>5. CASE dev.st.ep # "setup"
      <4>1. PICK e \in Eps : e = dev.st.ep
        BY <3>2, <3>5, Zenon
      <4>2. DataTransferred(dev, m, e)
        BY <3>1, <3>5, <4>1, Zenon
      <4>3. CreditSafe(dev')
        BY <1>0, <3>1, <3>3, <4>2, <1>CreditData, Zenon
      <4>4. FreeSafe(m)
        <5>1. Local(dev, m, e) /\ SameBus(dev, m)
          BY <4>2, Zenon DEF DataTransferred, OneEp
        <5>2. Free(dev) /\ e \in Control => m.q[e] = dev.q[e]
          BY <1>0, <4>2, <1>FreeBusy, Zenon DEF DataTransferred
        <5> QED BY <1>0, <5>1, <5>2, <1>FreeLocal, Zenon DEF SameBus
      <4> QED BY <3>1, <4>3, <4>4, <1>FreeStays, Zenon DEF Acked, SameEps, SameBus
    <3> QED BY <3>4, <3>5, Zenon
  <2> QED BY <2>1, <2>2, Zenon
<1>17. ASSUME WorkSuspendAck, DidSuspendAck PROVE Safe
  BY <1>11, <1>17, Zenon DEF DidSuspendAck, Acked, SameEps, SameBus
<1>18. ASSUME WorkKick, DidKick PROVE Safe
  <2>1. PICK a, b, c : Kicked(dev, a, "out0") /\ Kicked(a, b, "in1") /\ Kicked(b, c, "out2") /\ CheckedIs(c, dev')
    BY <1>18, Zenon DEF DidKick, AllKicked
  <2>2. a \in Device /\ CreditSafe(a) /\ FreeSafe(a)
    BY <1>0, <1>00, <2>1, <1>CreditKicked, Zenon
  <2>3. b \in Device /\ CreditSafe(b) /\ FreeSafe(b)
    BY <1>00, <2>1, <2>2, <1>CreditKicked, Zenon
  <2>4. c \in Device /\ CreditSafe(c) /\ FreeSafe(c)
    BY <1>00, <2>1, <2>3, <1>CreditKicked, Zenon
  <2>5. CreditSafe(dev')
    BY <2>1, <2>4, <1>CreditSame, Zenon DEF CheckedIs, SameEps, SameBusButCopying, SameLatch, Free
  <2> QED BY <2>1, <2>4, <2>5, <1>FreeStays, Zenon DEF CheckedIs, SameEps, SameBusButCopying
<1>19. ASSUME NEW tk \in Eps \cup {"setup"}, Token(tk), DidToken(tk) PROVE Safe
  <2>1. OnWire(dev, dev', tk, {}) /\ (tk \in Eps => Answers(dev, tk))
    BY <1>00, <1>19, Zenon DEF DidToken, Answers, Control, Bulk
  <2>2. CreditSafe(dev')
    BY <1>0, <2>1, <1>CreditToken, Zenon
  <2> QED BY <1>0, <2>1, <2>2, <1>FreeStays, Zenon DEF OnWire, SameEps, SameBusButSie
<1>20. ASSUME Lost \/ BusReset \/ BusSuspend, DidBus PROVE Safe
  BY <1>11, <1>20, Zenon DEF DidBus, OnWire, SameEps, SameBusButSie
<1>21. ASSUME NEW e \in Eps, InAcked(e), DidIn(e) PROVE Safe
  <2>1. PICK m : /\ TakenIs(dev, m, e)
                 /\ \/ \E k : AboutHead(dev, k, e) /\ ~k.bad /\ LatchedIs(m, dev', {"TRANSFER"}, k)
                    \/ UnheardIs(m, dev', e)
    BY <1>21, Zenon DEF DidIn, InDone
  <2>2. CreditSafe(m) /\ FreeSafe(m)
    BY <1>0, <2>1, <1>CreditTaken, <1>FreeTaken, Zenon
  <2>3. CASE UnheardIs(m, dev', e)
    <3>1. CreditSafe(dev')
      BY <2>2, <2>3, <1>CreditSame, Zenon
      DEF UnheardIs, SameEpsButUnheard, SameBusButSie, SameLatch, Free
    <3> QED BY <2>2, <2>3, <3>1, <1>FreeStays, Zenon DEF UnheardIs, SameEpsButUnheard, SameBusButSie
  <2>4. ASSUME NEW k, AboutHead(dev, k, e), LatchedIs(m, dev', {"TRANSFER"}, k) PROVE Safe
    <3>1. /\ m.ep = dev.ep /\ (dev.q[e] # <<>> => Head(m.q[e]).id = Head(dev.q[e]).id)
          /\ (Held(dev, e) => Held(m, e))
      BY <2>1, Zenon DEF TakenIs, TakenBy, Replaced, OneEp, SameBus, Held, Free
    <3>2. IF m.ep[e].busy THEN Head(m.q[e]).id = k.id ELSE Held(m, e)
      <4>1. Held(dev, e)
        BY <1>0, <1>21, Zenon DEF DidIn, CreditSafe, EpCredit
      <4>2. dev.ep[e].busy => dev.q[e] # <<>> /\ k.id = Head(dev.q[e]).id
        BY <1>0, <2>4, Zenon DEF EpSound, AboutHead
      <4> QED BY <3>1, <4>1, <4>2, Zenon
    <3>3. CreditSafe(dev')
      BY <2>2, <2>4, <3>2, <1>CreditLatch, Zenon DEF AboutHead
    <3> QED BY <2>2, <2>4, <3>3, <1>FreeStays, Zenon DEF LatchedIs, SameEpsButUnheard, SameBusButSie
  <2> QED BY <2>1, <2>3, <2>4, Zenon
<1>22. ASSUME NEW e \in Eps, Out(e), DidOut(e) PROVE Safe
  <2>1. PICK flags, k : AboutHead(dev, k, e) /\ LatchedIs(dev, dev', flags, k)
    BY <1>22, Zenon DEF DidOut, OutDone
  <2>2. IF dev.ep[e].busy THEN Head(dev.q[e]).id = k.id ELSE Held(dev, e)
    <3>1. Held(dev, e)
      BY <1>0, <1>22, Zenon DEF DidOut, CreditSafe, EpCredit
    <3>2. dev.ep[e].busy => dev.q[e] # <<>> /\ k.id = Head(dev.q[e]).id
      BY <1>0, <2>1, Zenon DEF EpSound, AboutHead
    <3> QED BY <3>1, <3>2, Zenon
  <2>3. CreditSafe(dev')
    BY <1>0, <2>1, <2>2, <1>CreditLatch, Zenon DEF AboutHead
  <2> QED BY <1>0, <2>1, <2>3, <1>FreeStays, Zenon DEF LatchedIs, SameEpsButUnheard, SameBusButSie
<1>23. ASSUME NEW valid \in BOOLEAN, SetupArrives(valid), DidSetup PROVE Safe
  <2>1. PICK k : k.ep = "setup" /\ LatchedIs(dev, dev', {"TRANSFER"}, k)
    BY <1>23, Zenon DEF DidSetup, SetupDone
  <2>2. "setup" \notin Eps
    BY <1>00, Zenon
  <2>3. CreditSafe(dev')
    BY <1>0, <2>1, <2>2, <1>CreditLatch, Zenon
  <2> QED BY <1>0, <2>1, <2>3, <1>FreeStays, Zenon DEF LatchedIs, SameEpsButUnheard, SameBusButSie
<1>24. Safe
  BY <1>1, <1>2, <1>3, <1>4, <1>5, <1>6, <1>7, <1>8, <1>9, <1>10, <1>12, <1>13, <1>14,
     <1>15, <1>16, <1>17, <1>18, <1>19, <1>20, <1>21, <1>22, <1>23, ZenonT(60) DEF StepEffect
<1> QED BY <1>24, Zenon DEF CreditInv
=============================================================================
