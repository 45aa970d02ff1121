---------------------------- MODULE ReadBufProofs ----------------------------
(***************************************************************************)
(* The read buffer for every size of packets, margin and buffer: that what *)
(* is taken out is in order, that the consumer stays in step with rd1_off, *)
(* that the callback has room for one who is not too far behind, and that  *)
(* no packet is lost without a reason.                                     *)
(*                                                                         *)
(* The room is arithmetic with the macros of circ_buf.h, whose mask is not *)
(* a remainder here: MaskedIs says what it is, third by third.             *)
(*                                                                         *)
(* The losses rest on an invariant of the stream, the cells pending and    *)
(* those on their way: a packet that has lost nothing is there as a whole  *)
(* (WholeStream).  So netcom_find_header, which only starts at a header    *)
(* that is not whole, starts at a packet already lost.                     *)
(***************************************************************************)
EXTENDS ReadBuf, WellFoundedInduction, TLAPS

-----------------------------------------------------------------------------
\* Arithmetic

LEMMA DivUnique ==
    ASSUME NEW b \in Nat \ {0}, NEW q \in Int, NEW r \in 0 .. b - 1
    PROVE  (b * q + r) \div b = q /\ (b * q + r) % b = r
  OBVIOUS

\* x lies in the q-th third of the line of integers.
LEMMA MaskedIs ==
    ASSUME NEW x \in Int, NEW q \in {-3, -2, -1, 0, 1, 2, 4, 5}, Half * q <= x, x < Half * (q + 1)
    PROVE  Masked(x) = IF q \in {-3, 0, 1, 4, 5} THEN x - Half * q ELSE x - Half * q + 2 * Half
<1> USE ReadBufAssumption
<1>1. Half \in Nat \ {0}
  OBVIOUS
<1> DEFINE r == x - Half * q
<1>2. r \in 0 .. Half - 1 /\ x = Half * q + r
  BY <1>1
<1>3. x % Half = r
  BY <1>1, <1>2, DivUnique
<1> DEFINE D == 2 * Half
<1>4. D \in Nat \ {0} /\ r \in 0 .. D - 1 /\ r + Half \in 0 .. D - 1
  BY <1>1, <1>2
<1>5. \A p \in Int : (D * p + r) \div D = p /\ (D * p + (r + Half)) \div D = p
  BY <1>4, DivUnique
<1>6. x \div D = CASE q = -3 -> -2 [] q = -2 -> -1 [] q = -1 -> -1 [] q = 0 -> 0
                   [] q = 1 -> 0 [] q = 2 -> 1 [] q = 4 -> 2 [] q = 5 -> 2
  <2>1. CASE q = -3
    <3>1. x = D * (-2) + (r + Half)
      BY <1>1, <1>2, <2>1
    <3> QED BY <1>5, <2>1, <3>1
  <2>2. CASE q = -2
    <3>1. x = D * (-1) + r
      BY <1>1, <1>2, <2>2
    <3> QED BY <1>5, <2>2, <3>1
  <2>3. CASE q = -1
    <3>1. x = D * (-1) + (r + Half)
      BY <1>1, <1>2, <2>3
    <3> QED BY <1>5, <2>3, <3>1
  <2>4. CASE q = 0
    <3>1. x = D * 0 + r
      BY <1>1, <1>2, <2>4
    <3> QED BY <1>5, <2>4, <3>1
  <2>5. CASE q = 1
    <3>1. x = D * 0 + (r + Half)
      BY <1>1, <1>2, <2>5
    <3> QED BY <1>5, <2>5, <3>1
  <2>6. CASE q = 2
    <3>1. x = D * 1 + r
      BY <1>1, <1>2, <2>6
    <3> QED BY <1>5, <2>6, <3>1
  <2>7. CASE q = 4
    <3>1. x = D * 2 + r
      BY <1>1, <1>2, <2>7
    <3> QED BY <1>5, <2>7, <3>1
  <2>8. CASE q = 5
    <3>1. x = D * 2 + (r + Half)
      BY <1>1, <1>2, <2>8
    <3> QED BY <1>5, <2>8, <3>1
  <2> QED BY <2>1, <2>2, <2>3, <2>4, <2>5, <2>6, <2>7, <2>8
<1> QED BY <1>1, <1>3, <1>6 DEF Masked

LEMMA Positive ==
    ASSUME NEW a \in Nat \ {0}, NEW k \in Int, a * k > 0
    PROVE  k >= 1 /\ a * k >= a /\ a * (k - 1) = a * k - a
<1>1. k >= 1
  OBVIOUS
<1>2. a * k = a + a * (k - 1)
  OBVIOUS
<1>3. a * (k - 1) >= 0
  BY <1>1
<1> QED BY <1>1, <1>2, <1>3

LEMMA Least ==
    ASSUME NEW T, T \subseteq Nat, T # {}
    PROVE  Min(T) \in T /\ \A y \in T : Min(T) <= y
<1> DEFINE R == OpToRel(<, Nat)
<1>1. IsWellFoundedOn(R, Nat)
  BY NatLessThanWellFounded
<1>2. \A x, y \in Nat : x < y => <<x, y>> \in R
  BY DEF OpToRel
<1> HIDE DEF R
<1>3. PICK x \in T : \A y \in T : ~ (<<y, x>> \in R)
  BY <1>1, WFMin
<1>4. \A y \in T : y \in Nat /\ x \in Nat /\ ~ (y < x)
  BY <1>2, <1>3
<1>5. \A y \in T : x <= y
  BY <1>4
<1> QED BY <1>5 DEF Min

-----------------------------------------------------------------------------
\* Sequences

LEMMA Joined ==
    ASSUME NEW S, NEW s \in Seq(S), NEW t \in Seq(S)
    PROVE  /\ s \o t \in Seq(S) /\ Len(s \o t) = Len(s) + Len(t)
           /\ \A i \in 1 .. Len(s) : (s \o t)[i] = s[i]
           /\ \A i \in 1 .. Len(t) : (s \o t)[Len(s) + i] = t[i]
           /\ \A i \in 1 .. Len(s \o t) : i > Len(s) =>
                 i - Len(s) \in 1 .. Len(t) /\ (s \o t)[i] = t[i - Len(s)]
  OBVIOUS

LEMMA Cut ==
    ASSUME NEW S, NEW s \in Seq(S), NEW n \in 0 .. Len(s)
    PROVE  /\ Drop(s, n) \in Seq(S) /\ Len(Drop(s, n)) = Len(s) - n
           /\ \A i \in 1 .. Len(s) - n : Drop(s, n)[i] = s[i + n]
           /\ SubSeq(s, 1, n) \in Seq(S) /\ Len(SubSeq(s, 1, n)) = n
           /\ \A i \in 1 .. n : SubSeq(s, 1, n)[i] = s[i]
  BY DEF Drop

-----------------------------------------------------------------------------
\* The cells between the peer and rd1_off: those of a packet are together, the
\* packets are in order, and younger than those handled.
GoodStream(s, n, h) ==
    /\ \A i \in 1 .. Len(s) : s[i].pkt \in 1 .. n /\ s[i].at \in 1 .. WireLength(s[i].kind)
    /\ \A i, j \in 1 .. Len(s) : i < j =>
          \/ s[i].pkt < s[j].pkt
          \/ s[i].pkt = s[j].pkt /\ s[i].kind = s[j].kind /\ s[j].at - s[i].at = j - i
    /\ \A k \in 1 .. Len(h), i \in 1 .. Len(s) : h[k] < s[i].pkt
    /\ \A k \in 1 .. Len(h) : h[k] <= n

StreamInv == GoodStream(pend \o arriving, sent, handled)

\* Unless cells have been overwritten, or a stop was torn by a reset, the offsets are apart by whole packets, in
\* both halves if the consumer has not turned yet.
RingInv ==
    ~ overrun /\ ~ torn =>
        /\ rd2_off <= rd1_off => rd1_off - rd2_off = StreamLen * backlog
        /\ rd2_off > rd1_off =>
              /\ rd2_off <= rd1_end /\ wr_off < rd2_off
              /\ rd1_end - rd2_off + rd1_off = StreamLen * backlog
              /\ \E m \in Nat : rd1_off = StreamLen * m
        /\ rd2_off = 0 => wr_off < Size

\* Between two callbacks less than a packet is pending.
PendInv == pc = "idle" => Len(pend) < StreamMax

\* The turns are near the end of the buffer.
EndInv ==
    /\ rd1_end = 0 \/ rd1_end > Size - 2 * Margin + 1
    /\ ~ torn => (rd2_off > rd1_off => rd1_end # 0)

\* netcom_stop has the lock.  Unless a reset came, what it has read is rd1_off, or the
\* callback has turned there and waits.
SavedInv ==
    /\ pc = "parse" => saved = -1
    /\ saved # -1 /\ ~ late /\ ~ torn =>
          \/ saved = rd1_off
          \/ /\ pc = "lock" /\ rd1_off = 0 /\ saved = rd1_end
             /\ ~ overrun => wr_off < saved

IInv == TypeOK /\ StreamInv /\ InOrder /\ RingInv /\ PendInv /\ EndInv /\ SavedInv

-----------------------------------------------------------------------------
LEMMA PieceGood ==
    ASSUME NEW s \in Seq(Cell), NEW t \in Seq(Cell), NEW off \in Nat, Len(t) + off <= Len(s),
           \A i \in 1 .. Len(t) : t[i] = s[i + off],
           NEW n, NEW h, GoodStream(s, n, h)
    PROVE  GoodStream(t, n, h)
<1>1. \A i \in 1 .. Len(t) : i + off \in 1 .. Len(s)
  OBVIOUS
<1>2. \A i \in 1 .. Len(t) : t[i].pkt \in 1 .. n /\ t[i].at \in 1 .. WireLength(t[i].kind)
  BY <1>1 DEF GoodStream
<1>3. ASSUME NEW i \in 1 .. Len(t), NEW j \in 1 .. Len(t), i < j
      PROVE  \/ t[i].pkt < t[j].pkt
             \/ t[i].pkt = t[j].pkt /\ t[i].kind = t[j].kind /\ t[j].at - t[i].at = j - i
  <2>1. i + off \in 1 .. Len(s) /\ j + off \in 1 .. Len(s) /\ i + off < j + off
    BY <1>1, <1>3
  <2>2. (j + off) - (i + off) = j - i
    OBVIOUS
  <2>3. \/ s[i + off].pkt < s[j + off].pkt
        \/ /\ s[i + off].pkt = s[j + off].pkt /\ s[i + off].kind = s[j + off].kind
           /\ s[j + off].at - s[i + off].at = (j + off) - (i + off)
    BY <2>1 DEF GoodStream
  <2>4. t[i] = s[i + off] /\ t[j] = s[j + off]
    OBVIOUS
  <2> QED BY <2>2, <2>3, <2>4
<1>4. ASSUME NEW k \in 1 .. Len(h), NEW i \in 1 .. Len(t) PROVE h[k] < t[i].pkt
  <2>1. i + off \in 1 .. Len(s) /\ t[i] = s[i + off]
    BY <1>1
  <2>2. h[k] < s[i + off].pkt
    BY <2>1 DEF GoodStream
  <2> QED BY <2>1, <2>2
<1>5. \A k \in 1 .. Len(h) : h[k] <= n
  BY DEF GoodStream
<1> QED BY <1>2, <1>3, <1>4, <1>5 DEF GoodStream

LEMMA PacketsIn ==
    ASSUME NEW s \in Seq(Cell), NEW n, \A i \in 1 .. Len(s) : s[i].pkt \in 1 .. n
    PROVE  PacketsOf(s) \subseteq 1 .. n
  BY DEF PacketsOf, ToSet

\* What is known of pend and of arriving
LEMMA Streaming ==
    ASSUME TypeOK, StreamInv
    PROVE  /\ pend \in Seq(Cell) /\ arriving \in Seq(Cell) /\ pend \o arriving \in Seq(Cell)
           /\ Len(pend) \in Nat /\ Len(arriving) \in Nat /\ sent \in Nat /\ sent <= MaxPackets
           /\ Len(pend \o arriving) = Len(pend) + Len(arriving)
           /\ \A i \in 1 .. Len(pend) : /\ (pend \o arriving)[i] = pend[i]
                                        /\ pend[i].pkt \in 1 .. sent
                                        /\ pend[i].at \in 1 .. WireLength(pend[i].kind)
           /\ \A i \in 1 .. Len(arriving) : /\ (pend \o arriving)[Len(pend) + i] = arriving[i]
                                            /\ arriving[i].pkt \in 1 .. sent
           /\ PacketsOf(pend) \subseteq 1 .. MaxPackets
           /\ PacketsOf(arriving) \subseteq 1 .. MaxPackets
           /\ \A n \in 0 .. Len(pend) : PacketsOf(SubSeq(pend, 1, n)) \subseteq 1 .. MaxPackets
           /\ \A n \in 0 .. Len(arriving) : PacketsOf(SubSeq(arriving, 1, n)) \subseteq 1 .. MaxPackets
<1>1. pend \in Seq(Cell) /\ arriving \in Seq(Cell) /\ sent \in Nat /\ sent <= MaxPackets
      /\ Len(pend) \in Nat /\ Len(arriving) \in Nat
  BY ReadBufAssumption DEF TypeOK
<1>2. /\ pend \o arriving \in Seq(Cell) /\ Len(pend \o arriving) = Len(pend) + Len(arriving)
      /\ \A i \in 1 .. Len(pend) : (pend \o arriving)[i] = pend[i]
      /\ \A i \in 1 .. Len(arriving) : (pend \o arriving)[Len(pend) + i] = arriving[i]
  BY <1>1, Joined
<1>3. \A i \in 1 .. Len(pend) : /\ pend[i].pkt \in 1 .. sent
                                /\ pend[i].at \in 1 .. WireLength(pend[i].kind)
  BY <1>1, <1>2 DEF StreamInv, GoodStream
<1>4. ASSUME NEW i \in 1 .. Len(arriving) PROVE arriving[i].pkt \in 1 .. sent
  <2>1. Len(pend) + i \in 1 .. Len(pend \o arriving)
    BY <1>1, <1>2
  <2> QED BY <1>2, <2>1 DEF StreamInv, GoodStream
<1>5. 1 .. sent \subseteq 1 .. MaxPackets
  BY <1>1, ReadBufAssumption
<1>6. PacketsOf(pend) \subseteq 1 .. MaxPackets /\ PacketsOf(arriving) \subseteq 1 .. MaxPackets
  BY <1>1, <1>3, <1>4, <1>5, PacketsIn
<1>7. ASSUME NEW n \in 0 .. Len(pend) PROVE PacketsOf(SubSeq(pend, 1, n)) \subseteq 1 .. MaxPackets
  <2>1. SubSeq(pend, 1, n) \in Seq(Cell) /\ Len(SubSeq(pend, 1, n)) = n
        /\ \A i \in 1 .. n : SubSeq(pend, 1, n)[i] = pend[i] /\ i \in 1 .. Len(pend)
    BY <1>1, Cut
  <2> QED BY <1>3, <1>5, <2>1, PacketsIn
<1>8. ASSUME NEW n \in 0 .. Len(arriving)
      PROVE  PacketsOf(SubSeq(arriving, 1, n)) \subseteq 1 .. MaxPackets
  <2>1. SubSeq(arriving, 1, n) \in Seq(Cell) /\ Len(SubSeq(arriving, 1, n)) = n
        /\ \A i \in 1 .. n : SubSeq(arriving, 1, n)[i] = arriving[i] /\ i \in 1 .. Len(arriving)
    BY <1>1, Cut
  <2> QED BY <1>4, <1>5, <2>1, PacketsIn
<1> QED BY <1>1, <1>2, <1>3, <1>4, <1>6, <1>7, <1>8

\* The first n cells of pend are thrown away or taken out.
LEMMA PendCut ==
    ASSUME TypeOK, StreamInv, NEW n \in 0 .. Len(pend), pend' = Drop(pend, n), arriving' = arriving
    PROVE  /\ pend' \in Seq(Cell) /\ Len(pend') = Len(pend) - n
           /\ Len((pend \o arriving)') = Len(pend) - n + Len(arriving)
           /\ (pend \o arriving)' \in Seq(Cell)
           /\ \A i \in 1 .. Len((pend \o arriving)') :
                  (pend \o arriving)'[i] = (pend \o arriving)[i + n]
           /\ GoodStream((pend \o arriving)', sent, handled)
<1> DEFINE s == pend \o arriving
           t == pend' \o arriving
<1>1. /\ pend \in Seq(Cell) /\ arriving \in Seq(Cell) /\ s \in Seq(Cell)
      /\ Len(pend) \in Nat /\ Len(arriving) \in Nat /\ Len(s) = Len(pend) + Len(arriving)
      /\ \A i \in 1 .. Len(pend) : s[i] = pend[i]
      /\ \A i \in 1 .. Len(arriving) : s[Len(pend) + i] = arriving[i]
  BY Streaming
<1>2. /\ pend' \in Seq(Cell) /\ Len(pend') = Len(pend) - n
      /\ \A i \in 1 .. Len(pend) - n : pend'[i] = pend[i + n]
  BY <1>1, Cut
<1>3. /\ t \in Seq(Cell) /\ Len(t) = Len(pend') + Len(arriving)
      /\ \A i \in 1 .. Len(pend') : t[i] = pend'[i]
      /\ \A i \in 1 .. Len(t) : i > Len(pend') =>
             i - Len(pend') \in 1 .. Len(arriving) /\ t[i] = arriving[i - Len(pend')]
  <2>1. PICK q : q = pend'
    OBVIOUS
  <2>2. q \in Seq(Cell) /\ arriving \in Seq(Cell)
    BY <1>1, <1>2, <2>1
  <2>3. /\ q \o arriving \in Seq(Cell) /\ Len(q \o arriving) = Len(q) + Len(arriving)
        /\ \A i \in 1 .. Len(q) : (q \o arriving)[i] = q[i]
        /\ \A i \in 1 .. Len(q \o arriving) : i > Len(q) =>
               i - Len(q) \in 1 .. Len(arriving) /\ (q \o arriving)[i] = arriving[i - Len(q)]
    BY <2>2, Joined
  <2> QED BY <2>1, <2>3
<1> HIDE DEF s, t
<1>4. ASSUME NEW i \in 1 .. Len(t) PROVE t[i] = s[i + n]
  <2>1. CASE i <= Len(pend')
    <3>1. i \in 1 .. Len(pend') /\ i \in 1 .. Len(pend) - n /\ i + n \in 1 .. Len(pend)
      BY <1>1, <1>2, <1>3, <2>1
    <3> QED BY <1>1, <1>2, <1>3, <3>1
  <2>2. CASE i > Len(pend')
    <3>1. i - Len(pend') \in 1 .. Len(arriving) /\ t[i] = arriving[i - Len(pend')]
      BY <1>3, <2>2
    <3>2. Len(pend) + (i - Len(pend')) = i + n
      BY <1>1, <1>2
    <3> QED BY <1>1, <3>1, <3>2
  <2> QED BY <1>1, <1>2, <1>3, <2>1, <2>2
<1>5. GoodStream(t, sent, handled)
  <2>1. GoodStream(s, sent, handled)
    BY DEF StreamInv, s
  <2>2. Len(t) + n <= Len(s)
    BY <1>1, <1>2, <1>3
  <2>3. PICK u, v : u = s /\ v = t
    OBVIOUS
  <2>4. /\ u \in Seq(Cell) /\ v \in Seq(Cell) /\ n \in Nat /\ Len(v) + n <= Len(u)
        /\ \A i \in 1 .. Len(v) : v[i] = u[i + n]
        /\ GoodStream(u, sent, handled)
    BY <1>1, <1>3, <1>4, <2>1, <2>2, <2>3
  <2>5. GoodStream(v, sent, handled)
    BY <2>4, PieceGood
  <2> QED BY <2>3, <2>5
<1> QED BY <1>1, <1>2, <1>3, <1>4, <1>5 DEF s, t

\* A packet that begins at rd1_off is taken out with all of its cells.
LEMMA TakeOut ==
    ASSUME TypeOK, StreamInv, InOrder, NEW n \in 1 .. Len(pend), Take(n), arriving' = arriving,
           sent' = sent, pend[1].at = 1, n = WireLength(pend[1].kind)
    PROVE  /\ pend' \in Seq(Cell) /\ Len(pend') = Len(pend) - n
           /\ handled' \in Seq(1 .. MaxPackets)
           /\ swallowed' \subseteq 1 .. MaxPackets
           /\ StreamInv' /\ InOrder'
<1> DEFINE s == pend \o arriving
           t == (pend \o arriving)'
           p == pend[1].pkt
<1>1. /\ pend \in Seq(Cell) /\ Len(pend) \in Nat /\ Len(arriving) \in Nat /\ 1 \in 1 .. Len(pend)
      /\ Len(s) = Len(pend) + Len(arriving) /\ s[1] = pend[1] /\ p \in 1 .. sent
      /\ sent \in Nat /\ sent <= MaxPackets /\ s \in Seq(Cell)
      /\ PacketsOf(SubSeq(pend, 1, n)) \subseteq 1 .. MaxPackets
  BY Streaming
<1>2. pend' = Drop(pend, n) /\ handled' = Append(handled, p) /\ n \in 0 .. Len(pend)
      /\ swallowed' = swallowed \cup (PacketsOf(SubSeq(pend, 1, n)) \ {p})
  BY DEF Take
<1>3. /\ pend' \in Seq(Cell) /\ Len(pend') = Len(pend) - n
      /\ Len(t) = Len(s) - n /\ t \in Seq(Cell)
      /\ \A i \in 1 .. Len(t) : t[i] = s[i + n]
      /\ GoodStream(t, sent, handled)
  <2>1. PICK m : m = n /\ m \in 0 .. Len(pend)
    BY <1>2
  <2>2. pend' = Drop(pend, m) /\ arriving' = arriving
    BY <1>2, <2>1
  <2>3. /\ pend' \in Seq(Cell) /\ Len(pend') = Len(pend) - m
        /\ Len(t) = Len(pend) - m + Len(arriving) /\ t \in Seq(Cell)
        /\ \A i \in 1 .. Len(t) : t[i] = s[i + m]
        /\ GoodStream(t, sent, handled)
    BY <2>1, <2>2, PendCut
  <2>4. Len(pend) - n + Len(arriving) = Len(s) - n
    BY <1>1
  <2> QED BY <2>1, <2>3, <2>4
<1> HIDE DEF s, t, p
<1>4. GoodStream(s, sent, handled)
  BY DEF StreamInv, s
<1>5. ASSUME NEW i \in 1 .. Len(t) PROVE p < t[i].pkt
  <2>1. i + n \in 1 .. Len(s) /\ 1 < i + n /\ 1 \in 1 .. Len(s) /\ t[i] = s[i + n]
    <3>1. n \in Nat /\ n >= 1 /\ Len(s) \in Nat /\ Len(t) = Len(s) - n /\ i \in Nat /\ i >= 1
          /\ i <= Len(t)
      BY <1>1, <1>3
    <3> QED BY <1>3, <3>1
  <2>2. s[i + n].at <= WireLength(s[i + n].kind) /\ s[i + n].at \in Int
    BY <1>4, <2>1 DEF GoodStream
  <2>3. s[1].pkt = p /\ s[1].at = 1 /\ n = WireLength(s[1].kind)
    BY <1>1 DEF p
  <2>4. ~ (s[1].kind = s[i + n].kind /\ s[i + n].at - s[1].at = (i + n) - 1)
    BY <2>1, <2>2, <2>3
  <2>5. s[1].pkt < s[i + n].pkt
    BY <1>4, <2>1, <2>4 DEF GoodStream
  <2> QED BY <2>1, <2>3, <2>5
<1>6. handled \in Seq(1 .. MaxPackets) /\ p \in 1 .. MaxPackets /\ p \in Nat
  BY <1>1, ReadBufAssumption DEF TypeOK
<1>7. /\ handled' \in Seq(1 .. MaxPackets)
      /\ Len(handled') = Len(handled) + 1 /\ Len(handled) \in Nat
      /\ handled'[Len(handled) + 1] = p
      /\ \A k \in 1 .. Len(handled) : handled'[k] = handled[k]
  BY <1>2, <1>6
<1>8. \A k \in 1 .. Len(handled) : handled[k] < p
  <2>1. 1 \in 1 .. Len(s) /\ s[1].pkt = p
    BY <1>1 DEF p
  <2> QED BY <1>4, <2>1 DEF GoodStream
<1>9. \A k \in 1 .. Len(handled'), i \in 1 .. Len(t) : handled'[k] < t[i].pkt
  <2> SUFFICES ASSUME NEW k \in 1 .. Len(handled'), NEW i \in 1 .. Len(t)
               PROVE  handled'[k] < t[i].pkt
    OBVIOUS
  <2>1. CASE k \in 1 .. Len(handled)
    BY <1>3, <1>7, <2>1 DEF GoodStream
  <2>2. CASE k = Len(handled) + 1
    BY <1>5, <1>7, <2>2
  <2> QED BY <1>7, <2>1, <2>2
<1>10. StreamInv'
  <2>1. GoodStream(t, sent, handled')
    <3>1. \A k \in 1 .. Len(handled') : handled'[k] <= sent
      <4> SUFFICES ASSUME NEW k \in 1 .. Len(handled') PROVE handled'[k] <= sent
        OBVIOUS
      <4>1. CASE k \in 1 .. Len(handled)
        BY <1>4, <1>7, <4>1 DEF GoodStream
      <4>2. CASE k = Len(handled) + 1
        BY <1>1, <1>7, <4>2
      <4> QED BY <1>7, <4>1, <4>2
    <3> QED BY <1>3, <1>9, <3>1 DEF GoodStream
  <2> QED BY <2>1 DEF StreamInv, t
<1>11. InOrder'
  BY <1>7, <1>8 DEF InOrder
<1>12. swallowed' \subseteq 1 .. MaxPackets
  BY <1>1, <1>2 DEF TypeOK
<1> QED BY <1>3, <1>7, <1>10, <1>11, <1>12

\* What netcom_find_header throws away
LEMMA HeaderFound ==
    ASSUME TypeOK, StreamInv, Parsing, FindHeader
    PROVE  /\ \E n \in 0 .. Len(pend) :
                 /\ pend' = Drop(pend, n)
                 /\ pc' = "parse" \/ (pc' = "idle" /\ Len(pend) - n <= HeadLen)
           /\ skipped' \subseteq 1 .. MaxPackets
<1>1. pend \in Seq(Cell) /\ Len(pend) \in Nat /\ Len(pend) >= HeadLen /\ HeadLen \in Nat \ {0}
      /\ PacketsOf(pend) \subseteq 1 .. MaxPackets
  BY Streaming, ReadBufAssumption DEF Parsing
<1>2. skipped' \subseteq 1 .. MaxPackets
  <2>1. skipped' \subseteq skipped \cup PacketsOf(SubSeq(pend, 2, HeadLen))
    BY DEF FindHeader, PacketsOf
  <2>2. SubSeq(pend, 2, HeadLen) \in Seq(Cell)
        /\ \A i \in DOMAIN SubSeq(pend, 2, HeadLen) :
               i + 1 \in DOMAIN pend /\ SubSeq(pend, 2, HeadLen)[i] = pend[i + 1]
    BY <1>1
  <2>3. PacketsOf(SubSeq(pend, 2, HeadLen)) \subseteq PacketsOf(pend)
    BY <2>2 DEF PacketsOf, ToSet
  <2> QED BY <1>1, <2>1, <2>3 DEF TypeOK
<1>3. CASE Found # {}
  <2>1. Found \subseteq Nat /\ Found \subseteq 0 .. Len(pend)
    BY <1>1 DEF Found
  <2>2. Min(Found) \in 0 .. Len(pend)
    BY <1>3, <2>1, Least
  <2> QED BY <1>2, <1>3, <2>2 DEF FindHeader
<1>4. CASE Found = {}
  <2>1. Max({HeadLen, Len(pend) - HeadLen}) \in {HeadLen, Len(pend) - HeadLen}
        /\ Max({HeadLen, Len(pend) - HeadLen}) >= Len(pend) - HeadLen
    BY <1>1 DEF Max
  <2>2. Max({HeadLen, Len(pend) - HeadLen}) \in 0 .. Len(pend)
        /\ Len(pend) - Max({HeadLen, Len(pend) - HeadLen}) <= HeadLen
    BY <1>1, <2>1
  <2> QED BY <1>2, <1>4, <2>2 DEF FindHeader
<1> QED BY <1>3, <1>4

-----------------------------------------------------------------------------
\* One step at a time

LEMMA Sizes ==
    /\ HeadLen \in Nat /\ ExLen \in Nat /\ StreamLen \in Nat /\ StreamMax \in Nat
    /\ Half \in Nat /\ Margin \in Nat /\ Size \in Nat /\ Size = 3 * Half
    /\ MaxPackets \in Nat /\ MaxFaults \in Nat
    /\ 1 <= HeadLen /\ HeadLen < StreamLen /\ StreamLen <= StreamMax /\ StreamMax <= Margin
    /\ 2 * Margin <= Half /\ HeadLen < ExLen /\ ExLen <= StreamMax
  BY ReadBufAssumption DEF Size

\* What a step leaves of the stream is a piece of it.
LEMMA PieceStep ==
    ASSUME TypeOK, StreamInv, NEW off \in Nat, NEW p \in Seq(Cell), NEW a \in Seq(Cell),
           pend' = p, arriving' = a, Len(p) + Len(a) + off <= Len(pend \o arriving),
           \A i \in 1 .. Len(p) : p[i] = (pend \o arriving)[i + off],
           \A i \in 1 .. Len(a) : a[i] = (pend \o arriving)[Len(p) + i + off],
           sent' = sent, handled' = handled
    PROVE  StreamInv'
<1> DEFINE s == pend \o arriving
           t == p \o a
<1>1. s \in Seq(Cell) /\ GoodStream(s, sent, handled)
  BY Streaming DEF StreamInv
<1>2. /\ t \in Seq(Cell) /\ Len(t) = Len(p) + Len(a) /\ Len(p) \in Nat /\ Len(a) \in Nat
      /\ \A i \in 1 .. Len(p) : t[i] = p[i]
      /\ \A i \in 1 .. Len(t) : i > Len(p) => i - Len(p) \in 1 .. Len(a) /\ t[i] = a[i - Len(p)]
  BY Joined
<1>3. Len(t) + off <= Len(s)
  BY <1>2
<1> HIDE DEF s, t
<1>4. ASSUME NEW i \in 1 .. Len(t) PROVE t[i] = s[i + off]
  <2>1. CASE i <= Len(p)
    <3>1. i \in 1 .. Len(p)
      BY <1>2, <2>1
    <3> QED BY <1>2, <3>1 DEF s
  <2>2. CASE i > Len(p)
    <3>1. i - Len(p) \in 1 .. Len(a) /\ t[i] = a[i - Len(p)]
      BY <1>2, <2>2
    <3>2. Len(p) + (i - Len(p)) + off = i + off
      BY <1>2
    <3> QED BY <3>1, <3>2 DEF s
  <2> QED BY <1>2, <2>1, <2>2
<1>5. GoodStream(t, sent, handled)
  BY <1>1, <1>2, <1>3, <1>4, PieceGood
<1> QED BY <1>5 DEF StreamInv, t

\* Nothing of the stream changes.
LEMMA StreamKept ==
    ASSUME StreamInv, InOrder, pend' = pend, arriving' = arriving, sent' = sent, handled' = handled
    PROVE  StreamInv' /\ InOrder'
<1>1. StreamInv'
  BY DEF StreamInv
<1>2. InOrder'
  BY DEF InOrder
<1> QED BY <1>1, <1>2

LEMMA InitInv == Init => IInv
<1> SUFFICES ASSUME Init PROVE IInv
  OBVIOUS
<1> USE Sizes DEF Init
<1>1. <<>> \o <<>> = <<>> /\ <<>> \in Seq(Cell) /\ Len(<<>>) = 0 /\ <<>> \in Seq(1 .. MaxPackets)
  OBVIOUS
<1>2. TypeOK
  <2>1. spun \in BOOLEAN /\ overrun \in BOOLEAN /\ late \in BOOLEAN /\ torn \in BOOLEAN /\ rx \in BOOLEAN /\ errorflag \in BOOLEAN
    OBVIOUS
  <2>2. wr_off <= Size
    BY <1>1 DEF wr_off
  <2>3. broken = {} /\ swallowed = {} /\ skipped = {} /\ backlog \in Nat /\ pc = "idle"
    OBVIOUS
  <2>4. /\ sent \in 0 .. MaxPackets /\ faults \in 0 .. MaxFaults
        /\ rd1_off \in 0 .. Size /\ rd2_off \in 0 .. Size /\ rd1_end \in 0 .. Size
        /\ saved \in {-1} \cup 0 .. Size
    OBVIOUS
  <2> QED BY <1>1, <2>1, <2>2, <2>3, <2>4 DEF TypeOK
<1>3. StreamInv
  BY <1>1 DEF StreamInv, GoodStream
<1>4. InOrder
  BY <1>1 DEF InOrder
<1>5. RingInv
  <2>1. StreamLen * backlog = 0
    OBVIOUS
  <2> QED BY <1>1, <2>1 DEF RingInv, wr_off
<1>6. PendInv /\ EndInv /\ SavedInv
  BY <1>1 DEF PendInv, EndInv, SavedInv
<1> QED BY <1>2, <1>3, <1>4, <1>5, <1>6 DEF IInv

\* The steps that touch neither the cells nor what was taken out: each has the
\* offsets of its own.
LEMMA ConsumeStep == IInv /\ Consume => IInv'
<1> SUFFICES ASSUME IInv, Consume PROVE IInv'
  OBVIOUS
<1> USE Sizes
<1>1. TypeOK /\ StreamInv /\ InOrder /\ RingInv /\ PendInv /\ EndInv /\ SavedInv
  BY DEF IInv
<1>2. /\ sent' = sent /\ arriving' = arriving /\ pend' = pend /\ handled' = handled
      /\ rd1_off' = rd1_off /\ rd1_end' = rd1_end /\ ~ overrun /\ overrun' = overrun /\ pc' = pc
      /\ rd2_off # rd1_off /\ ~ torn /\ torn' = torn /\ saved' = saved /\ late' = late
  BY DEF Consume, link, flags, losing, stop
<1>3. /\ rd1_off \in Int /\ rd2_off \in 0 .. Size /\ rd1_end \in 0 .. Size /\ backlog \in Nat
      /\ rd1_off \in 0 .. Size /\ wr_off <= Size /\ Len(pend) \in Nat /\ wr_off = rd1_off + Len(pend)
  BY <1>1 DEF TypeOK, wr_off
<1>4. /\ rd2_off' \in 0 .. Size /\ backlog' \in Nat /\ RingInv' /\ EndInv'
  <2>1. CASE rd2_off > rd1_off /\ rd2_off = rd1_end
    <3>1. rd2_off' = 0 /\ backlog' = backlog
      BY <2>1 DEF Consume
    <3> QED BY <1>1, <1>2, <1>3, <2>1, <3>1 DEF RingInv, EndInv, wr_off
  <2>2. CASE rd2_off > rd1_off /\ rd2_off # rd1_end
    <3>1. rd2_off' = rd2_off + StreamLen /\ backlog' = backlog - 1
      BY <2>2 DEF Consume
    <3>2. PICK m \in Nat : rd1_off = StreamLen * m
      BY <1>1, <1>2, <2>2 DEF RingInv
    <3>3. /\ rd2_off <= rd1_end /\ wr_off < rd2_off
          /\ rd1_end - rd2_off + rd1_off = StreamLen * backlog
      BY <1>1, <1>2, <2>2 DEF RingInv
    <3>4. StreamLen * (backlog - m) = rd1_end - rd2_off
      <4>1. StreamLen * (backlog - m) = StreamLen * backlog - StreamLen * m
        BY <1>3
      <4> QED BY <1>3, <3>2, <3>3, <4>1
    <3>5. backlog - m >= 1 /\ StreamLen * (backlog - m) >= StreamLen
      <4>1. StreamLen * (backlog - m) > 0 /\ backlog - m \in Int /\ StreamLen \in Nat \ {0}
        BY <1>3, <2>2, <3>3, <3>4
      <4> QED BY <4>1, Positive
    <3>6. StreamLen * (backlog - 1) = StreamLen * backlog - StreamLen
      BY <1>3
    <3>7. backlog' \in Nat /\ rd2_off' \in 0 .. Size /\ rd2_off' <= rd1_end
      BY <1>3, <3>1, <3>4, <3>5
    <3>8. RingInv'
      <4>1. rd2_off' > rd1_off /\ rd2_off' # 0 /\ wr_off' = wr_off /\ wr_off < rd2_off'
        BY <1>2, <1>3, <2>2, <3>1, <3>3 DEF wr_off
      <4>2. rd1_end - rd2_off' + rd1_off = StreamLen * backlog'
        BY <1>3, <3>1, <3>3, <3>6
      <4>3. rd2_off' <= rd1_end' /\ wr_off' < rd2_off'
        BY <1>2, <3>7, <4>1
      <4>4. \E k \in Nat : rd1_off' = StreamLen * k
        BY <1>2, <3>2
      <4>5. rd2_off' > rd1_off' /\ ~ (rd2_off' <= rd1_off')
            /\ rd1_end' - rd2_off' + rd1_off' = StreamLen * backlog'
        BY <1>2, <1>3, <3>7, <4>1, <4>2
      <4> HIDE DEF wr_off
      <4> QED BY <4>1, <4>3, <4>4, <4>5 DEF RingInv
    <3>9. EndInv'
      BY <1>1, <1>2, <2>2 DEF EndInv
    <3> QED BY <3>7, <3>8, <3>9
  <2>3. CASE rd2_off < rd1_off
    <3>1. rd2_off' = rd2_off + StreamLen /\ backlog' = backlog - 1
      BY <1>3, <2>3 DEF Consume
    <3>2. rd1_off - rd2_off = StreamLen * backlog
      BY <1>1, <1>2, <1>3, <2>3 DEF RingInv
    <3>3. backlog >= 1 /\ StreamLen * backlog >= StreamLen
      <4>1. StreamLen * backlog > 0 /\ backlog \in Int /\ StreamLen \in Nat \ {0}
        BY <1>3, <2>3, <3>2
      <4> QED BY <4>1, Positive
    <3>4. StreamLen * (backlog - 1) = StreamLen * backlog - StreamLen
      BY <1>3
    <3>5. backlog' \in Nat /\ rd2_off' \in 0 .. Size /\ rd2_off' <= rd1_off /\ rd2_off' # 0
      BY <1>3, <3>1, <3>2, <3>3
    <3>6. rd1_off - rd2_off' = StreamLen * backlog'
      BY <1>3, <3>1, <3>2, <3>4
    <3> QED BY <1>1, <1>2, <1>3, <3>5, <3>6 DEF RingInv, EndInv
  <2> QED BY <1>2, <1>3, <2>1, <2>2, <2>3
<1>5. TypeOK'
  <2>1. /\ faults' = faults /\ rx' = rx /\ errorflag' = errorflag /\ spun' = spun
        /\ broken' = broken /\ swallowed' = swallowed /\ skipped' = skipped /\ wr_off' = wr_off
    BY <1>2 DEF Consume, link, flags, losing, wr_off
  <2> QED BY <1>1, <1>2, <1>4, <2>1 DEF TypeOK
<1>6. StreamInv' /\ InOrder'
  BY <1>1, <1>2, StreamKept
<1>7. PendInv' /\ SavedInv'
  <2>1. wr_off' = wr_off
    BY <1>2 DEF wr_off
  <2> QED BY <1>1, <1>2, <2>1 DEF PendInv, SavedInv
<1> QED BY <1>4, <1>5, <1>6, <1>7 DEF IInv

LEMMA StopStep == IInv /\ Stop => IInv'
<1> SUFFICES ASSUME IInv, Stop PROVE IInv'
  OBVIOUS
<1>1. TypeOK /\ StreamInv /\ InOrder /\ RingInv /\ PendInv /\ EndInv
  BY DEF IInv
<1>2. /\ sent' = sent /\ arriving' = arriving /\ pend' = pend /\ handled' = handled
      /\ rd1_off' = rd1_off /\ rd2_off' = rd2_off /\ rd1_end' = rd1_end /\ backlog' = backlog
      /\ overrun' = overrun /\ torn' = torn /\ pc' = pc /\ pc # "parse" /\ saved' = rd1_off
      /\ rx' = FALSE /\ late' = FALSE /\ errorflag' = errorflag /\ spun' = spun
      /\ broken' = broken /\ swallowed' = swallowed /\ skipped' = skipped /\ wr_off' = wr_off
  BY DEF Stop, ring, losing, wr_off
<1>3. faults' \in 0 .. MaxFaults
  BY <1>1, Sizes DEF Stop, Counted, TypeOK
<1>4. TypeOK'
  BY <1>1, <1>2, <1>3 DEF TypeOK
<1>5. StreamInv' /\ InOrder'
  BY <1>1, <1>2, StreamKept
<1>6. RingInv' /\ EndInv' /\ PendInv' /\ SavedInv'
  BY <1>1, <1>2 DEF RingInv, EndInv, PendInv, SavedInv
<1> QED BY <1>4, <1>5, <1>6 DEF IInv

\* The consumer gets what has been saved, which is rd1_off or where it turned.
LEMMA StoppedStep == IInv /\ Stopped => IInv'
<1> SUFFICES ASSUME IInv, Stopped PROVE IInv'
  OBVIOUS
<1> USE Sizes
<1>1. TypeOK /\ StreamInv /\ InOrder /\ RingInv /\ PendInv /\ EndInv /\ SavedInv
  BY DEF IInv
<1>2. /\ sent' = sent /\ arriving' = arriving /\ pend' = pend /\ handled' = handled
      /\ rd1_off' = rd1_off /\ rd1_end' = rd1_end /\ overrun' = overrun /\ pc' = pc
      /\ rd2_off' = saved /\ backlog' = 0 /\ saved # -1 /\ saved' = -1 /\ wr_off' = wr_off
      /\ faults' = faults /\ broken' = broken /\ swallowed' = swallowed /\ skipped' = skipped
  BY DEF Stopped, link, losing, wr_off
<1>3. torn' = (torn \/ late) /\ late' = FALSE /\ rx' = rx /\ errorflag' = errorflag /\ spun' = spun
  BY DEF Stopped, flags
<1>4. /\ rd1_off \in 0 .. Size /\ rd1_end \in 0 .. Size /\ saved \in 0 .. Size /\ wr_off <= Size
      /\ Len(pend) \in Nat /\ wr_off = rd1_off + Len(pend) /\ wr_off \in Int /\ rd2_off \in 0 .. Size
  BY <1>1, <1>2 DEF TypeOK, wr_off
<1> HIDE DEF wr_off
<1>5. TypeOK'
  <2>1. torn' \in BOOLEAN
    BY <1>3
  <2>2. late' \in BOOLEAN /\ rx' \in BOOLEAN /\ errorflag' \in BOOLEAN /\ spun' \in BOOLEAN
        /\ overrun' \in BOOLEAN
    BY <1>1, <1>2, <1>3 DEF TypeOK
  <2> QED BY <1>1, <1>2, <1>4, <2>1, <2>2 DEF TypeOK
<1>6. RingInv' /\ EndInv'
  <2>1. StreamLen * 0 = 0
    OBVIOUS
  <2>2. CASE torn \/ late
    <3>1. torn'
      BY <1>3, <2>2
    <3> QED BY <1>1, <1>2, <3>1 DEF RingInv, EndInv
  <2>3. CASE ~ torn /\ ~ late /\ saved = rd1_off
    <3>1. EndInv' /\ rd2_off' = rd1_off'
      BY <1>1, <1>2, <1>4, <2>3 DEF EndInv
    <3>2. ASSUME ~ overrun PROVE saved = 0 => wr_off < Size
      <4> SUFFICES ASSUME rd1_off = 0 PROVE wr_off < Size
        BY <2>3
      <4>1. rd2_off > rd1_off => wr_off < rd2_off
        BY <1>1, <2>3, <3>2 DEF RingInv
      <4>2. rd2_off = 0 => wr_off < Size
        BY <1>1, <2>3, <3>2 DEF RingInv
      <4> QED BY <1>4, <4>1, <4>2
    <3>3. rd1_off - saved = StreamLen * 0
      BY <1>4, <2>1, <2>3
    <3>4. ~ (saved > rd1_off)
      BY <1>4, <2>3
    <3> QED BY <1>2, <3>1, <3>2, <3>3, <3>4 DEF RingInv
  <2>4. CASE ~ torn /\ ~ late /\ saved # rd1_off
    <3>1. /\ rd1_off = 0 /\ saved = rd1_end /\ saved > 0
          /\ ~ overrun => wr_off < saved
      BY <1>1, <1>2, <1>4, <2>4 DEF SavedInv
    <3>2. EndInv'
      BY <1>1, <1>2, <1>4, <3>1 DEF EndInv
    <3>3. rd1_end - saved + rd1_off = StreamLen * 0 /\ \E m \in Nat : rd1_off = StreamLen * m
      BY <1>4, <2>1, <3>1
    <3> QED BY <1>2, <1>4, <3>1, <3>2, <3>3 DEF RingInv
  <2> QED BY <2>2, <2>3, <2>4
<1>7. StreamInv' /\ InOrder'
  BY <1>1, <1>2, StreamKept
<1>8. PendInv' /\ SavedInv'
  BY <1>1, <1>2 DEF PendInv, SavedInv
<1> QED BY <1>5, <1>6, <1>7, <1>8 DEF IInv

\* The flags alone, or nothing at all.
LEMMA FlagStep ==
    ASSUME IInv, UNCHANGED <<sent, arriving, pend, ring, stop, handled, losing, overrun>>,
           faults' \in 0 .. MaxFaults, rx' \in BOOLEAN, errorflag' \in BOOLEAN, spun' \in BOOLEAN,
           \/ pc' = pc
           \/ pc' = "parse" /\ saved = -1
           \/ pc' = "idle" /\ saved = -1 /\ Len(pend) < StreamMax
    PROVE  IInv'
<1>1. TypeOK /\ StreamInv /\ InOrder /\ RingInv /\ PendInv /\ EndInv /\ SavedInv
  BY DEF IInv
<1>2. /\ sent' = sent /\ arriving' = arriving /\ pend' = pend /\ handled' = handled
      /\ rd1_off' = rd1_off /\ rd2_off' = rd2_off /\ rd1_end' = rd1_end /\ backlog' = backlog
      /\ overrun' = overrun /\ broken' = broken /\ swallowed' = swallowed /\ skipped' = skipped
      /\ wr_off' = wr_off /\ saved' = saved /\ late' = late /\ torn' = torn
  BY DEF ring, stop, losing, wr_off
<1>3. overrun' \in BOOLEAN /\ pc' \in {"parse", "lock", "idle"}
  BY <1>1, <1>2, Zenon DEF TypeOK
<1>4. TypeOK'
  BY <1>1, <1>2, <1>3 DEF TypeOK
<1>5. RingInv' /\ EndInv'
  BY <1>1, <1>2 DEF RingInv, EndInv
<1>6. StreamInv' /\ InOrder'
  BY <1>1, <1>2, StreamKept
<1>7. PendInv' /\ SavedInv'
  BY <1>1, <1>2 DEF PendInv, SavedInv
<1> QED BY <1>4, <1>5, <1>6, <1>7 DEF IInv

LEMMA SetErrorStep == IInv /\ SetError => IInv'
<1> SUFFICES ASSUME IInv, SetError PROVE IInv'
  OBVIOUS
<1>1. TypeOK
  BY DEF IInv
<1>2. rx' \in BOOLEAN /\ errorflag' \in BOOLEAN /\ spun' \in BOOLEAN /\ pc' = pc
      /\ UNCHANGED <<sent, arriving, pend, ring, stop, handled, losing, overrun>>
  BY <1>1, Zenon DEF SetError, TypeOK
<1>3. faults' \in 0 .. MaxFaults
  BY <1>1, Sizes DEF SetError, Counted, TypeOK
<1> QED BY <1>2, <1>3, FlagStep

LEMMA StartStep == IInv /\ Start => IInv'
<1> SUFFICES ASSUME IInv, Start PROVE IInv'
  OBVIOUS
<1>1. TypeOK
  BY DEF IInv
<1>2. rx' \in BOOLEAN /\ errorflag' \in BOOLEAN /\ spun' \in BOOLEAN /\ pc' = pc
      /\ UNCHANGED <<sent, arriving, pend, ring, stop, handled, losing, overrun>> /\ faults' = faults
  BY <1>1, Zenon DEF Start, TypeOK, link
<1>3. faults' \in 0 .. MaxFaults
  BY <1>1, <1>2 DEF TypeOK
<1> QED BY <1>2, <1>3, FlagStep

LEMMA NothingStep == IInv /\ ParseNothing => IInv'
<1> SUFFICES ASSUME IInv, ParseNothing PROVE IInv'
  OBVIOUS
<1>1. TypeOK
  BY DEF IInv
<1>2. rx' \in BOOLEAN /\ errorflag' \in BOOLEAN /\ spun' \in BOOLEAN /\ pc' = pc
      /\ UNCHANGED <<sent, arriving, pend, ring, stop, handled, losing, overrun>> /\ faults' = faults
  BY <1>1, Zenon DEF ParseNothing, TypeOK, link, flags
<1>3. faults' \in 0 .. MaxFaults
  BY <1>1, <1>2 DEF TypeOK
<1> QED BY <1>2, <1>3, FlagStep

LEMMA LockStep == IInv /\ Lock => IInv'
<1> SUFFICES ASSUME IInv, Lock PROVE IInv'
  OBVIOUS
<1>1. TypeOK
  BY DEF IInv
<1>2. rx' \in BOOLEAN /\ errorflag' \in BOOLEAN /\ spun' \in BOOLEAN /\ pc' = "parse"
      /\ saved = -1 /\ UNCHANGED <<sent, arriving, pend, ring, stop, handled, losing, overrun>>
      /\ faults' = faults
  BY <1>1, Zenon DEF Lock, TypeOK, link, flags
<1>3. faults' \in 0 .. MaxFaults
  BY <1>1, <1>2 DEF TypeOK
<1> QED BY <1>2, <1>3, FlagStep

LEMMA IncompleteStep == IInv /\ ParseIncomplete => IInv'
<1> SUFFICES ASSUME IInv, ParseIncomplete PROVE IInv'
  OBVIOUS
<1>1. TypeOK /\ saved = -1
  BY DEF IInv, SavedInv, ParseIncomplete
<1>2. rx' \in BOOLEAN /\ errorflag' \in BOOLEAN /\ spun' \in BOOLEAN /\ pc' = "idle"
      /\ UNCHANGED <<sent, arriving, pend, ring, stop, handled, losing, overrun>> /\ faults' = faults
  BY <1>1, Zenon DEF ParseIncomplete, LoopEnds, TypeOK, link, flags
<1>3. faults' \in 0 .. MaxFaults
  BY <1>1, <1>2 DEF TypeOK
<1>4. Len(pend) < StreamMax
  <2>1. Len(pend) \in Nat
    BY <1>1 DEF TypeOK
  <2>2. CASE Len(pend) < HeadLen
    BY <2>1, <2>2, Sizes
  <2>3. CASE AtHeader /\ Declared <= StreamMax /\ Declared > Len(pend)
    <3>1. pend[1].kind \in Kinds
      <4>1. pend \in Seq(Cell) /\ Len(pend) >= 1
        BY <1>1, <2>1, <2>3, Sizes DEF TypeOK, AtHeader, Parsing
      <4>2. pend[1] \in Cell
        BY <4>1
      <4> QED BY <4>2 DEF Cell
    <3>2. Declared \in Nat
      BY <3>1, Sizes DEF Declared, StreamLength, CmdLength, Kinds
    <3> QED BY <2>1, <2>3, <3>2, Sizes
  <2> QED BY <2>2, <2>3 DEF ParseIncomplete
<1> QED BY <1>1, <1>2, <1>3, <1>4, FlagStep

LEMMA HandledNat ==
    ASSUME TypeOK
    PROVE  \A q \in 1 .. Len(handled) : handled[q] \in Nat
  BY Sizes DEF TypeOK

LEMMA SendStep == ASSUME NEW k \in Kinds, IInv, Send(k) PROVE IInv'
<1>1. TypeOK /\ StreamInv /\ InOrder /\ RingInv /\ PendInv /\ EndInv /\ SavedInv
  BY DEF IInv
<1> DEFINE w == Wire(sent + 1, k)
           s == pend \o arriving
           a == arriving \o w
           t == pend \o a
<1>2. /\ pend \in Seq(Cell) /\ arriving \in Seq(Cell) /\ s \in Seq(Cell) /\ sent \in Nat
      /\ Len(pend) \in Nat /\ Len(arriving) \in Nat /\ Len(s) = Len(pend) + Len(arriving)
      /\ \A i \in 1 .. Len(pend) : s[i] = pend[i]
      /\ \A i \in 1 .. Len(arriving) : s[Len(pend) + i] = arriving[i]
  BY <1>1, Streaming
<1>3. /\ sent' = sent + 1 /\ sent < MaxPackets /\ arriving' = a /\ pend' = pend
      /\ handled' = handled /\ UNCHANGED <<ring, overrun, pc, stop>>
      /\ broken' = IF k = "long" THEN broken \cup {sent + 1} ELSE broken
      /\ swallowed' = swallowed /\ skipped' = skipped
  BY DEF Send
<1>4. WireLength(k) \in Nat
  BY Sizes DEF WireLength, Kinds
<1>5. /\ w \in Seq(Cell) /\ Len(w) = WireLength(k)
      /\ \A i \in 1 .. Len(w) : w[i].pkt = sent + 1 /\ w[i].kind = k /\ w[i].at = i
  <2>1. w \in [1 .. WireLength(k) -> Cell]
    BY <1>2, <1>4 DEF Wire, Cell
  <2> QED BY <1>4, <2>1 DEF Wire
<1> HIDE DEF w
<1>6. /\ a \in Seq(Cell) /\ Len(a) = Len(arriving) + Len(w)
      /\ \A i \in 1 .. Len(arriving) : a[i] = arriving[i]
      /\ \A i \in 1 .. Len(a) : i > Len(arriving) =>
             i - Len(arriving) \in 1 .. Len(w) /\ a[i] = w[i - Len(arriving)]
  <2>1. arriving \in Seq(Cell) /\ w \in Seq(Cell)
    BY <1>2, <1>5
  <2> QED BY <2>1, Joined
<1> HIDE DEF a
<1>7. /\ t \in Seq(Cell) /\ Len(t) = Len(pend) + Len(a)
      /\ \A i \in 1 .. Len(pend) : t[i] = pend[i]
      /\ \A i \in 1 .. Len(t) : i > Len(pend) =>
             i - Len(pend) \in 1 .. Len(a) /\ t[i] = a[i - Len(pend)]
  <2>1. pend \in Seq(Cell) /\ a \in Seq(Cell)
    BY <1>2, <1>6
  <2> QED BY <2>1, Joined
<1> HIDE DEF s, t
<1>8. ASSUME NEW i \in 1 .. Len(t)
      PROVE  \/ i \in 1 .. Len(s) /\ t[i] = s[i]
             \/ /\ i > Len(s) /\ t[i].pkt = sent + 1 /\ t[i].kind = k /\ t[i].at = i - Len(s)
                /\ i - Len(s) \in 1 .. WireLength(k)
  <2>0. i \in Nat /\ i >= 1 /\ i <= Len(t) /\ Len(a) \in Nat /\ Len(t) \in Nat /\ Len(w) \in Nat
    BY <1>2, <1>4, <1>5, <1>6, <1>7
  <2>1. CASE i <= Len(pend)
    <3>1. i \in 1 .. Len(pend) /\ i \in 1 .. Len(s)
      BY <1>2, <2>0, <2>1
    <3> QED BY <1>2, <1>7, <3>1
  <2>2. CASE i > Len(pend) /\ i - Len(pend) <= Len(arriving)
    <3>1. i - Len(pend) \in 1 .. Len(arriving) /\ i \in 1 .. Len(s)
      BY <1>2, <2>0, <2>2
    <3>2. t[i] = a[i - Len(pend)] /\ a[i - Len(pend)] = arriving[i - Len(pend)]
      BY <1>6, <1>7, <2>2, <3>1
    <3>3. Len(pend) + (i - Len(pend)) = i
      BY <1>2, <2>0
    <3> QED BY <1>2, <3>1, <3>2, <3>3
  <2>3. CASE i > Len(pend) /\ i - Len(pend) > Len(arriving)
    <3>1. i - Len(pend) \in 1 .. Len(a) /\ t[i] = a[i - Len(pend)]
      BY <1>7, <2>3
    <3>2. /\ i - Len(pend) - Len(arriving) \in 1 .. Len(w)
          /\ a[i - Len(pend)] = w[i - Len(pend) - Len(arriving)]
      BY <1>6, <2>3, <3>1
    <3>3. i - Len(pend) - Len(arriving) = i - Len(s) /\ i > Len(s)
      BY <1>2, <2>0, <2>3
    <3> QED BY <1>5, <3>1, <3>2, <3>3
  <2> QED BY <1>2, <2>0, <2>1, <2>2, <2>3
<1>9. GoodStream(s, sent, handled) /\ Len(s) \in Nat
  BY <1>1, <1>2 DEF StreamInv, s
<1>10. \A i \in 1 .. Len(t) : t[i].pkt \in 1 .. sent + 1 /\ t[i].at \in 1 .. WireLength(t[i].kind)
  <2> SUFFICES ASSUME NEW i \in 1 .. Len(t)
               PROVE  t[i].pkt \in 1 .. sent + 1 /\ t[i].at \in 1 .. WireLength(t[i].kind)
    OBVIOUS
  <2>1. CASE i \in 1 .. Len(s) /\ t[i] = s[i]
    <3>1. s[i].pkt \in 1 .. sent /\ s[i].at \in 1 .. WireLength(s[i].kind)
      BY <1>9, <2>1 DEF GoodStream
    <3> QED BY <1>2, <2>1, <3>1
  <2>2. CASE /\ t[i].pkt = sent + 1 /\ t[i].kind = k /\ t[i].at = i - Len(s)
             /\ i - Len(s) \in 1 .. WireLength(k)
    BY <1>2, <2>2
  <2> QED BY <1>8, <2>1, <2>2
<1>11. ASSUME NEW i \in 1 .. Len(t), NEW j \in 1 .. Len(t), i < j
       PROVE  \/ t[i].pkt < t[j].pkt
              \/ t[i].pkt = t[j].pkt /\ t[i].kind = t[j].kind /\ t[j].at - t[i].at = j - i
  <2>1. CASE i \in 1 .. Len(s) /\ j \in 1 .. Len(s)
    BY <1>8, <1>9, <1>11, <2>1 DEF GoodStream
  <2>2. CASE i \in 1 .. Len(s) /\ j > Len(s)
    <3>1. t[i] = s[i] /\ s[i].pkt \in 1 .. sent /\ t[j].pkt = sent + 1
      BY <1>8, <1>9, <2>2 DEF GoodStream
    <3> QED BY <1>2, <3>1
  <2>3. CASE i > Len(s)
    <3>1. j > Len(s) /\ ~ (i \in 1 .. Len(s)) /\ ~ (j \in 1 .. Len(s))
      BY <1>9, <1>11, <2>3
    <3>2. /\ t[i].pkt = sent + 1 /\ t[i].kind = k /\ t[i].at = i - Len(s)
          /\ t[j].pkt = sent + 1 /\ t[j].kind = k /\ t[j].at = j - Len(s)
      BY <1>8, <3>1
    <3>3. (j - Len(s)) - (i - Len(s)) = j - i
      BY <1>9
    <3> QED BY <3>2, <3>3
  <2>4. i \in Nat /\ j \in Nat /\ i >= 1 /\ j >= 1
    BY <1>7
  <2> QED BY <1>9, <2>1, <2>2, <2>3, <2>4
<1>12. \A q \in 1 .. Len(handled), i \in 1 .. Len(t) : handled[q] < t[i].pkt
  <2> SUFFICES ASSUME NEW q \in 1 .. Len(handled), NEW i \in 1 .. Len(t)
               PROVE  handled[q] < t[i].pkt
    OBVIOUS
  <2>1. CASE i \in 1 .. Len(s)
    BY <1>8, <1>9, <2>1 DEF GoodStream
  <2>2. CASE ~ (i \in 1 .. Len(s))
    <3>1. t[i].pkt = sent + 1
      BY <1>8, <2>2
    <3>2. handled[q] <= sent /\ handled[q] \in Nat
      BY <1>2, <1>9, <1>1, HandledNat DEF GoodStream
    <3> QED BY <1>2, <3>1, <3>2
  <2> QED BY <2>1, <2>2
<1>13. \A q \in 1 .. Len(handled) : handled[q] <= sent + 1
  <2> SUFFICES ASSUME NEW q \in 1 .. Len(handled) PROVE handled[q] <= sent + 1
    OBVIOUS
  <2>1. handled[q] <= sent /\ handled[q] \in Nat
    BY <1>2, <1>9, <1>1, HandledNat DEF GoodStream
  <2> QED BY <1>2, <2>1
<1>14. StreamInv'
  <2>1. GoodStream(t, sent + 1, handled)
    BY <1>10, <1>11, <1>12, <1>13 DEF GoodStream
  <2> QED BY <1>3, <2>1 DEF StreamInv, t
<1>15. InOrder' /\ PendInv'
  BY <1>1, <1>3 DEF InOrder, PendInv
<1>16. RingInv' /\ EndInv' /\ SavedInv'
  <2>1. /\ rd1_off' = rd1_off /\ rd2_off' = rd2_off /\ rd1_end' = rd1_end /\ backlog' = backlog
        /\ overrun' = overrun /\ wr_off' = wr_off /\ pc' = pc
        /\ saved' = saved /\ late' = late /\ torn' = torn
    BY <1>3 DEF ring, stop, wr_off
  <2> QED BY <1>1, <2>1 DEF RingInv, EndInv, SavedInv
<1>17. TypeOK'
  <2>1. faults' \in 0 .. MaxFaults /\ sent' \in 0 .. MaxPackets /\ arriving' \in Seq(Cell)
    <3>1. faults' \in 0 .. MaxFaults
      BY <1>1, Sizes DEF Send, Counted, TypeOK
    <3>2. sent + 1 \in 0 .. MaxPackets
      BY <1>2, <1>3, Sizes
    <3> QED BY <1>3, <1>6, <3>1, <3>2
  <2>2. broken' \subseteq 1 .. MaxPackets
    <3>1. sent + 1 \in 1 .. MaxPackets
      BY <1>2, <1>3, Sizes
    <3> QED BY <1>1, <1>3, <3>1 DEF TypeOK
  <2>3. rx' \in BOOLEAN /\ errorflag' \in BOOLEAN /\ spun' \in BOOLEAN /\ overrun' \in BOOLEAN
        /\ late' \in BOOLEAN /\ torn' \in BOOLEAN /\ saved' = saved
    BY <1>1, Zenon DEF Send, flags, stop, TypeOK
  <2>4. /\ rd1_off' = rd1_off /\ rd2_off' = rd2_off /\ rd1_end' = rd1_end /\ backlog' = backlog
        /\ wr_off' = wr_off
    BY <1>3 DEF ring, wr_off
  <2> QED BY <1>1, <1>3, <2>1, <2>2, <2>3, <2>4 DEF TypeOK
<1> HIDE DEF IInv
<1> QED BY <1>14, <1>15, <1>16, <1>17 DEF IInv

LEMMA ReconnectStep == IInv /\ Reconnect => IInv'
<1> SUFFICES ASSUME IInv, Reconnect PROVE IInv'
  OBVIOUS
<1>1. TypeOK /\ StreamInv /\ InOrder /\ RingInv /\ PendInv /\ EndInv /\ SavedInv
  BY DEF IInv
<1>2. /\ arriving' = <<>> /\ broken' = broken \cup PacketsOf(arriving)
      /\ UNCHANGED <<sent, pend, rd1_off, rd2_off, rd1_end, backlog, pc, handled, swallowed,
                     skipped, overrun, wr_off, saved, late, torn>>
  BY DEF Reconnect, ring, stop, wr_off
<1>3. StreamInv'
  <2>1. /\ pend \in Seq(Cell) /\ <<>> \in Seq(Cell) /\ Len(<<>>) = 0 /\ Len(pend) \in Nat
        /\ Len(pend) + Len(<<>>) + 0 <= Len(pend \o arriving)
        /\ \A i \in 1 .. Len(pend) : pend[i] = (pend \o arriving)[i + 0]
    BY <1>1, Streaming
  <2>2. PICK p, e : p = pend /\ e = <<>>
    OBVIOUS
  <2>3. \A i \in 1 .. Len(e) : e[i] = (pend \o arriving)[Len(p) + i + 0]
    BY <2>1, <2>2
  <2> QED BY <1>1, <1>2, <2>1, <2>2, <2>3, PieceStep
<1>4. TypeOK'
  <2>1. faults' \in 0 .. MaxFaults
    BY <1>1, Sizes DEF Reconnect, Counted, TypeOK
  <2>2. broken' \subseteq 1 .. MaxPackets
    <3>1. PacketsOf(arriving) \subseteq 1 .. MaxPackets /\ broken \subseteq 1 .. MaxPackets
      BY <1>1, Streaming DEF TypeOK
    <3> QED BY <1>2, <3>1
  <2>3. rx' \in BOOLEAN /\ errorflag' \in BOOLEAN /\ spun' \in BOOLEAN /\ overrun' \in BOOLEAN
        /\ late' \in BOOLEAN /\ torn' \in BOOLEAN /\ saved' = saved
    BY <1>1, Zenon DEF Reconnect, flags, stop, TypeOK
  <2>4. <<>> \in Seq(Cell)
    OBVIOUS
  <2> QED BY <1>1, <1>2, <2>1, <2>2, <2>3, <2>4 DEF TypeOK
<1>5. RingInv' /\ EndInv' /\ PendInv' /\ SavedInv' /\ InOrder'
  BY <1>1, <1>2 DEF RingInv, EndInv, PendInv, SavedInv, InOrder
<1> QED BY <1>3, <1>4, <1>5 DEF IInv

LEMMA DrainedStep ==
    ASSUME TypeOK, StreamInv, NEW n \in 1 .. Len(arriving), Drained(n), sent' = sent,
           handled' = handled
    PROVE  /\ StreamInv' /\ pend' = <<>> /\ Len(pend') = 0 /\ pend' \in Seq(Cell)
           /\ arriving' \in Seq(Cell) /\ broken' \subseteq 1 .. MaxPackets
<1>1. /\ pend \in Seq(Cell) /\ arriving \in Seq(Cell) /\ Len(pend) \in Nat /\ Len(arriving) \in Nat
      /\ Len(pend \o arriving) = Len(pend) + Len(arriving)
      /\ \A i \in 1 .. Len(arriving) : (pend \o arriving)[Len(pend) + i] = arriving[i]
      /\ PacketsOf(pend) \subseteq 1 .. MaxPackets
      /\ \A k \in 0 .. Len(arriving) : PacketsOf(SubSeq(arriving, 1, k)) \subseteq 1 .. MaxPackets
  BY Streaming
<1>2. /\ Drop(arriving, n) \in Seq(Cell) /\ Len(Drop(arriving, n)) = Len(arriving) - n
      /\ \A i \in 1 .. Len(arriving) - n : Drop(arriving, n)[i] = arriving[i + n]
  <2>1. n \in 0 .. Len(arriving)
    BY <1>1
  <2> QED BY <1>1, <2>1, Cut
<1>3. PICK e, a : e = <<>> /\ a = Drop(arriving, n)
  OBVIOUS
<1>4. pend' = e /\ arriving' = a /\ e \in Seq(Cell) /\ a \in Seq(Cell) /\ Len(e) = 0
      /\ Len(a) = Len(arriving) - n
  BY <1>2, <1>3 DEF Drained
<1>5. StreamInv'
  <2>1. Len(pend) + n \in Nat /\ Len(e) + Len(a) + (Len(pend) + n) <= Len(pend \o arriving)
    BY <1>1, <1>4
  <2>2. \A i \in 1 .. Len(e) : e[i] = (pend \o arriving)[i + (Len(pend) + n)]
    BY <1>4
  <2>3. ASSUME NEW i \in 1 .. Len(a)
        PROVE  a[i] = (pend \o arriving)[Len(e) + i + (Len(pend) + n)]
    <3>1. i \in 1 .. Len(arriving) - n /\ i + n \in 1 .. Len(arriving)
      BY <1>1, <1>4
    <3>2. a[i] = arriving[i + n] /\ (pend \o arriving)[Len(pend) + (i + n)] = arriving[i + n]
      BY <1>1, <1>2, <1>3, <3>1
    <3>3. Len(e) + i + (Len(pend) + n) = Len(pend) + (i + n)
      BY <1>1, <1>4
    <3> QED BY <3>2, <3>3
  <2> QED BY <1>4, <2>1, <2>2, <2>3, PieceStep
<1>6. broken' \subseteq 1 .. MaxPackets
  <2>1. n \in 0 .. Len(arriving)
    BY <1>1
  <2>2. PacketsOf(SubSeq(arriving, 1, n)) \subseteq 1 .. MaxPackets /\ broken \subseteq 1 .. MaxPackets
    BY <1>1, <2>1 DEF TypeOK
  <2> QED BY <1>1, <2>2 DEF Drained
<1> QED BY <1>3, <1>4, <1>5, <1>6

LEMMA ResetStep == ASSUME NEW n \in 1 .. Len(arriving), IInv, ReadReset(n) PROVE IInv'
<1>1. TypeOK /\ StreamInv /\ InOrder
  BY DEF IInv
<1>2. /\ rd1_off' = 0 /\ rd2_off' = 0 /\ rd1_end' = 0 /\ backlog' = 0 /\ Drained(n)
      /\ UNCHANGED <<sent, faults, pc, saved, handled, swallowed, skipped, overrun>> /\ pc = "idle"
      /\ late' = (saved # -1) /\ torn' = FALSE
  BY DEF ReadReset
<1>3. /\ StreamInv' /\ pend' = <<>> /\ Len(pend') = 0 /\ pend' \in Seq(Cell)
      /\ arriving' \in Seq(Cell) /\ broken' \subseteq 1 .. MaxPackets
  BY <1>1, <1>2, DrainedStep
<1>4. wr_off' = 0
  BY <1>2, <1>3 DEF wr_off
<1>5. TypeOK'
  <2>1. rx' \in BOOLEAN /\ errorflag' \in BOOLEAN /\ spun' \in BOOLEAN /\ overrun' \in BOOLEAN
        /\ late' \in BOOLEAN /\ torn' \in BOOLEAN /\ saved' = saved
    BY <1>1, Zenon DEF ReadReset, stop, TypeOK
  <2>2. 0 \in 0 .. Size /\ 0 <= Size
    BY Sizes
  <2> QED BY <1>1, <1>2, <1>3, <1>4, <2>1, <2>2 DEF TypeOK
<1>6. RingInv' /\ EndInv' /\ PendInv' /\ SavedInv' /\ InOrder'
  <2>1. StreamLen * 0 = 0 /\ Size > 0 /\ StreamMax > 0
    BY Sizes
  <2>2. RingInv'
    BY <1>2, <1>4, <2>1 DEF RingInv
  <2>3. EndInv' /\ InOrder'
    BY <1>1, <1>2 DEF EndInv, InOrder
  <2>4. PendInv' /\ SavedInv'
    BY <1>2, <1>3, <2>1 DEF PendInv, SavedInv
  <2> QED BY <2>2, <2>3, <2>4
<1> QED BY <1>3, <1>5, <1>6 DEF IInv

LEMMA FullStep == ASSUME NEW n \in 1 .. Len(arriving), IInv, ReadFull(n) PROVE IInv'
<1>1. TypeOK /\ StreamInv /\ InOrder /\ RingInv /\ PendInv /\ EndInv /\ SavedInv
  BY DEF IInv
<1>2. /\ Drained(n)
      /\ UNCHANGED <<sent, faults, pc, handled, swallowed, skipped, overrun, rd1_off, rd2_off,
                     rd1_end, backlog, saved, late, torn>>
      /\ pc = "idle"
  BY DEF ReadFull, ring, stop
<1>3. /\ StreamInv' /\ pend' = <<>> /\ Len(pend') = 0 /\ pend' \in Seq(Cell)
      /\ arriving' \in Seq(Cell) /\ broken' \subseteq 1 .. MaxPackets
  BY <1>1, <1>2, DrainedStep
<1>4. wr_off' = rd1_off /\ rd1_off <= wr_off /\ rd1_off \in Int /\ wr_off \in Int /\ wr_off <= Size
      /\ rd2_off \in Int /\ Size \in Int /\ StreamMax > 0
  BY <1>1, <1>2, <1>3, Sizes DEF wr_off, TypeOK
<1>5. TypeOK'
  <2>1. rx' \in BOOLEAN /\ errorflag' \in BOOLEAN /\ spun' \in BOOLEAN /\ overrun' \in BOOLEAN
        /\ late' \in BOOLEAN /\ torn' \in BOOLEAN /\ saved' = saved
    BY <1>1, Zenon DEF ReadFull, flags, stop, TypeOK
  <2> QED BY <1>1, <1>2, <1>3, <1>4, <2>1 DEF TypeOK
<1>6. RingInv' /\ EndInv' /\ PendInv' /\ SavedInv' /\ InOrder'
  BY <1>1, <1>2, <1>3, <1>4 DEF RingInv, EndInv, PendInv, SavedInv, InOrder
<1> QED BY <1>3, <1>5, <1>6 DEF IInv

\* The first n cells of pend go, and the offsets stay or rd1_off moves up by n.
LEMMA RingCut ==
    ASSUME TypeOK, RingInv, EndInv, NEW n \in 0 .. Len(pend), Len(pend') = Len(pend) - n,
           UNCHANGED <<rd2_off, rd1_end, overrun, torn>>,
           \/ rd1_off' = rd1_off /\ backlog' = backlog
           \/ n = StreamLen /\ rd1_off' = rd1_off + n /\ backlog' = backlog + 1
    PROVE  /\ rd1_off' \in 0 .. Size /\ wr_off' <= Size /\ backlog' \in Nat
           /\ RingInv' /\ EndInv'
<1>1. /\ rd1_off \in 0 .. Size /\ wr_off <= Size /\ Len(pend) \in Nat /\ wr_off = rd1_off + Len(pend)
      /\ backlog \in Nat /\ rd2_off \in Int /\ rd1_end \in Int /\ Size \in Nat /\ StreamLen \in Nat
      /\ wr_off' = rd1_off' + Len(pend')
  BY Sizes DEF TypeOK, wr_off
<1>2. CASE rd1_off' = rd1_off /\ backlog' = backlog
  <2>1. wr_off' <= wr_off /\ wr_off' \in Int /\ wr_off \in Int
    BY <1>1, <1>2
  <2>2. EndInv'
    BY <1>2 DEF EndInv
  <2>3. ASSUME ~ overrun /\ ~ torn PROVE RingInv'
    <3>1. rd2_off <= rd1_off => rd1_off' - rd2_off' = StreamLen * backlog'
      BY <1>2, <2>3 DEF RingInv
    <3>2. rd2_off > rd1_off => /\ rd2_off' <= rd1_end' /\ wr_off' < rd2_off'
                               /\ rd1_end' - rd2_off' + rd1_off' = StreamLen * backlog'
      BY <1>1, <1>2, <2>1, <2>3 DEF RingInv
    <3>3. rd2_off > rd1_off => \E m \in Nat : rd1_off' = StreamLen * m
      BY <1>2, <2>3 DEF RingInv
    <3>4. rd2_off = 0 => wr_off' < Size
      BY <1>1, <2>1, <2>3 DEF RingInv
    <3> HIDE DEF wr_off
    <3> QED BY <1>2, <3>1, <3>2, <3>3, <3>4 DEF RingInv
  <2>4. RingInv'
    BY <2>3 DEF RingInv
  <2> QED BY <1>1, <1>2, <2>1, <2>2, <2>4
<1>3. CASE n = StreamLen /\ rd1_off' = rd1_off + n /\ backlog' = backlog + 1
  <2>1. wr_off' = wr_off /\ rd1_off' \in 0 .. Size /\ rd1_off' >= rd1_off /\ rd1_off' <= wr_off
    BY <1>1, <1>3
  <2>2. StreamLen * (backlog + 1) = StreamLen * backlog + StreamLen
    BY <1>1
  <2>3. EndInv'
    BY <1>1, <2>1 DEF EndInv
  <2>4. ASSUME ~ overrun /\ ~ torn PROVE RingInv'
    <3>1. CASE rd2_off <= rd1_off
      <4>1. rd1_off - rd2_off = StreamLen * backlog /\ (rd2_off = 0 => wr_off < Size)
        BY <2>4, <3>1 DEF RingInv
      <4>2. rd1_off' - rd2_off = StreamLen * backlog' /\ rd2_off <= rd1_off'
        BY <1>1, <1>3, <2>1, <2>2, <3>1, <4>1
      <4>3. ~ (rd2_off > rd1_off')
        BY <1>1, <2>1, <4>2
      <4> HIDE DEF wr_off
      <4> QED BY <2>1, <4>1, <4>2, <4>3 DEF RingInv
    <3>2. CASE rd2_off > rd1_off
      <4>1. /\ rd2_off <= rd1_end /\ wr_off < rd2_off
            /\ rd1_end - rd2_off + rd1_off = StreamLen * backlog
            /\ \E m \in Nat : rd1_off = StreamLen * m
            /\ (rd2_off = 0 => wr_off < Size)
        BY <2>4, <3>2 DEF RingInv
      <4>2. PICK m \in Nat : rd1_off = StreamLen * m
        BY <4>1
      <4>3. rd1_off' = StreamLen * (m + 1) /\ m + 1 \in Nat
        BY <1>1, <1>3, <4>2
      <4>4. /\ ~ (rd2_off <= rd1_off')
            /\ rd1_end - rd2_off + rd1_off' = StreamLen * backlog'
        BY <1>1, <1>3, <2>1, <2>2, <4>1
      <4>5. \E k \in Nat : rd1_off' = StreamLen * k
        BY <4>3
      <4> HIDE DEF wr_off
      <4> QED BY <2>1, <4>1, <4>4, <4>5 DEF RingInv
    <3> QED BY <1>1, <3>1, <3>2
  <2>5. RingInv'
    BY <2>4 DEF RingInv
  <2> QED BY <1>1, <1>3, <2>1, <2>3, <2>5
<1> QED BY <1>2, <1>3

\* The three ways to netcom_find_header
LEMMA HeaderStep == IInv /\ (ParseInvalid \/ ParseTooLong \/ ParseStreamTorn) => IInv'
<1> SUFFICES ASSUME IInv, ParseInvalid \/ ParseTooLong \/ ParseStreamTorn PROVE IInv'
  OBVIOUS
<1>1. TypeOK /\ StreamInv /\ InOrder /\ RingInv /\ PendInv /\ EndInv /\ SavedInv
  BY DEF IInv
<1>2. Parsing /\ FindHeader
  BY DEF ParseInvalid, ParseTooLong, ParseStreamTorn, AtGoodStream, AtStream, AtHeader
<1>3. /\ UNCHANGED <<sent, faults, arriving, rd1_off, rd2_off, rd1_end, backlog, handled, broken,
                     swallowed, overrun, saved, late, torn>> /\ saved = -1
  BY <1>1, <1>2 DEF FindHeader, link, ring, stop, Parsing, SavedInv
<1>4. PICK n \in 0 .. Len(pend) : /\ pend' = Drop(pend, n)
                                  /\ pc' = "parse" \/ (pc' = "idle" /\ Len(pend) - n <= HeadLen)
  BY <1>1, <1>2, HeaderFound
<1>5. skipped' \subseteq 1 .. MaxPackets
  BY <1>1, <1>2, HeaderFound
<1>6. /\ pend' \in Seq(Cell) /\ Len(pend') = Len(pend) - n
      /\ GoodStream((pend \o arriving)', sent, handled)
  BY <1>1, <1>3, <1>4, PendCut
<1>7. /\ rd1_off' \in 0 .. Size /\ wr_off' <= Size /\ backlog' \in Nat
      /\ RingInv' /\ EndInv'
  BY <1>1, <1>3, <1>6, RingCut
<1>8. StreamInv'
  BY <1>3, <1>6 DEF StreamInv
<1>9. TypeOK'
  <2>1. rx' \in BOOLEAN /\ errorflag' \in BOOLEAN /\ spun' \in BOOLEAN /\ overrun' \in BOOLEAN
        /\ late' \in BOOLEAN /\ torn' \in BOOLEAN /\ saved' = saved
    BY <1>1, <1>2, Zenon DEF FindHeader, flags, stop, TypeOK
  <2> QED BY <1>1, <1>3, <1>4, <1>5, <1>6, <1>7, <2>1 DEF TypeOK
<1>10. InOrder' /\ PendInv' /\ SavedInv'
  <2>1. Len(pend) - n <= HeadLen => Len(pend') < StreamMax
    BY <1>1, <1>6, Sizes DEF TypeOK
  <2> QED BY <1>1, <1>3, <1>4, <2>1 DEF InOrder, PendInv, SavedInv
<1> QED BY <1>7, <1>8, <1>9, <1>10 DEF IInv

\* At a header: the packet's first cell, and what it declares.
LEMMA HeaderCells ==
    ASSUME TypeOK, AtHeader
    PROVE  /\ Len(pend) \in Nat /\ pend[1].at = 1 /\ pend[1].kind \in Kinds /\ Declared \in Nat
           /\ AtGoodStream => Declared = StreamLen /\ Declared = WireLength(pend[1].kind)
           /\ ~ AtStream /\ Declared # 0 => Declared = WireLength(pend[1].kind)
<1>1. pend \in Seq(Cell) /\ Len(pend) >= HeadLen /\ Len(pend) \in Nat /\ 1 <= HeadLen
      /\ HeadLen \in Nat
  BY Sizes DEF TypeOK, AtHeader, Parsing
<1>2. pend[1] \in Cell
  BY <1>1
<1>3. pend[1].kind \in Kinds
  BY <1>2 DEF Cell
<1>4. pend[1].at = 1
  BY <1>1 DEF AtHeader, Valid, Whole
<1>5. /\ Declared \in Nat
      /\ AtGoodStream => Declared = StreamLen /\ Declared = WireLength(pend[1].kind)
      /\ ~ AtStream /\ Declared # 0 => Declared = WireLength(pend[1].kind)
  BY <1>3, Sizes DEF Declared, StreamLength, CmdLength, WireLength, Kinds, AtGoodStream, AtStream
<1> QED BY <1>1, <1>3, <1>4, <1>5

\* A packet is taken out, and rd1_off stays or moves behind it.
LEMMA TakeStep == IInv /\ (ParseStream \/ ParseStreamOff \/ ParseCmd) => IInv'
<1> SUFFICES ASSUME IInv, ParseStream \/ ParseStreamOff \/ ParseCmd PROVE IInv'
  OBVIOUS
<1>1. TypeOK /\ StreamInv /\ InOrder /\ RingInv /\ PendInv /\ EndInv /\ SavedInv
  BY DEF IInv
<1>2. /\ AtHeader /\ Take(Declared)
      /\ UNCHANGED <<sent, faults, arriving, rd2_off, rd1_end, broken, skipped, overrun, pc,
                     saved, late, torn>>
      /\ pc = "parse"
  BY DEF ParseStream, ParseStreamOff, ParseCmd, link, ring, stop, AtGoodStream, AtStream, AtHeader, Parsing
<1>3. Declared \in 1 .. Len(pend) /\ pend[1].at = 1 /\ Declared = WireLength(pend[1].kind)
  <2>1. CASE ParseCmd
    BY <1>1, <1>2, <2>1, HeaderCells DEF ParseCmd
  <2>2. CASE ParseStream \/ ParseStreamOff
    <3>1. AtGoodStream /\ Declared <= Len(pend)
      BY <2>2 DEF ParseStream, ParseStreamOff, Whole
    <3> QED BY <1>1, <1>2, <3>1, HeaderCells, Sizes
  <2> QED BY <2>1, <2>2
<1>4. PICK n \in 1 .. Len(pend) : n = Declared
  BY <1>3
<1>5. /\ pend' \in Seq(Cell) /\ Len(pend') = Len(pend) - n
      /\ handled' \in Seq(1 .. MaxPackets)
      /\ swallowed' \subseteq 1 .. MaxPackets
      /\ StreamInv' /\ InOrder'
  BY <1>1, <1>2, <1>3, <1>4, TakeOut
<1>6. \/ rd1_off' = rd1_off /\ backlog' = backlog
      \/ n = StreamLen /\ rd1_off' = rd1_off + n /\ backlog' = backlog + 1
  <2>1. CASE ParseStream
    BY <1>1, <1>2, <1>4, <2>1, HeaderCells DEF ParseStream
  <2>2. CASE ParseStreamOff \/ ParseCmd
    BY <2>2 DEF ParseStreamOff, ParseCmd, ring
  <2> QED BY <2>1, <2>2
<1>7. /\ rd1_off' \in 0 .. Size /\ wr_off' <= Size /\ backlog' \in Nat
      /\ RingInv' /\ EndInv'
  <2>1. n \in 0 .. Len(pend)
    BY <1>4
  <2> QED BY <1>1, <1>2, <1>5, <1>6, <2>1, RingCut
<1>8. TypeOK'
  <2>1. rx' \in BOOLEAN /\ errorflag' \in BOOLEAN /\ spun' \in BOOLEAN /\ overrun' \in BOOLEAN
        /\ late' \in BOOLEAN /\ torn' \in BOOLEAN /\ saved' = saved
    BY <1>1, Zenon DEF ParseStream, ParseStreamOff, ParseCmd, flags, stop, TypeOK
  <2> QED BY <1>1, <1>2, <1>5, <1>7, <2>1 DEF TypeOK
<1>9. PendInv' /\ SavedInv'
  BY <1>1, <1>2 DEF PendInv, SavedInv
<1> QED BY <1>5, <1>7, <1>8, <1>9 DEF IInv

-----------------------------------------------------------------------------
\* The room there is to read

LEMMA MaskedNat == ASSUME NEW x \in Int PROVE Masked(x) \in Nat
<1>1. Half \in Nat \ {0}
  BY Sizes
<1>2. x % Half \in Nat
  BY <1>1
<1> QED BY <1>2, Sizes DEF Masked

LEMMA TwoMin ==
    ASSUME NEW a \in Nat, NEW b \in Nat
    PROVE  Min({a, b}) \in Nat /\ Min({a, b}) <= a /\ Min({a, b}) <= b
<1>1. {a, b} \subseteq Nat /\ {a, b} # {}
  OBVIOUS
<1>2. Min({a, b}) \in {a, b}
  BY <1>1, Least
<1>3. CASE a <= b
  BY <1>3 DEF Min
<1>4. CASE b <= a
  BY <1>4 DEF Min
<1> QED BY <1>3, <1>4

\* CIRC_SPACE_TO_END keeps within the buffer, and short of its last cell if
\* the consumer is at its start.
LEMMA ToEndFits ==
    ASSUME TypeOK
    PROVE  /\ Turned \in 0 .. Size /\ ToEnd \in Nat /\ Turned + Len(pend) + ToEnd <= Size
           /\ rd2_off = 0 /\ ~ AtEnd => Turned + Len(pend) + ToEnd < Size
<1>1. /\ rd1_off \in 0 .. Size /\ rd2_off \in 0 .. Size /\ Len(pend) \in Nat
      /\ rd1_off + Len(pend) <= Size
  BY DEF TypeOK, wr_off
<1> DEFINE h == Turned + Len(pend)
           e == Size - 1 - h
           m == Masked(e + rd2_off)
<1>2. Turned \in 0 .. Size /\ h \in 0 .. Size
  BY <1>1, Sizes DEF Turned
<1>3. e \in Int /\ e >= -1 /\ e + rd2_off \in Int
  BY <1>1, <1>2, Sizes
<1>4. m \in Nat
  BY <1>3, MaskedNat
<1>5. ToEnd = IF m <= e THEN m ELSE e + 1
  BY DEF ToEnd, CIRC_SPACE_TO_END
<1>6. ASSUME rd2_off = 0, ~ AtEnd PROVE m <= e
  <2>1. h = rd1_off + Len(pend) /\ h <= Size - Margin
    BY <1>1, <1>6, Sizes DEF Turned, AtEnd, wr_off
  <2>2. e \in Nat /\ e + rd2_off = e /\ e < 3 * Half
    BY <1>1, <1>2, <1>6, <2>1, Sizes
  <2> HIDE DEF e
  <2>3. CASE e < Half
    <3>1. Half * 0 <= e /\ e < Half * (0 + 1) /\ e \in Int
      BY <2>2, <2>3, Sizes
    <3>2. Masked(e) = e - Half * 0
      BY <3>1, MaskedIs
    <3> QED BY <2>2, <3>2, Sizes
  <2>4. CASE Half <= e /\ e < 2 * Half
    <3>1. Half * 1 <= e /\ e < Half * (1 + 1) /\ e \in Int
      BY <2>2, <2>4, Sizes
    <3>2. Masked(e) = e - Half * 1
      BY <3>1, MaskedIs
    <3> QED BY <2>2, <3>2, Sizes
  <2>5. CASE 2 * Half <= e
    <3>1. Half * 2 <= e /\ e < Half * (2 + 1) /\ e \in Int
      BY <2>2, <2>5, Sizes
    <3>2. Masked(e) = e - Half * 2 + 2 * Half
      BY <3>1, MaskedIs
    <3> QED BY <2>2, <3>2, Sizes
  <2> QED BY <2>2, <2>3, <2>4, <2>5, Sizes
<1>7. ToEnd \in Nat /\ h + ToEnd <= Size /\ (m <= e => h + ToEnd < Size)
  <2>1. h \in Int /\ Size \in Int /\ h + (e + 1) = Size
    BY <1>2, Sizes
  <2> HIDE DEF m, h
  <2>2. CASE m <= e
    BY <1>2, <1>3, <1>4, <1>5, <2>1, <2>2
  <2>3. CASE ~ (m <= e)
    BY <1>2, <1>3, <1>4, <1>5, <2>1, <2>3
  <2> QED BY <2>2, <2>3
<1> QED BY <1>2, <1>6, <1>7

\* Near the end of the buffer there is room only if the consumer has left the
\* start and has not been left behind.
LEMMA TurnIsSafe ==
    ASSUME TypeOK, RingInv, ~ overrun, ~ torn, AtEnd, ~ Full
    PROVE  0 < rd2_off /\ rd2_off <= rd1_off
<1>1. /\ rd1_off \in 0 .. Size /\ rd2_off \in 0 .. Size /\ rd1_end \in 0 .. Size
      /\ Len(pend) \in Nat /\ wr_off = rd1_off + Len(pend) /\ wr_off \in Int
  BY Sizes DEF TypeOK, wr_off
<1>2. wr_off > 3 * Half - Margin /\ ~ (Room <= Len(pend) + Margin)
  BY Sizes DEF AtEnd, Full
<1> HIDE DEF wr_off
<1>3. Room = Masked(rd2_off - (wr_off + 1))
  BY DEF Room, CIRC_SPACE
<1>4. ASSUME rd2_off = 0 PROVE FALSE
  <2>1. wr_off < 3 * Half
    BY <1>4, Sizes DEF RingInv
  <2> DEFINE x == 0 - (wr_off + 1)
  <2>2. Half * (-3) <= x /\ x < Half * (-3 + 1) /\ x \in Int
    BY <1>1, <1>2, <2>1, Sizes
  <2>3. Masked(x) = x - Half * (-3)
    <3> HIDE DEF x
    <3> QED BY <2>2, MaskedIs
  <2>4. x - Half * (-3) <= Margin
    BY <1>1, <1>2, Sizes
  <2> QED BY <1>1, <1>2, <1>3, <1>4, <2>2, <2>3, <2>4, Sizes
<1>5. ASSUME rd2_off > rd1_off PROVE FALSE
  <2>1. wr_off < rd2_off
    BY <1>5 DEF RingInv
  <2> DEFINE x == rd2_off - (wr_off + 1)
  <2>2. Half * 0 <= x /\ x < Half * (0 + 1) /\ x \in Int /\ x <= Margin
    BY <1>1, <1>2, <2>1, Sizes
  <2>3. Masked(x) = x - Half * 0
    <3> HIDE DEF x
    <3> QED BY <2>2, MaskedIs
  <2> QED BY <1>1, <1>2, <1>3, <2>2, <2>3, Sizes
<1> QED BY <1>1, <1>4, <1>5, Sizes

LEMMA ReadStep == ASSUME NEW n \in 1 .. Len(arriving), IInv, Read(n) PROVE IInv'
<1>1. TypeOK /\ StreamInv /\ InOrder /\ RingInv /\ PendInv /\ EndInv /\ SavedInv
  BY DEF IInv
<1>2. PICK k : k = Min({n, ToEnd})
  OBVIOUS
<1>3. /\ pend' = pend \o SubSeq(arriving, 1, k) /\ arriving' = Drop(arriving, k)
      /\ rd1_off' = Turned /\ rd1_end' = (IF AtEnd THEN rd1_off ELSE rd1_end)
      /\ overrun' = (overrun \/ (Turned < rd2_off /\ Turned + Len(pend') >= rd2_off))
      /\ pc = "idle" /\ pc' = "lock" /\ ~ Full
      /\ UNCHANGED <<sent, faults, rd2_off, backlog, handled, broken, swallowed, skipped,
                     saved, late, torn>>
  BY <1>2 DEF Read, losing, stop
<1>4. /\ pend \in Seq(Cell) /\ arriving \in Seq(Cell) /\ Len(pend) \in Nat /\ Len(arriving) \in Nat
      /\ Len(pend \o arriving) = Len(pend) + Len(arriving)
      /\ \A i \in 1 .. Len(pend) : (pend \o arriving)[i] = pend[i]
      /\ \A i \in 1 .. Len(arriving) : (pend \o arriving)[Len(pend) + i] = arriving[i]
  BY <1>1, Streaming
<1>5. /\ Turned \in 0 .. Size /\ ToEnd \in Nat /\ Turned + Len(pend) + ToEnd <= Size
      /\ rd2_off = 0 /\ ~ AtEnd => Turned + Len(pend) + ToEnd < Size
  BY <1>1, ToEndFits
<1>6. k \in 0 .. Len(arriving) /\ k <= ToEnd
  <2>1. n \in Nat
    BY <1>4
  <2>2. k \in Nat /\ k <= n /\ k <= ToEnd
    BY <1>2, <1>5, <2>1, TwoMin
  <2> QED BY <1>4, <2>1, <2>2
<1>7. /\ Drop(arriving, k) \in Seq(Cell) /\ Len(Drop(arriving, k)) = Len(arriving) - k
      /\ \A i \in 1 .. Len(arriving) - k : Drop(arriving, k)[i] = arriving[i + k]
      /\ SubSeq(arriving, 1, k) \in Seq(Cell) /\ Len(SubSeq(arriving, 1, k)) = k
      /\ \A i \in 1 .. k : SubSeq(arriving, 1, k)[i] = arriving[i]
  BY <1>4, <1>6, Cut
<1>8. PICK p, a, q : p = pend \o q /\ q = SubSeq(arriving, 1, k) /\ a = Drop(arriving, k)
  OBVIOUS
<1>9. /\ p \in Seq(Cell) /\ Len(p) = Len(pend) + k
      /\ \A i \in 1 .. Len(pend) : p[i] = pend[i]
      /\ \A i \in 1 .. Len(p) : i > Len(pend) => i - Len(pend) \in 1 .. k /\ p[i] = q[i - Len(pend)]
  <2>1. q \in Seq(Cell) /\ Len(q) = k
    BY <1>7, <1>8
  <2> QED BY <1>4, <1>8, <2>1, Joined
<1>10. pend' = p /\ arriving' = a /\ a \in Seq(Cell) /\ Len(a) = Len(arriving) - k
  BY <1>3, <1>7, <1>8
<1>11. StreamInv'
  <2>1. Len(p) + Len(a) + 0 <= Len(pend \o arriving)
    BY <1>4, <1>6, <1>9, <1>10
  <2>2. ASSUME NEW i \in 1 .. Len(p) PROVE p[i] = (pend \o arriving)[i + 0]
    <3>1. CASE i \in 1 .. Len(pend)
      BY <1>4, <1>9, <3>1
    <3>2. CASE i > Len(pend)
      <4>1. i - Len(pend) \in 1 .. k /\ p[i] = q[i - Len(pend)]
        BY <1>9, <3>2
      <4>2. q[i - Len(pend)] = arriving[i - Len(pend)] /\ i - Len(pend) \in 1 .. Len(arriving)
        BY <1>4, <1>6, <1>7, <1>8, <4>1
      <4>3. Len(pend) + (i - Len(pend)) = i + 0
        BY <1>4
      <4> QED BY <1>4, <4>1, <4>2, <4>3
    <3>3. i \in Nat /\ i >= 1 /\ Len(pend) \in Nat
      BY <1>4
    <3>4. i \in 1 .. Len(pend) \/ i > Len(pend)
      BY <3>3
    <3> QED BY <3>1, <3>2, <3>4, Zenon
  <2>3. ASSUME NEW i \in 1 .. Len(a) PROVE a[i] = (pend \o arriving)[Len(p) + i + 0]
    <3>1. i \in 1 .. Len(arriving) - k /\ i + k \in 1 .. Len(arriving)
      BY <1>4, <1>6, <1>10
    <3>2. Len(p) + i + 0 = Len(pend) + (i + k)
      BY <1>4, <1>6, <1>9
    <3>3. a[i] = arriving[i + k] /\ (pend \o arriving)[Len(pend) + (i + k)] = arriving[i + k]
      BY <1>4, <1>7, <1>8, <3>1
    <3> QED BY <3>2, <3>3
  <2> QED BY <1>1, <1>3, <1>9, <1>10, <2>1, <2>2, <2>3, PieceStep
<1>12. /\ wr_off' = Turned + Len(pend) + k /\ Len(pend') = Len(pend) + k /\ wr_off' <= Size
       /\ rd2_off = 0 /\ ~ AtEnd => wr_off' < Size
  <2>1. wr_off' = Turned + (Len(pend) + k) /\ Len(pend') = Len(pend) + k
    BY <1>3, <1>9, <1>10 DEF wr_off
  <2> QED BY <1>4, <1>5, <1>6, <2>1, Sizes
<1>13. /\ rd1_off \in 0 .. Size /\ rd2_off \in 0 .. Size /\ rd1_end \in 0 .. Size /\ backlog \in Nat
       /\ wr_off \in Int /\ wr_off = rd1_off + Len(pend)
  BY <1>1, <1>4, Sizes DEF TypeOK, wr_off
<1>14. AtEnd => rd1_off > Size - 2 * Margin + 1 /\ rd1_off > 0 /\ Turned = 0
  BY <1>1, <1>3, <1>4, <1>13, Sizes DEF AtEnd, PendInv, Turned
<1>15. EndInv'
  BY <1>1, <1>3, <1>13, <1>14 DEF EndInv, Turned
<1>16. ASSUME ~ overrun', ~ torn PROVE RingInv'
  <2>1. ~ overrun /\ ~ torn /\ (Turned < rd2_off => wr_off' < rd2_off)
    <3>1. ~ overrun /\ ~ (Turned < rd2_off /\ Turned + Len(pend') >= rd2_off)
      BY <1>3, <1>16
    <3>2. wr_off' = Turned + Len(pend') /\ wr_off' \in Int /\ rd2_off \in Int /\ Turned \in Int
      BY <1>4, <1>5, <1>6, <1>12, <1>13, Sizes
    <3> HIDE DEF wr_off
    <3>3. Turned < rd2_off => wr_off' < rd2_off
      BY <3>1, <3>2
    <3> QED BY <1>16, <3>1, <3>3
  <2>2. CASE AtEnd
    <3>1. 0 < rd2_off /\ rd2_off <= rd1_off
      BY <1>1, <1>3, <2>1, <2>2, TurnIsSafe
    <3>2. /\ rd1_off' = 0 /\ rd1_end' = rd1_off /\ rd2_off' = rd2_off /\ backlog' = backlog
          /\ wr_off' < rd2_off
      BY <1>3, <1>14, <2>1, <2>2, <3>1
    <3>3. rd1_off - rd2_off = StreamLen * backlog
      BY <1>1, <2>1, <3>1 DEF RingInv
    <3>4. rd1_end' - rd2_off' + rd1_off' = StreamLen * backlog'
      BY <1>13, <3>2, <3>3
    <3>5. \E m \in Nat : rd1_off' = StreamLen * m
      <4>1. 0 = StreamLen * 0
        BY Sizes
      <4> QED BY <3>2, <4>1
    <3>6. rd2_off' > rd1_off' /\ ~ (rd2_off' <= rd1_off') /\ rd2_off' # 0 /\ rd2_off' <= rd1_end'
      BY <1>13, <3>1, <3>2
    <3> HIDE DEF wr_off
    <3> QED BY <3>2, <3>4, <3>5, <3>6 DEF RingInv
  <2>3. CASE ~ AtEnd
    <3>1. /\ rd1_off' = rd1_off /\ rd1_end' = rd1_end /\ rd2_off' = rd2_off /\ backlog' = backlog
          /\ (rd1_off < rd2_off => wr_off' < rd2_off) /\ (rd2_off = 0 => wr_off' < Size)
      BY <1>3, <1>12, <2>1, <2>3 DEF Turned
    <3>2. rd2_off <= rd1_off => rd1_off' - rd2_off' = StreamLen * backlog'
      BY <1>1, <2>1, <3>1 DEF RingInv
    <3>3. rd2_off > rd1_off => /\ rd2_off' <= rd1_end' /\ wr_off' < rd2_off'
                               /\ rd1_end' - rd2_off' + rd1_off' = StreamLen * backlog'
      BY <1>1, <1>13, <2>1, <3>1 DEF RingInv
    <3>4. rd2_off > rd1_off => \E m \in Nat : rd1_off' = StreamLen * m
      BY <1>1, <2>1, <3>1 DEF RingInv
    <3> HIDE DEF wr_off
    <3> QED BY <3>1, <3>2, <3>3, <3>4 DEF RingInv
  <2> QED BY <2>2, <2>3
<1>17. RingInv'
  BY <1>3, <1>16 DEF RingInv
<1>18. TypeOK'
  <2>1. rx' \in BOOLEAN /\ errorflag' \in BOOLEAN /\ spun' \in BOOLEAN
        /\ late' \in BOOLEAN /\ torn' \in BOOLEAN /\ saved' = saved
    BY <1>1, Zenon DEF Read, flags, stop, TypeOK
  <2>2. overrun' \in BOOLEAN
    BY <1>3
  <2>3. rd1_off' \in 0 .. Size /\ rd1_end' \in 0 .. Size
    BY <1>3, <1>5, <1>13
  <2> QED BY <1>1, <1>3, <1>9, <1>10, <1>12, <2>1, <2>2, <2>3 DEF TypeOK
<1>20. SavedInv'
  <2> SUFFICES ASSUME saved # -1, ~ late, ~ torn
               PROVE  \/ saved = rd1_off'
                      \/ /\ rd1_off' = 0 /\ saved = rd1_end'
                         /\ ~ overrun' => wr_off' < saved
    BY <1>3 DEF SavedInv
  <2>1. saved = rd1_off
    BY <1>1, <1>3 DEF SavedInv
  <2>2. CASE ~ AtEnd
    BY <1>3, <2>1, <2>2 DEF Turned
  <2>3. CASE AtEnd
    <3>1. rd1_off' = 0 /\ rd1_end' = saved
      BY <1>3, <1>14, <2>1, <2>3
    <3>2. ASSUME ~ overrun' PROVE wr_off' < saved
      <4>1. 0 < rd2_off /\ rd2_off <= rd1_off
        BY <1>1, <1>3, <2>3, <3>2, TurnIsSafe
      <4>2. wr_off' < rd2_off
        <5>1. RingInv'
          BY <1>17
        <5>2. rd2_off' > rd1_off' /\ ~ torn'
          BY <1>3, <1>13, <3>1, <4>1
        <5> QED BY <1>3, <3>2, <5>1, <5>2 DEF RingInv
      <4>3. wr_off' \in Int
        BY <1>4, <1>5, <1>6, <1>12
      <4> HIDE DEF wr_off
      <4> QED BY <1>13, <2>1, <4>1, <4>2, <4>3
    <3> QED BY <3>1, <3>2
  <2> QED BY <2>2, <2>3
<1>19. InOrder' /\ PendInv'
  BY <1>1, <1>3 DEF InOrder, PendInv
<1> QED BY <1>11, <1>15, <1>17, <1>18, <1>19, <1>20 DEF IInv

-----------------------------------------------------------------------------
LEMMA NextInv == IInv /\ [Next]_vars => IInv'
<1> SUFFICES ASSUME IInv, [Next]_vars PROVE IInv'
  OBVIOUS
<1>1. CASE \E k \in Kinds : Send(k)
  BY <1>1, SendStep
<1>2. CASE Reconnect
  BY <1>2, ReconnectStep
<1>3. CASE Consume
  BY <1>3, ConsumeStep
<1>4. CASE SetError
  BY <1>4, SetErrorStep
<1>5. CASE Stop \/ Stopped
  BY <1>5, StopStep, StoppedStep
<1>6. CASE Start
  BY <1>6, StartStep
<1>7. CASE \E n \in 1 .. Len(arriving) : ReadReset(n) \/ ReadFull(n) \/ Read(n)
  BY <1>7, ResetStep, FullStep, ReadStep
<1>8. CASE Lock \/ Parse
  BY <1>8, LockStep, HeaderStep, TakeStep, NothingStep, IncompleteStep DEF Parse
<1>9. CASE UNCHANGED vars
  <2>1. UNCHANGED <<sent, arriving, pend, ring, stop, handled, losing, overrun>> /\ pc' = pc
    BY <1>9 DEF vars, link
  <2>2. rx' \in BOOLEAN /\ errorflag' \in BOOLEAN /\ spun' \in BOOLEAN
    BY <1>9, Zenon DEF vars, flags, IInv, TypeOK
  <2>3. faults' \in 0 .. MaxFaults
    BY <1>9 DEF vars, link, IInv, TypeOK
  <2> QED BY <2>1, <2>2, <2>3, FlagStep
<1> QED BY <1>1, <1>2, <1>3, <1>4, <1>5, <1>6, <1>7, <1>8, <1>9 DEF Next

\* The cells between the peer and rd1_off are in order, the offsets are whole
\* packets apart, less than a packet waits between callbacks (netcom.c:171-336).
THEOREM Invariant == Spec => []IInv
  BY InitInv, NextInv, PTL DEF Spec

\* Every variable keeps its type; wr_off stays within the buffer
\* (netcom.c:171-230).
THEOREM TypeCorrect == Spec => []TypeOK
<1>1. IInv => TypeOK
  BY DEF IInv
<1> QED BY <1>1, Invariant, PTL

\* Packets are taken out in the order they were sent, none twice, whatever is
\* dropped, moved or lost with a connection (netcom.c:171-335).
THEOREM Ordered == Spec => []InOrder
<1>1. IInv => InOrder
  BY DEF IInv
<1> QED BY <1>1, Invariant, PTL

\* Between rd2_off and rd1_off the consumer finds as many whole stream packets as
\* were put there, at whatever point it or the callback turns at the end of the
\* buffer and wherever reception is stopped, unless a reset fell between the two
\* accesses of a stop and no other reset has followed (netcom.c:86-92, 171-183,
\* 201-230, 262-277).
THEOREM ConsumerIsInSync == Spec => []ConsumerInSync
<1>1. IInv => ConsumerInSync
  <2> SUFFICES ASSUME IInv, ~ overrun, ~ torn PROVE Unread = StreamLen * backlog
    BY DEF ConsumerInSync
  <2>1. rd1_off \in Int /\ rd2_off \in Int
    BY DEF IInv, TypeOK
  <2>2. CASE rd2_off <= rd1_off
    BY <2>2 DEF IInv, RingInv, Unread
  <2>3. CASE rd2_off > rd1_off
    BY <2>1, <2>3 DEF IInv, RingInv, Unread
  <2> QED BY <2>1, <2>2, <2>3
<1> QED BY <1>1, Invariant, PTL

\* The macros give room to a consumer on the same side of the turn as rd1_off.
LEMMA RoomBehind ==
    ASSUME IInv, pc = "idle", ~ torn, Unread + Len(pend) <= 2 * (Half - Margin), rd2_off <= rd1_off
    PROVE  ~ Full /\ (Turned < rd2_off => Turned + Len(pend) + ToEnd < rd2_off)
<1> DEFINE x == rd2_off - (wr_off + 1)
           L == Len(pend)
<1>1. /\ rd1_off \in 0 .. Size /\ rd2_off \in 0 .. Size /\ L \in Nat /\ L < Margin
      /\ wr_off = rd1_off + L /\ wr_off \in Int /\ x \in Int /\ wr_off - rd2_off <= 2 * (Half - Margin)
  BY Sizes DEF IInv, TypeOK, wr_off, PendInv, Unread
<1> HIDE DEF wr_off, L
<1>2. Room = Masked(x) /\ Full = (Room = 0 \/ (AtEnd /\ Room <= L + Margin))
  BY DEF Room, CIRC_SPACE, Full, L
<1>3. x < 0 /\ x >= - 2 * Half
  BY <1>1, Sizes
<1>4. Room >= 2 * Half /\ Room \in Int
  <2> HIDE DEF x
  <2>1. CASE x >= - Half
    <3>1. Half * (-1) <= x /\ x < Half * (-1 + 1)
      BY <1>1, <1>3, <2>1, Sizes
    <3>2. Masked(x) = x - Half * (-1) + 2 * Half
      BY <1>1, <3>1, MaskedIs
    <3> QED BY <1>1, <1>2, <2>1, <3>2, Sizes
  <2>2. CASE x < - Half
    <3>1. Half * (-2) <= x /\ x < Half * (-2 + 1)
      BY <1>1, <1>3, <2>2, Sizes
    <3>2. Masked(x) = x - Half * (-2) + 2 * Half
      BY <1>1, <3>1, MaskedIs
    <3> QED BY <1>1, <1>2, <1>3, <3>2, Sizes
  <2> QED BY <1>1, <2>1, <2>2, Sizes
<1>5. ~ Full
  <2>1. L + Margin < 2 * Half /\ 0 < 2 * Half
    BY <1>1, Sizes
  <2> HIDE DEF x
  <2>2. Room # 0 /\ ~ (Room <= L + Margin)
    BY <1>1, <1>4, <2>1, Sizes
  <2> QED BY <1>2, <2>2
<1>6. ASSUME Turned < rd2_off PROVE Turned + L + ToEnd < rd2_off
  <2>1. AtEnd /\ Turned = 0 /\ wr_off > 3 * Half - Margin
    BY <1>1, <1>6, Sizes DEF Turned, AtEnd
  <2> DEFINE y == 3 * Half - 1 - L + rd2_off
  <2>2. ToEnd = IF Masked(y) <= 3 * Half - 1 - L THEN Masked(y) ELSE 3 * Half - 1 - L + 1
    BY <1>1, <2>1, Sizes DEF ToEnd, CIRC_SPACE_TO_END, L
  <2>3. y \in Int /\ 4 * Half <= y /\ y < 6 * Half
    BY <1>1, <2>1, Sizes
  <2>4. Masked(y) \in Int /\ Masked(y) <= y - 4 * Half
    <3> HIDE DEF y
    <3>1. CASE y < 5 * Half
      <4>1. Half * 4 <= y /\ y < Half * (4 + 1)
        BY <2>3, <3>1, Sizes
      <4>2. Masked(y) = y - Half * 4
        BY <2>3, <4>1, MaskedIs
      <4> QED BY <2>3, <4>2, Sizes
    <3>2. CASE 5 * Half <= y
      <4>1. Half * 5 <= y /\ y < Half * (5 + 1)
        BY <2>3, <3>2, Sizes
      <4>2. Masked(y) = y - Half * 5
        BY <2>3, <4>1, MaskedIs
      <4> QED BY <2>3, <4>2, Sizes
    <3> QED BY <2>3, <3>1, <3>2, Sizes
  <2>5. Masked(y) <= rd2_off - Half - 1 - L /\ Masked(y) <= 3 * Half - 1 - L
    BY <1>1, <2>3, <2>4, Sizes
  <2>6. ToEnd <= rd2_off - Half - 1 - L /\ ToEnd \in Int
    BY <2>2, <2>4, <2>5
  <2> HIDE DEF y
  <2> QED BY <1>1, <2>1, <2>6, Sizes
<1> QED BY <1>5, <1>6 DEF L

\* And to one who has not turned yet.
LEMMA RoomBeyond ==
    ASSUME IInv, pc = "idle", ~ torn, Unread + Len(pend) <= 2 * (Half - Margin), rd2_off > rd1_off
    PROVE  ~ Full /\ (Turned < rd2_off => Turned + Len(pend) + ToEnd < rd2_off)
<1> DEFINE x == rd2_off - (wr_off + 1)
           L == Len(pend)
<1>1. /\ rd1_off \in 0 .. Size /\ rd2_off \in 0 .. Size /\ L \in Nat /\ rd1_end \in 0 .. Size
      /\ wr_off = rd1_off + L /\ wr_off \in Int /\ x \in Int
  BY Sizes DEF IInv, TypeOK, wr_off
<1> HIDE DEF wr_off, L
<1>2. rd1_end > 3 * Half - 2 * Margin + 1 /\ rd1_end - rd2_off + rd1_off + L <= 2 * (Half - Margin)
  <2>1. ~ (rd2_off <= rd1_off)
    BY <1>1, Sizes
  <2> QED BY <2>1, Sizes DEF IInv, EndInv, Unread, L
<1>3. Half + 1 <= x /\ x < 3 * Half
  BY <1>1, <1>2, Sizes
<1>4. Room = Masked(x) /\ Full = (Room = 0 \/ (AtEnd /\ Room <= L + Margin))
  BY DEF Room, CIRC_SPACE, Full, L
<1>5. ~ AtEnd
  BY <1>1, <1>3, Sizes DEF AtEnd
<1>6. Room # 0
  <2> HIDE DEF x
  <2>1. CASE x < 2 * Half
    <3>1. Half * 1 <= x /\ x < Half * (1 + 1)
      BY <1>1, <1>3, <2>1, Sizes
    <3>2. Masked(x) = x - Half * 1
      BY <1>1, <3>1, MaskedIs
    <3> QED BY <1>1, <1>3, <1>4, <3>2, Sizes
  <2>2. CASE 2 * Half <= x
    <3>1. Half * 2 <= x /\ x < Half * (2 + 1)
      BY <1>1, <1>3, <2>2, Sizes
    <3>2. Masked(x) = x - Half * 2 + 2 * Half
      BY <1>1, <3>1, MaskedIs
    <3> QED BY <1>1, <1>3, <1>4, <3>2, Sizes
  <2> QED BY <1>1, <2>1, <2>2, Sizes
<1>7. ~ Full
  BY <1>4, <1>5, <1>6
<1>8. Turned + L + ToEnd < rd2_off
  <2>1. Turned = rd1_off
    BY <1>5 DEF Turned
  <2> DEFINE y == 3 * Half - 1 - wr_off + rd2_off
  <2>2. ToEnd = IF Masked(y) <= 3 * Half - 1 - wr_off THEN Masked(y) ELSE 3 * Half - 1 - wr_off + 1
    BY <1>1, <2>1, Sizes DEF ToEnd, CIRC_SPACE_TO_END, L
  <2>3. y \in Int /\ 4 * Half <= y /\ y < 6 * Half
    BY <1>1, <1>3, Sizes
  <2>4. Masked(y) \in Int /\ Masked(y) <= y - 4 * Half
    <3> HIDE DEF y
    <3>1. CASE y < 5 * Half
      <4>1. Half * 4 <= y /\ y < Half * (4 + 1)
        BY <2>3, <3>1, Sizes
      <4>2. Masked(y) = y - Half * 4
        BY <2>3, <4>1, MaskedIs
      <4> QED BY <2>3, <4>2, Sizes
    <3>2. CASE 5 * Half <= y
      <4>1. Half * 5 <= y /\ y < Half * (5 + 1)
        BY <2>3, <3>2, Sizes
      <4>2. Masked(y) = y - Half * 5
        BY <2>3, <4>1, MaskedIs
      <4> QED BY <2>3, <4>2, Sizes
    <3> QED BY <2>3, <3>1, <3>2, Sizes
  <2>5. Masked(y) <= rd2_off - wr_off - 1 - Half /\ Masked(y) <= 3 * Half - 1 - wr_off
    BY <1>1, <2>3, <2>4, Sizes
  <2>6. ToEnd <= rd2_off - wr_off - 1 - Half /\ ToEnd \in Int
    BY <2>2, <2>4, <2>5
  <2> HIDE DEF y
  <2> QED BY <1>1, <2>1, <2>6, Sizes
<1> QED BY <1>7, <1>8 DEF L

\* The callback drops nothing of what a consumer is waiting for, and reaches
\* nothing of what it has not read, while it is less than two thirds of the
\* buffer behind, for all that the macros' mask is none (netcom.c:188-228).
THEOREM RoomIsThere == Spec => []RoomForLaggard
<1>1. IInv => RoomForLaggard
  <2> SUFFICES ASSUME IInv, pc = "idle", ~ torn, Unread + Len(pend) <= 2 * (Half - Margin)
               PROVE  ~ Full /\ (Turned < rd2_off => Turned + Len(pend) + ToEnd < rd2_off)
    BY DEF RoomForLaggard
  <2>1. rd1_off \in Int /\ rd2_off \in Int
    BY DEF IInv, TypeOK
  <2>2. rd2_off <= rd1_off \/ rd2_off > rd1_off
    BY <2>1
  <2> QED BY <2>2, RoomBehind, RoomBeyond
<1> QED BY <1>1, Invariant, PTL

-----------------------------------------------------------------------------
\* What is lost, and why.

Lost == broken \cup swallowed \cup skipped

\* Of a packet that has lost nothing all cells are there, in their places.
WholeStream(s, lost) ==
    \A i \in 1 .. Len(s) :
        \/ s[i].pkt \in lost
        \/ /\ i - s[i].at >= 0 /\ i - s[i].at + WireLength(s[i].kind) <= Len(s)
           /\ \A m \in 1 .. WireLength(s[i].kind) :
                  LET c == s[i - s[i].at + m]
                  IN  c.pkt = s[i].pkt /\ c.kind = s[i].kind /\ c.at = m

NoneLong(s, lost) == \A i \in 1 .. Len(s) : s[i].kind = "long" => s[i].pkt \in lost

\* Every packet sent is lost, taken out or still in the stream.
Accounted(s, n, h, lost) ==
    \A p \in 1 .. n : \/ p \in lost
                      \/ \E k \in 1 .. Len(h) : h[k] = p
                      \/ \E i \in 1 .. Len(s) : s[i].pkt = p

LossInv ==
    /\ WholeStream(pend \o arriving, Lost)
    /\ NoneLong(pend \o arriving, broken)
    /\ Accounted(pend \o arriving, sent, handled, Lost)

FullInv == IInv /\ LossInv /\ NothingLost

LEMMA PacketAt ==
    ASSUME NEW s \in Seq(Cell), NEW i \in 1 .. Len(s)
    PROVE  s[i].pkt \in PacketsOf(s)
  BY DEF PacketsOf, ToSet

\* t is s without its first n cells.
Behind(t, s, n) == Len(t) + n = Len(s) /\ \A i \in 1 .. Len(t) : t[i] = s[i + n]

Sized(s) == \A i \in 1 .. Len(s) : /\ s[i].at \in 1 .. WireLength(s[i].kind)
                                   /\ WireLength(s[i].kind) \in Nat

\* A packet cut in two by a loss of the first n cells is in the set y.
CutIn(s, t, n, y) == \A j \in 1 .. n, i \in 1 .. Len(t) : s[j].pkt = t[i].pkt => s[j].pkt \in y

\* The first n cells of the stream go.  A packet with a cell among them and
\* another one behind them is lost.
LEMMA CutWhole ==
    ASSUME NEW s \in Seq(Cell), NEW t \in Seq(Cell), NEW n \in Nat, Behind(t, s, n), Sized(s),
           NEW x, NEW y, x \subseteq y, WholeStream(s, x), CutIn(s, t, n, y)
    PROVE  WholeStream(t, y)
<1> SUFFICES ASSUME NEW i \in 1 .. Len(t), t[i].pkt \notin y
             PROVE  /\ i - t[i].at >= 0 /\ i - t[i].at + WireLength(t[i].kind) <= Len(t)
                    /\ \A m \in 1 .. WireLength(t[i].kind) :
                          LET c == t[i - t[i].at + m]
                          IN  c.pkt = t[i].pkt /\ c.kind = t[i].kind /\ c.at = m
  BY Zenon DEF WholeStream
<1>1. i + n \in 1 .. Len(s) /\ t[i] = s[i + n] /\ i \in Nat /\ Len(s) \in Nat /\ Len(t) \in Nat
      /\ Len(t) + n = Len(s)
  BY DEF Behind
<1> DEFINE w == WireLength(t[i].kind)
           a == t[i].at
           b == i + n - a
<1>2. w \in Nat /\ a \in 1 .. w
  BY <1>1 DEF Sized
<1>3. /\ b >= 0 /\ b + w <= Len(s)
      /\ \A m \in 1 .. w : s[b + m].pkt = t[i].pkt /\ s[b + m].kind = t[i].kind /\ s[b + m].at = m
  <2>1. PICK j \in 1 .. Len(s) : j = i + n
    BY <1>1
  <2>2. s[j] = t[i] /\ s[j].pkt \notin x /\ b = j - s[j].at /\ w = WireLength(s[j].kind)
    <3>1. s[j] = t[i]
      BY <1>1, <2>1
    <3>2. s[j].pkt \notin x
      BY <3>1
    <3> QED BY <1>1, <1>2, <2>1, <3>1, <3>2
  <2>3. /\ j - s[j].at >= 0 /\ j - s[j].at + WireLength(s[j].kind) <= Len(s)
        /\ \A m \in 1 .. WireLength(s[j].kind) :
              LET c == s[j - s[j].at + m]
              IN  c.pkt = s[j].pkt /\ c.kind = s[j].kind /\ c.at = m
    BY <2>2, Zenon DEF WholeStream
  <2> HIDE DEF w, b
  <2> QED BY <2>2, <2>3
<1> HIDE DEF w, a
<1>4. b >= n
  <2> SUFFICES ASSUME b < n PROVE FALSE
    BY <1>1, <1>2
  <2>1. b + 1 \in 1 .. n /\ 1 \in 1 .. w
    BY <1>1, <1>2, <1>3
  <2>2. s[b + 1].pkt = t[i].pkt
    BY <1>3, <2>1
  <2> QED BY <2>1, <2>2 DEF CutIn
<1>5. i - a >= 0 /\ i - a + w <= Len(t)
  BY <1>1, <1>2, <1>3, <1>4
<1>6. ASSUME NEW m \in 1 .. w
      PROVE  t[i - a + m].pkt = t[i].pkt /\ t[i - a + m].kind = t[i].kind /\ t[i - a + m].at = m
  <2>1. i - a + m \in 1 .. Len(t) /\ i - a + m + n = b + m
    <3>1. m \in Nat /\ m >= 1 /\ m <= w /\ a \in Nat /\ i \in Nat /\ w \in Nat
      BY <1>1, <1>2
    <3>2. Len(t) \in Nat /\ i - a >= 0 /\ i - a + w <= Len(t)
      BY <1>1, <1>5
    <3> HIDE DEF b
    <3>3. i - a + m >= 1 /\ i - a + m <= Len(t) /\ i - a + m \in Int
      BY <3>1, <3>2
    <3>4. i - a + m + n = (i + n - a) + m
      BY <3>1
    <3> QED BY <3>3, <3>4 DEF b
  <2>2. t[i - a + m] = s[b + m]
    BY <2>1 DEF Behind
  <2> QED BY <1>3, <2>2
<1> QED BY <1>5, <1>6 DEF a, w

\* What is known of the stream
LEMMA Cells ==
    ASSUME TypeOK, StreamInv
    PROVE  /\ \A i \in 1 .. Len(pend \o arriving) :
                  LET c == (pend \o arriving)[i]
                  IN  /\ c.pkt \in 1 .. sent /\ c.kind \in Kinds
                      /\ WireLength(c.kind) \in Nat /\ WireLength(c.kind) >= HeadLen
                      /\ c.at \in 1 .. WireLength(c.kind)
<1> SUFFICES ASSUME NEW i \in 1 .. Len(pend \o arriving)
             PROVE  LET c == (pend \o arriving)[i]
                    IN  /\ c.pkt \in 1 .. sent /\ c.kind \in Kinds
                        /\ WireLength(c.kind) \in Nat /\ WireLength(c.kind) >= HeadLen
                        /\ c.at \in 1 .. WireLength(c.kind)
  OBVIOUS
<1>1. pend \o arriving \in Seq(Cell)
  BY Streaming
<1>2. PICK c : c = (pend \o arriving)[i] /\ c \in Cell
  BY <1>1
<1>3. c.kind \in Kinds
  BY <1>2 DEF Cell
<1>4. WireLength(c.kind) \in Nat /\ WireLength(c.kind) >= HeadLen
  BY <1>3, Sizes DEF WireLength, Kinds
<1>5. c.pkt \in 1 .. sent /\ c.at \in 1 .. WireLength(c.kind)
  BY <1>2 DEF StreamInv, GoodStream
<1> QED BY <1>2, <1>3, <1>4, <1>5

\* A step that only takes cells from the front
LEMMA LossKept ==
    ASSUME TypeOK, StreamInv, LossInv, NEW t \in Seq(Cell), (pend \o arriving)' = t, NEW n \in Nat,
           Behind(t, pend \o arriving, n), sent' = sent, Lost \subseteq Lost', broken \subseteq broken',
           \A k \in 1 .. Len(handled) : \E l \in 1 .. Len(handled') : handled'[l] = handled[k],
           \A j \in 1 .. n :
              \/ (pend \o arriving)[j].pkt \in Lost'
              \/ /\ \E k \in 1 .. Len(handled') : handled'[k] = (pend \o arriving)[j].pkt
                 /\ \A i \in 1 .. Len(t) : t[i].pkt # (pend \o arriving)[j].pkt
    PROVE  LossInv'
<1>1. PICK s, h, x, y, z : /\ s = pend \o arriving /\ h = handled' /\ x = Lost /\ y = Lost'
                           /\ z = broken'
  OBVIOUS
<1>2. /\ s \in Seq(Cell) /\ x \subseteq y /\ Behind(t, s, n) /\ Len(t) + n = Len(s)
      /\ \A i \in 1 .. Len(t) : t[i] = s[i + n] /\ i + n \in 1 .. Len(s)
  <2>1. s \in Seq(Cell) /\ Len(s) \in Nat /\ Len(t) \in Nat
    BY <1>1, Streaming
  <2> QED BY <1>1, <2>1 DEF Behind
<1>3. Sized(s)
  BY <1>1, Cells DEF Sized
<1>4. \A j \in 1 .. n : \/ s[j].pkt \in y
                        \/ /\ \E k \in 1 .. Len(h) : h[k] = s[j].pkt
                           /\ \A i \in 1 .. Len(t) : t[i].pkt # s[j].pkt
  BY <1>1
<1>5. WholeStream(t, y)
  <2>1. WholeStream(s, x)
    BY <1>1 DEF LossInv
  <2>2. CutIn(s, t, n, y)
    BY <1>4 DEF CutIn
  <2> QED BY <1>2, <1>3, <2>1, <2>2, CutWhole
<1>6. NoneLong(t, z)
  <2>1. NoneLong(s, broken) /\ broken \subseteq z
    BY <1>1 DEF LossInv
  <2> SUFFICES ASSUME NEW i \in 1 .. Len(t), t[i].kind = "long" PROVE t[i].pkt \in z
    BY DEF NoneLong
  <2>2. i + n \in 1 .. Len(s) /\ t[i] = s[i + n]
    BY <1>2
  <2>3. s[i + n].pkt \in broken
    BY <2>1, <2>2 DEF NoneLong
  <2> QED BY <2>1, <2>2, <2>3
<1>7. Accounted(t, sent, h, y)
  <2> SUFFICES ASSUME NEW p \in 1 .. sent, p \notin y, ~ \E k \in 1 .. Len(h) : h[k] = p
               PROVE  \E i \in 1 .. Len(t) : t[i].pkt = p
    BY DEF Accounted
  <2>1. p \notin x /\ ~ \E k \in 1 .. Len(handled) : handled[k] = p
    BY <1>1, <1>2, ZenonT(40)
  <2>2. PICK j \in 1 .. Len(s) : s[j].pkt = p
    BY <1>1, <2>1 DEF LossInv, Accounted
  <2>3. j > n
    <3>1. ~ (j \in 1 .. n)
      BY <1>4, <2>2
    <3> QED BY <3>1
  <2>4. j - n \in 1 .. Len(t) /\ (j - n) + n = j
    <3>1. Len(s) \in Nat /\ Len(t) \in Nat /\ j \in Nat
      BY <1>2
    <3> QED BY <1>2, <2>3, <3>1
  <2>5. t[j - n] = s[(j - n) + n]
    BY <1>2, <2>4
  <2> QED BY <2>2, <2>4, <2>5
<1> QED BY <1>1, <1>5, <1>6, <1>7 DEF LossInv

\* A packet that has lost nothing is recognised.
LEMMA WholeAhead ==
    ASSUME TypeOK, StreamInv, LossInv, NEW n \in 1 .. Len(pend), pend[1].pkt \notin Lost,
           n <= WireLength(pend[1].kind)
    PROVE  Whole(pend, n)
<1> DEFINE s == pend \o arriving
           w == WireLength(pend[1].kind)
<1>1. /\ Len(pend) \in Nat /\ n <= Len(pend) /\ n \in Nat /\ 1 \in 1 .. Len(s) /\ s[1] = pend[1]
      /\ \A m \in 1 .. n : s[m] = pend[m]
  <2>1. /\ Len(pend) \in Nat /\ Len(arriving) \in Nat /\ Len(s) = Len(pend) + Len(arriving)
        /\ \A i \in 1 .. Len(pend) : s[i] = pend[i]
    BY Streaming
  <2> HIDE DEF s
  <2> QED BY <2>1
<1>2. w \in Nat /\ pend[1].at \in 1 .. w
  <2>1. w \in Nat /\ s[1].at \in 1 .. WireLength(s[1].kind)
    BY <1>1, Cells
  <2> QED BY <1>1, <2>1
<1> HIDE DEF s, w
<1>3. /\ 1 - s[1].at >= 0
      /\ \A m \in 1 .. WireLength(s[1].kind) :
            LET c == s[1 - s[1].at + m] IN c.pkt = s[1].pkt /\ c.kind = s[1].kind /\ c.at = m
  <2>1. WholeStream(s, Lost) /\ s[1].pkt \notin Lost
    BY <1>1 DEF LossInv, s
  <2> QED BY <1>1, <2>1, Zenon DEF WholeStream
<1>4. pend[1].at = 1 /\ 1 - pend[1].at = 0
  BY <1>1, <1>2, <1>3
<1>5. ASSUME NEW m \in 1 .. n PROVE pend[m].pkt = pend[1].pkt /\ pend[m].at = m
  <2>1. m \in 1 .. w /\ 0 + m = m
    BY <1>1, <1>2 DEF w
  <2>2. s[0 + m].pkt = s[1].pkt /\ s[0 + m].at = m
    BY <1>1, <1>3, <1>4, <2>1 DEF w
  <2> QED BY <1>1, <2>1, <2>2
<1> QED BY <1>1, <1>5 DEF Whole

\* What stands at rd1_off when a header is refused has lost some of its cells.
LEMMA RefusedIsLost ==
    ASSUME TypeOK, StreamInv, LossInv, ParseInvalid \/ ParseTooLong \/ ParseStreamTorn
    PROVE  pend[1].pkt \in Lost
<1>1. /\ Parsing /\ Len(pend) \in Nat /\ Len(pend) >= HeadLen /\ HeadLen \in Nat /\ 1 <= HeadLen
      /\ 1 \in 1 .. Len(pend \o arriving) /\ (pend \o arriving)[1] = pend[1]
  <2>1. Parsing
    BY DEF ParseInvalid, ParseTooLong, ParseStreamTorn, AtGoodStream, AtStream, AtHeader
  <2> QED BY <2>1, Streaming, Sizes DEF Parsing
<1>2. /\ pend[1].kind \in Kinds
      /\ WireLength(pend[1].kind) \in Nat /\ WireLength(pend[1].kind) >= HeadLen
  BY <1>1, Cells
<1>3. CASE ParseInvalid
  <2>1. ~ Whole(pend, HeadLen)
    BY <1>3 DEF ParseInvalid, Valid
  <2>2. HeadLen \in 1 .. Len(pend)
    BY <1>1
  <2> QED BY <1>2, <2>1, <2>2, WholeAhead
<1>4. CASE ParseTooLong
  <2>1. StreamLength(pend[1].kind) # 0 /\ ~ (StreamLength(pend[1].kind) <= StreamMax)
    BY <1>4 DEF ParseTooLong, AtGoodStream, AtStream, Declared
  <2>2. pend[1].kind = "long"
    BY <1>2, <2>1, Sizes DEF StreamLength, Kinds
  <2>3. pend[1].pkt \in broken
    BY <1>1, <2>2 DEF LossInv, NoneLong
  <2> QED BY <2>3 DEF Lost
<1>5. CASE ParseStreamTorn
  <2>1. Declared <= Len(pend) /\ ~ Whole(pend, Declared) /\ AtGoodStream /\ AtHeader
    BY <1>5 DEF ParseStreamTorn, AtGoodStream, AtStream
  <2>2. Declared = StreamLen /\ Declared = WireLength(pend[1].kind) /\ Declared \in Nat
    BY <2>1, HeaderCells
  <2>3. Declared \in 1 .. Len(pend) /\ Declared <= WireLength(pend[1].kind)
    BY <1>1, <2>1, <2>2, Sizes
  <2> QED BY <2>1, <2>3, WholeAhead
<1> QED BY <1>3, <1>4, <1>5

Kept == IF Found # {} THEN Min(Found) ELSE Max({HeadLen, Len(pend) - HeadLen})

\* netcom_find_header does not go past a header that it can see.
LEMMA KeptIs ==
    ASSUME TypeOK, Parsing
    PROVE  /\ Kept \in 0 .. Len(pend)
           /\ \A k \in HeadLen .. Kept - 1 : k + HeadLen <= Len(pend) /\ ~ Valid(Drop(pend, k))
<1>1. Len(pend) \in Nat /\ Len(pend) >= HeadLen /\ HeadLen \in Nat /\ 1 <= HeadLen
  BY Sizes DEF TypeOK, Parsing
<1>2. CASE Found # {}
  <2>1. Found \subseteq Nat
    BY <1>1 DEF Found
  <2>2. Min(Found) \in Found
    BY <1>2, <2>1, Least
  <2>3. Kept \in HeadLen .. Len(pend) - HeadLen - 1
    BY <1>2, <2>2 DEF Found, Kept
  <2>4. ASSUME NEW k \in HeadLen .. Kept - 1, Valid(Drop(pend, k)) PROVE FALSE
    <3>1. k \in Found
      BY <1>1, <2>3, <2>4 DEF Found
    <3>2. Min(Found) <= k
      BY <1>2, <2>1, <3>1, Least
    <3> QED BY <1>1, <1>2, <2>3, <3>2 DEF Kept
  <2> QED BY <1>1, <2>3, <2>4
<1>3. CASE Found = {}
  <2>1. Kept = Max({HeadLen, Len(pend) - HeadLen})
    BY <1>3 DEF Kept
  <2>2. Max({HeadLen, Len(pend) - HeadLen}) \in {HeadLen, Len(pend) - HeadLen}
        /\ Max({HeadLen, Len(pend) - HeadLen}) >= HeadLen
    BY <1>1, SMTT(30) DEF Max
  <2>3. Kept \in 0 .. Len(pend) /\ (Kept = HeadLen \/ Kept = Len(pend) - HeadLen)
    BY <1>1, <2>1, <2>2
  <2>4. ASSUME NEW k \in HeadLen .. Kept - 1 PROVE k + HeadLen <= Len(pend) /\ ~ Valid(Drop(pend, k))
    <3>1. k \in HeadLen .. Len(pend) - HeadLen - 1
      BY <1>1, <2>3
    <3> QED BY <1>1, <1>3, <3>1 DEF Found
  <2> QED BY <2>3, <2>4
<1> QED BY <1>2, <1>3

\* What netcom_find_header throws away is lost, or was.
LEMMA HeaderLoses ==
    ASSUME TypeOK, StreamInv, LossInv, Parsing, FindHeader, pend[1].pkt \in Lost, Lost \subseteq Lost',
           NEW j \in 1 .. Kept
    PROVE  pend[j].pkt \in Lost'
<1> SUFFICES ASSUME pend[j].pkt \notin Lost' PROVE FALSE
  OBVIOUS
<1> DEFINE s == pend \o arriving
           w == WireLength(pend[j].kind)
           b == j - pend[j].at
<1>1. /\ Len(pend) \in Nat /\ Len(pend) >= HeadLen /\ HeadLen \in Nat /\ 1 <= HeadLen
      /\ Kept \in 0 .. Len(pend) /\ j \in 1 .. Len(pend) /\ j \in 1 .. Len(s) /\ pend \in Seq(Cell)
      /\ \A i \in 1 .. Len(pend) : s[i] = pend[i]
      /\ \A k \in HeadLen .. Kept - 1 : k + HeadLen <= Len(pend) /\ ~ Valid(Drop(pend, k))
  <2>1. /\ Len(pend) \in Nat /\ Len(arriving) \in Nat /\ Len(s) = Len(pend) + Len(arriving)
        /\ pend \in Seq(Cell) /\ \A i \in 1 .. Len(pend) : s[i] = pend[i]
    BY Streaming
  <2>2. /\ Kept \in 0 .. Len(pend)
        /\ \A k \in HeadLen .. Kept - 1 : k + HeadLen <= Len(pend) /\ ~ Valid(Drop(pend, k))
    BY KeptIs
  <2> HIDE DEF s
  <2> QED BY <2>1, <2>2, Sizes DEF Parsing
<1>2. w \in Nat /\ w >= HeadLen /\ pend[j].at \in 1 .. w
  <2>1. w \in Nat /\ w >= HeadLen /\ s[j].at \in 1 .. WireLength(s[j].kind)
    BY <1>1, Cells
  <2> QED BY <1>1, <2>1
<1> HIDE DEF s
<1>3. /\ b >= 0
      /\ \A m \in 1 .. w : s[b + m].pkt = pend[j].pkt /\ s[b + m].at = m
  <2>1. WholeStream(s, Lost) /\ s[j].pkt \notin Lost /\ s[j] = pend[j]
    BY <1>1 DEF LossInv, s
  <2>2. /\ j - s[j].at >= 0
        /\ \A m \in 1 .. WireLength(s[j].kind) :
              LET c == s[j - s[j].at + m] IN c.pkt = s[j].pkt /\ c.kind = s[j].kind /\ c.at = m
    BY <1>1, <2>1, Zenon DEF WholeStream
  <2> QED BY <2>1, <2>2
<1>4. b \in Nat /\ b <= Kept - 1 /\ 1 \in 1 .. w
  <2>1. pend[j].at \in Nat /\ pend[j].at >= 1 /\ Kept \in Nat /\ j \in Nat /\ j <= Kept
    BY <1>1, <1>2
  <2> QED BY <1>1, <1>2, <1>3, <2>1
<1> HIDE DEF w, b
<1>5. b + 1 \in 1 .. Len(pend) /\ pend[b + 1].pkt = pend[j].pkt /\ pend[b + 1].at = 1
  <2>1. b + 1 \in 1 .. Len(pend)
    BY <1>1, <1>4
  <2> QED BY <1>1, <1>3, <1>4, <2>1
<1>6. CASE b = 0
  BY <1>5, <1>6
<1>7. CASE b \in 1 .. HeadLen - 1
  <2>1. b + 1 \in 2 .. HeadLen /\ HeadLen <= Len(pend)
    BY <1>1, <1>4, <1>7
  <2>2. pend[b + 1] \in ToSet(SubSeq(pend, 2, HeadLen))
    <3>1. SubSeq(pend, 2, HeadLen)[b] = pend[b + 1] /\ b \in DOMAIN SubSeq(pend, 2, HeadLen)
      BY <1>1, <1>7
    <3> QED BY <3>1 DEF ToSet
  <2>3. pend[b + 1].pkt \in skipped'
    BY <1>5, <2>2, Zenon DEF FindHeader
  <2> QED BY <1>5, <2>3 DEF Lost
<1>8. CASE b >= HeadLen
  <2>1. b + HeadLen <= Len(pend) /\ ~ Valid(Drop(pend, b)) /\ b \in 0 .. Len(pend)
    BY <1>1, <1>4, <1>8
  <2>2. /\ Len(Drop(pend, b)) = Len(pend) - b
        /\ \A m \in 1 .. Len(pend) - b : Drop(pend, b)[m] = pend[m + b]
    BY <1>1, <2>1, Cut
  <2>3. ASSUME NEW m \in 1 .. HeadLen
        PROVE  Drop(pend, b)[m].pkt = pend[j].pkt /\ Drop(pend, b)[m].at = m
    <3>1. m \in 1 .. Len(pend) - b /\ m \in 1 .. w /\ m + b \in 1 .. Len(pend) /\ m + b = b + m
      BY <1>1, <1>2, <1>4, <2>1
    <3>2. Drop(pend, b)[m] = s[b + m]
      BY <1>1, <2>2, <3>1
    <3> QED BY <1>3, <3>1, <3>2
  <2>4. HeadLen <= Len(Drop(pend, b)) /\ 1 \in 1 .. HeadLen
    BY <1>1, <1>4, <2>1, <2>2
  <2>5. Valid(Drop(pend, b))
    BY <2>3, <2>4 DEF Valid, Whole
  <2> QED BY <2>1, <2>5
<1>9. b = 0 \/ b \in 1 .. HeadLen - 1 \/ b >= HeadLen
  BY <1>1, <1>4
<1> QED BY <1>6, <1>7, <1>8, <1>9

LEMMA HeaderLoss ==
    ASSUME FullInv, IInv', ParseInvalid \/ ParseTooLong \/ ParseStreamTorn
    PROVE  LossInv' /\ NothingLost'
<1>1. TypeOK /\ StreamInv /\ LossInv /\ NothingLost
  BY DEF FullInv, IInv
<1>2. Parsing /\ FindHeader /\ pend[1].pkt \in Lost
  <2>1. Parsing /\ FindHeader
    BY DEF ParseInvalid, ParseTooLong, ParseStreamTorn, AtGoodStream, AtStream, AtHeader
  <2> QED BY <1>1, <2>1, RefusedIsLost
<1>3. /\ pend' = Drop(pend, Kept) /\ sent' = sent /\ arriving' = arriving /\ handled' = handled
      /\ broken' = broken /\ swallowed' = swallowed
      /\ skipped \subseteq skipped'
  BY <1>2 DEF FindHeader, Kept, link
<1>4. Kept \in 0 .. Len(pend)
  BY <1>1, <1>2, KeptIs
<1>5. Lost \subseteq Lost'
  BY <1>3 DEF Lost
<1>6. \A j \in 1 .. Kept : pend[j].pkt \in Lost'
  BY <1>1, <1>2, <1>5, HeaderLoses
<1>7. PICK n \in 0 .. Len(pend) : n = Kept
  BY <1>4
<1>8. PICK s, t : s = pend \o arriving /\ t = (pend \o arriving)'
  OBVIOUS
<1>9. t \in Seq(Cell) /\ Behind(t, s, n)
  <2>1. /\ Len((pend \o arriving)') = Len(pend) - n + Len(arriving)
        /\ (pend \o arriving)' \in Seq(Cell)
        /\ \A i \in 1 .. Len((pend \o arriving)') :
              (pend \o arriving)'[i] = (pend \o arriving)[i + n]
    BY <1>1, <1>3, <1>7, PendCut
  <2>2. Len(s) = Len(pend) + Len(arriving) /\ Len(pend) \in Nat /\ Len(arriving) \in Nat
    BY <1>1, <1>8, Streaming
  <2>3. Len(t) = Len(pend) - n + Len(arriving) /\ \A i \in 1 .. Len(t) : t[i] = s[i + n]
    BY <1>8, <2>1
  <2>4. Len(t) + n = Len(s)
    BY <2>2, <2>3
  <2> QED BY <1>8, <2>1, <2>3, <2>4 DEF Behind
<1>10. \A j \in 1 .. n : s[j].pkt \in Lost'
  <2>1. \A j \in 1 .. n : s[j] = pend[j]
    <3>1. Len(pend) \in Nat /\ \A i \in 1 .. Len(pend) : s[i] = pend[i]
      BY <1>1, <1>8, Streaming
    <3> QED BY <3>1
  <2> QED BY <1>6, <1>7, <2>1
<1>11. LossInv'
  <2>1. n \in Nat
    BY <1>1, Streaming
  <2> QED BY <1>1, <1>3, <1>5, <1>8, <1>9, <1>10, <2>1, LossKept
<1>12. broken # {}
  BY <1>1, <1>2 DEF NothingLost, Lost
<1>13. NothingLost'
  BY <1>3, <1>12 DEF NothingLost
<1> QED BY <1>11, <1>13

LEMMA TakeLoss ==
    ASSUME FullInv, IInv', ParseStream \/ ParseStreamOff \/ ParseCmd
    PROVE  LossInv' /\ NothingLost'
<1>1. TypeOK /\ StreamInv /\ LossInv /\ NothingLost /\ StreamInv'
  BY DEF FullInv, IInv
<1>2. /\ AtHeader /\ Take(Declared) /\ sent' = sent /\ arriving' = arriving /\ broken' = broken
      /\ skipped' = skipped /\ pc' = "parse"
  BY DEF ParseStream, ParseStreamOff, ParseCmd, link, ring, AtGoodStream, AtStream, AtHeader, Parsing
<1>3. Declared \in 1 .. Len(pend) /\ Declared = WireLength(pend[1].kind)
  <2>1. CASE ParseCmd
    BY <1>1, <1>2, <2>1, HeaderCells DEF ParseCmd
  <2>2. CASE ParseStream \/ ParseStreamOff
    <3>1. AtGoodStream /\ Declared <= Len(pend)
      BY <2>2 DEF ParseStream, ParseStreamOff, Whole
    <3> QED BY <1>1, <1>2, <3>1, HeaderCells, Sizes
  <2> QED BY <2>1, <2>2
<1>4. PICK n \in 1 .. Len(pend) : n = Declared
  BY <1>3
<1>5. /\ pend' = Drop(pend, n) /\ handled' = Append(handled, pend[1].pkt)
      /\ swallowed' = swallowed \cup (PacketsOf(SubSeq(pend, 1, n)) \ {pend[1].pkt})
  BY <1>2, <1>4 DEF Take
<1>6. PICK s, t, h : s = pend \o arriving /\ t = (pend \o arriving)' /\ h = handled'
  OBVIOUS
<1>7. /\ Len(pend) \in Nat /\ Len(arriving) \in Nat /\ Len(s) = Len(pend) + Len(arriving)
      /\ \A i \in 1 .. Len(pend) : s[i] = pend[i]
      /\ pend \in Seq(Cell) /\ n \in 0 .. Len(pend) /\ n \in Nat
  BY <1>1, <1>6, Streaming
<1>8. t \in Seq(Cell) /\ Behind(t, s, n)
  <2>1. /\ Len((pend \o arriving)') = Len(pend) - n + Len(arriving)
        /\ (pend \o arriving)' \in Seq(Cell)
        /\ \A i \in 1 .. Len((pend \o arriving)') :
              (pend \o arriving)'[i] = (pend \o arriving)[i + n]
    BY <1>1, <1>2, <1>5, <1>7, PendCut
  <2>2. Len(t) = Len(pend) - n + Len(arriving) /\ \A i \in 1 .. Len(t) : t[i] = s[i + n]
    BY <1>6, <2>1
  <2>3. Len(t) + n = Len(s)
    BY <1>7, <2>2
  <2> QED BY <1>6, <2>1, <2>2, <2>3 DEF Behind
<1>9. /\ \A k \in 1 .. Len(handled) : k \in 1 .. Len(h) /\ h[k] = handled[k]
      /\ \E k \in 1 .. Len(h) : h[k] = pend[1].pkt
  <2>1. handled \in Seq(1 .. MaxPackets) /\ h = Append(handled, pend[1].pkt)
    BY <1>1, <1>5, <1>6 DEF TypeOK
  <2>2. /\ Len(h) = Len(handled) + 1 /\ Len(handled) \in Nat
        /\ \A k \in 1 .. Len(handled) : h[k] = handled[k]
        /\ h[Len(handled) + 1] = pend[1].pkt
    BY <2>1
  <2> QED BY <2>2
<1>10. \A i \in 1 .. Len(t) : t[i].pkt # pend[1].pkt
  <2>1. \A k \in 1 .. Len(h), i \in 1 .. Len(t) : h[k] < t[i].pkt
    BY <1>1, <1>6 DEF StreamInv, GoodStream
  <2>2. pend[1].pkt \in Nat
    <3>1. 1 \in 1 .. Len(pend) /\ sent \in Nat
      BY <1>1, <1>7, Streaming
    <3> QED BY <1>1, <3>1, Streaming
  <2>3. PICK k \in 1 .. Len(h) : h[k] = pend[1].pkt
    BY <1>9
  <2> QED BY <2>1, <2>2, <2>3
<1>11. \A j \in 1 .. n : s[j].pkt \in Lost' \/ s[j].pkt = pend[1].pkt
  <2> SUFFICES ASSUME NEW j \in 1 .. n, s[j].pkt # pend[1].pkt PROVE s[j].pkt \in Lost'
    OBVIOUS
  <2>1. s[j] = pend[j] /\ SubSeq(pend, 1, n)[j] = pend[j] /\ j \in 1 .. Len(SubSeq(pend, 1, n))
    <3>1. j \in 1 .. Len(pend)
      BY <1>7
    <3> QED BY <1>7, <3>1, Cut
  <2>2. s[j].pkt \in PacketsOf(SubSeq(pend, 1, n))
    <3>1. SubSeq(pend, 1, n) \in Seq(Cell)
      BY <1>7, Cut
    <3>2. SubSeq(pend, 1, n)[j].pkt \in PacketsOf(SubSeq(pend, 1, n))
      BY <2>1, <3>1, PacketAt
    <3> QED BY <2>1, <3>2
  <2>3. s[j].pkt \in swallowed'
    BY <1>5, <2>2
  <2> QED BY <2>3 DEF Lost
<1>12. LossInv'
  <2>1. Lost \subseteq Lost' /\ broken \subseteq broken'
    BY <1>2, <1>5 DEF Lost
  <2>2. \A k \in 1 .. Len(handled) : \E l \in 1 .. Len(handled') : handled'[l] = handled[k]
    BY <1>6, <1>9
  <2>3. \A j \in 1 .. n :
           \/ s[j].pkt \in Lost'
           \/ /\ \E k \in 1 .. Len(handled') : handled'[k] = s[j].pkt
              /\ \A i \in 1 .. Len(t) : t[i].pkt # s[j].pkt
    BY <1>6, <1>9, <1>10, <1>11
  <2> QED BY <1>1, <1>2, <1>6, <1>7, <1>8, <2>1, <2>2, <2>3, LossKept, ZenonT(40)
<1>13. NothingLost'
  <2> SUFFICES ASSUME broken' = {} PROVE swallowed' = {} /\ skipped' = {}
    BY <1>2 DEF NothingLost
  <2>1. swallowed = {} /\ skipped = {} /\ Lost = {}
    BY <1>1, <1>2 DEF NothingLost, Lost
  <2>2. Whole(pend, n)
    BY <1>1, <1>3, <1>4, <2>1, WholeAhead
  <2>3. PacketsOf(SubSeq(pend, 1, n)) \subseteq {pend[1].pkt}
    <3>1. /\ SubSeq(pend, 1, n) \in Seq(Cell) /\ Len(SubSeq(pend, 1, n)) = n
          /\ \A i \in 1 .. n : SubSeq(pend, 1, n)[i] = pend[i]
      BY <1>7, Cut
    <3>2. \A i \in 1 .. n : SubSeq(pend, 1, n)[i].pkt = pend[1].pkt
      BY <2>2, <3>1 DEF Whole
    <3> QED BY <3>1, <3>2 DEF PacketsOf, ToSet
  <2> QED BY <1>2, <1>5, <2>1, <2>3
<1> QED BY <1>12, <1>13

\* The stream after a step, from what became of its two parts
LEMMA NewStream ==
    ASSUME NEW s \in Seq(Cell), NEW p \in Seq(Cell), NEW a \in Seq(Cell), NEW n \in Nat,
           Len(p) + Len(a) + n = Len(s), \A i \in 1 .. Len(p) : p[i] = s[i + n],
           \A i \in 1 .. Len(a) : a[i] = s[Len(p) + i + n]
    PROVE  p \o a \in Seq(Cell) /\ Behind(p \o a, s, n)
<1> DEFINE t == p \o a
<1>1. /\ t \in Seq(Cell) /\ Len(t) = Len(p) + Len(a) /\ Len(p) \in Nat /\ Len(a) \in Nat
      /\ \A i \in 1 .. Len(p) : t[i] = p[i]
      /\ \A i \in 1 .. Len(t) : i > Len(p) => i - Len(p) \in 1 .. Len(a) /\ t[i] = a[i - Len(p)]
  BY Joined
<1> HIDE DEF t
<1>2. ASSUME NEW i \in 1 .. Len(t) PROVE t[i] = s[i + n]
  <2>1. CASE i <= Len(p)
    <3>1. i \in 1 .. Len(p)
      BY <1>1, <2>1
    <3> QED BY <1>1, <3>1
  <2>2. CASE i > Len(p)
    <3>1. i - Len(p) \in 1 .. Len(a) /\ t[i] = a[i - Len(p)]
      BY <1>1, <2>2
    <3>2. Len(p) + (i - Len(p)) + n = i + n
      BY <1>1
    <3> QED BY <3>1, <3>2
  <2> QED BY <1>1, <2>1, <2>2
<1> QED BY <1>1, <1>2 DEF Behind, t

LEMMA DrainLoss ==
    ASSUME FullInv, NEW n \in 1 .. Len(arriving), ReadReset(n) \/ ReadFull(n)
    PROVE  LossInv' /\ NothingLost'
<1>1. TypeOK /\ StreamInv /\ LossInv /\ NothingLost
  BY DEF FullInv, IInv
<1>2. /\ pend' = <<>> /\ arriving' = Drop(arriving, n) /\ sent' = sent /\ handled' = handled
      /\ broken' = broken \cup PacketsOf(pend) \cup PacketsOf(SubSeq(arriving, 1, n))
      /\ swallowed' = swallowed /\ skipped' = skipped
  BY DEF ReadReset, ReadFull, Drained
<1>3. PICK s, e, a : s = pend \o arriving /\ e = <<>> /\ a = Drop(arriving, n)
  OBVIOUS
<1>4. /\ pend \in Seq(Cell) /\ arriving \in Seq(Cell) /\ s \in Seq(Cell)
      /\ Len(pend) \in Nat /\ Len(arriving) \in Nat /\ Len(s) = Len(pend) + Len(arriving)
      /\ \A i \in 1 .. Len(pend) : s[i] = pend[i]
      /\ \A i \in 1 .. Len(arriving) : s[Len(pend) + i] = arriving[i]
  BY <1>1, <1>3, Streaming
<1>5. /\ a \in Seq(Cell) /\ Len(a) = Len(arriving) - n
      /\ \A i \in 1 .. Len(arriving) - n : a[i] = arriving[i + n]
      /\ SubSeq(arriving, 1, n) \in Seq(Cell) /\ Len(SubSeq(arriving, 1, n)) = n
      /\ \A i \in 1 .. n : SubSeq(arriving, 1, n)[i] = arriving[i]
  <2>1. n \in 0 .. Len(arriving)
    BY <1>4
  <2> QED BY <1>3, <1>4, <2>1, Cut
<1>6. PICK m \in Nat : m = Len(pend) + n
  BY <1>4
<1>7. e \o a \in Seq(Cell) /\ Behind(e \o a, s, m) /\ (pend \o arriving)' = e \o a
  <2>1. e \in Seq(Cell) /\ Len(e) = 0 /\ Len(e) + Len(a) + m = Len(s)
    BY <1>3, <1>4, <1>5, <1>6
  <2>2. \A i \in 1 .. Len(e) : e[i] = s[i + m]
    BY <2>1
  <2>3. ASSUME NEW i \in 1 .. Len(a) PROVE a[i] = s[Len(e) + i + m]
    <3>1. i \in 1 .. Len(arriving) - n /\ i + n \in 1 .. Len(arriving)
      BY <1>4, <1>5
    <3>2. Len(e) + i + m = Len(pend) + (i + n)
      BY <1>4, <1>6, <2>1
    <3> QED BY <1>4, <1>5, <3>1, <3>2
  <2>4. (pend \o arriving)' = e \o a
    BY <1>2, <1>3
  <2> QED BY <1>4, <1>5, <2>1, <2>2, <2>3, <2>4, NewStream, ZenonT(40)
<1>8. ASSUME NEW j \in 1 .. m PROVE s[j].pkt \in broken'
  <2>1. CASE j \in 1 .. Len(pend)
    <3>1. s[j].pkt \in PacketsOf(pend)
      BY <1>4, <2>1, PacketAt
    <3> QED BY <1>2, <3>1
  <2>2. CASE ~ (j \in 1 .. Len(pend))
    <3>1. j - Len(pend) \in 1 .. n /\ Len(pend) + (j - Len(pend)) = j
          /\ j - Len(pend) \in 1 .. Len(arriving)
      BY <1>4, <1>6, <2>2
    <3>2. SubSeq(arriving, 1, n)[j - Len(pend)].pkt \in PacketsOf(SubSeq(arriving, 1, n))
      BY <1>5, <3>1, PacketAt
    <3>3. SubSeq(arriving, 1, n)[j - Len(pend)] = s[j]
      BY <1>4, <1>5, <3>1
    <3> QED BY <1>2, <3>2, <3>3
  <2> QED BY <2>1, <2>2
<1>9. LossInv'
  <2>1. Lost \subseteq Lost' /\ broken \subseteq broken' /\ broken' \subseteq Lost'
    BY <1>2 DEF Lost
  <2>2. \A k \in 1 .. Len(handled) : \E l \in 1 .. Len(handled') : handled'[l] = handled[k]
    BY <1>2
  <2>3. PICK t : t = e \o a
    OBVIOUS
  <2>4. \A j \in 1 .. m : s[j].pkt \in Lost'
    BY <1>8, <2>1
  <2> QED BY <1>1, <1>2, <1>3, <1>7, <2>1, <2>2, <2>3, <2>4, LossKept
<1>10. NothingLost'
  BY <1>1, <1>2 DEF NothingLost
<1> QED BY <1>9, <1>10

LEMMA ReadLoss ==
    ASSUME FullInv, NEW n \in 1 .. Len(arriving), Read(n)
    PROVE  LossInv' /\ NothingLost'
<1>1. TypeOK /\ StreamInv /\ LossInv /\ NothingLost
  BY DEF FullInv, IInv
<1>2. PICK k, p, q, a, s : /\ k = Min({n, ToEnd}) /\ q = SubSeq(arriving, 1, k) /\ p = pend \o q
                           /\ a = Drop(arriving, k) /\ s = pend \o arriving
  OBVIOUS
<1>3. /\ pend' = p /\ arriving' = a /\ pc' = "lock"
      /\ UNCHANGED <<sent, handled, broken, swallowed, skipped>>
  BY <1>2 DEF Read, losing
<1>4. /\ pend \in Seq(Cell) /\ arriving \in Seq(Cell) /\ s \in Seq(Cell)
      /\ Len(pend) \in Nat /\ Len(arriving) \in Nat /\ Len(s) = Len(pend) + Len(arriving)
      /\ \A i \in 1 .. Len(pend) : s[i] = pend[i]
      /\ \A i \in 1 .. Len(arriving) : s[Len(pend) + i] = arriving[i]
  BY <1>1, <1>2, Streaming
<1>5. k \in 0 .. Len(arriving)
  <2>1. n \in Nat /\ ToEnd \in Nat
    BY <1>1, <1>4, ToEndFits
  <2>2. k \in Nat /\ k <= n
    BY <1>2, <2>1, TwoMin
  <2> QED BY <1>4, <2>1, <2>2
<1>6. /\ a \in Seq(Cell) /\ Len(a) = Len(arriving) - k
      /\ \A i \in 1 .. Len(arriving) - k : a[i] = arriving[i + k]
      /\ q \in Seq(Cell) /\ Len(q) = k /\ \A i \in 1 .. k : q[i] = arriving[i]
  BY <1>2, <1>4, <1>5, Cut, ZenonT(40)
<1>7. /\ p \in Seq(Cell) /\ Len(p) = Len(pend) + k
      /\ \A i \in 1 .. Len(pend) : p[i] = pend[i]
      /\ \A i \in 1 .. Len(p) : i > Len(pend) => i - Len(pend) \in 1 .. k /\ p[i] = q[i - Len(pend)]
  <2>1. q \in Seq(Cell) /\ Len(q) = k /\ p = pend \o q
    BY <1>2, <1>6
  <2>2. pend \in Seq(Cell)
    BY <1>4
  <2>3. /\ pend \o q \in Seq(Cell) /\ Len(pend \o q) = Len(pend) + Len(q)
        /\ \A i \in 1 .. Len(pend) : (pend \o q)[i] = pend[i]
        /\ \A i \in 1 .. Len(pend \o q) : i > Len(pend) =>
              i - Len(pend) \in 1 .. Len(q) /\ (pend \o q)[i] = q[i - Len(pend)]
    BY <2>1, <2>2, Joined
  <2> QED BY <2>1, <2>3
<1>8. p \o a \in Seq(Cell) /\ Behind(p \o a, s, 0) /\ (pend \o arriving)' = p \o a
  <2>1. Len(p) + Len(a) + 0 = Len(s)
    BY <1>4, <1>5, <1>6, <1>7
  <2>2. ASSUME NEW i \in 1 .. Len(p) PROVE p[i] = s[i + 0]
    <3>1. CASE i \in 1 .. Len(pend)
      BY <1>4, <1>7, <3>1
    <3>2. CASE i > Len(pend)
      <4>1. i - Len(pend) \in 1 .. k /\ p[i] = q[i - Len(pend)]
        BY <1>7, <3>2
      <4>2. q[i - Len(pend)] = arriving[i - Len(pend)] /\ i - Len(pend) \in 1 .. Len(arriving)
        BY <1>4, <1>5, <1>6, <4>1
      <4>3. Len(pend) + (i - Len(pend)) = i + 0
        BY <1>4
      <4> QED BY <1>4, <4>1, <4>2, <4>3
    <3>3. i \in 1 .. Len(pend) \/ i > Len(pend)
      BY <1>4
    <3> QED BY <3>1, <3>2, <3>3, Zenon
  <2>3. ASSUME NEW i \in 1 .. Len(a) PROVE a[i] = s[Len(p) + i + 0]
    <3>1. i \in 1 .. Len(arriving) - k /\ i + k \in 1 .. Len(arriving)
      BY <1>4, <1>5, <1>6
    <3>2. Len(p) + i + 0 = Len(pend) + (i + k)
      BY <1>4, <1>5, <1>7
    <3> QED BY <1>4, <1>6, <3>1, <3>2
  <2>4. (pend \o arriving)' = p \o a
    BY <1>3
  <2> QED BY <1>4, <1>6, <1>7, <2>1, <2>2, <2>3, <2>4, NewStream
<1>9. LossInv'
  <2>1. Lost \subseteq Lost' /\ broken \subseteq broken' /\ sent' = sent
    BY <1>3 DEF Lost
  <2>2. \A l \in 1 .. Len(handled) : \E m \in 1 .. Len(handled') : handled'[m] = handled[l]
    BY <1>3
  <2>3. PICK t, z : t = p \o a /\ z = 0
    OBVIOUS
  <2>4. z \in Nat /\ Behind(t, pend \o arriving, z) /\ t \in Seq(Cell) /\ (pend \o arriving)' = t
    BY <1>2, <1>8, <2>3
  <2>5. \A j \in 1 .. z : FALSE
    BY <2>3
  <2> QED BY <1>1, <2>1, <2>2, <2>4, <2>5, LossKept
<1>10. NothingLost'
  BY <1>1, <1>3 DEF NothingLost
<1> QED BY <1>9, <1>10

LEMMA ReconnectLoss ==
    ASSUME FullInv, Reconnect
    PROVE  LossInv' /\ NothingLost'
<1>1. TypeOK /\ StreamInv /\ LossInv /\ NothingLost
  BY DEF FullInv, IInv
<1>2. /\ arriving' = <<>> /\ pend' = pend /\ sent' = sent /\ handled' = handled /\ pc' = pc
      /\ broken' = broken \cup PacketsOf(arriving) /\ swallowed' = swallowed /\ skipped' = skipped
  BY DEF Reconnect
<1>3. PICK s, t, y : s = pend \o arriving /\ t = (pend \o arriving)' /\ y = Lost'
  OBVIOUS
<1>4. /\ pend \in Seq(Cell) /\ arriving \in Seq(Cell) /\ t = pend
      /\ Len(pend) \in Nat /\ Len(arriving) \in Nat /\ Len(s) = Len(pend) + Len(arriving)
      /\ \A i \in 1 .. Len(pend) : s[i] = pend[i]
      /\ \A i \in 1 .. Len(arriving) : s[Len(pend) + i] = arriving[i]
  <2>1. /\ pend \in Seq(Cell) /\ arriving \in Seq(Cell)
        /\ Len(pend) \in Nat /\ Len(arriving) \in Nat /\ Len(s) = Len(pend) + Len(arriving)
        /\ \A i \in 1 .. Len(pend) : s[i] = pend[i]
        /\ \A i \in 1 .. Len(arriving) : s[Len(pend) + i] = arriving[i]
    BY <1>1, <1>3, Streaming
  <2>2. t = pend \o <<>>
    BY <1>2, <1>3
  <2> QED BY <2>1, <2>2
<1>5. Lost \subseteq y /\ PacketsOf(arriving) \subseteq y /\ broken \subseteq broken'
  BY <1>2, <1>3 DEF Lost
<1>6. \A j \in 1 .. Len(s) : j > Len(pend) => s[j].pkt \in y
  <2> SUFFICES ASSUME NEW j \in 1 .. Len(s), j > Len(pend) PROVE s[j].pkt \in y
    OBVIOUS
  <2>1. j - Len(pend) \in 1 .. Len(arriving) /\ Len(pend) + (j - Len(pend)) = j
    BY <1>4
  <2>2. arriving[j - Len(pend)].pkt \in PacketsOf(arriving) /\ s[j] = arriving[j - Len(pend)]
    BY <1>4, <2>1, PacketAt
  <2> QED BY <1>5, <2>2
<1>7. WholeStream(t, y)
  <2> SUFFICES ASSUME NEW i \in 1 .. Len(pend), pend[i].pkt \notin y
               PROVE  /\ i - pend[i].at >= 0 /\ i - pend[i].at + WireLength(pend[i].kind) <= Len(pend)
                      /\ \A m \in 1 .. WireLength(pend[i].kind) :
                            LET c == pend[i - pend[i].at + m]
                            IN  c.pkt = pend[i].pkt /\ c.kind = pend[i].kind /\ c.at = m
    BY <1>4, ZenonT(30) DEF WholeStream
  <2> DEFINE w == WireLength(pend[i].kind)
             b == i - pend[i].at
  <2>1. i \in 1 .. Len(s) /\ s[i] = pend[i] /\ s[i].pkt \notin Lost /\ i \in Nat
    BY <1>4, <1>5
  <2>2. w \in Nat /\ pend[i].at \in 1 .. w
    BY <1>1, <1>3, <2>1, Cells
  <2>3. /\ b >= 0 /\ b + w <= Len(s) /\ b \in Int
        /\ \A m \in 1 .. w :
              s[b + m].pkt = pend[i].pkt /\ s[b + m].kind = pend[i].kind /\ s[b + m].at = m
    <3>1. WholeStream(s, Lost)
      BY <1>1, <1>3 DEF LossInv
    <3>2. /\ i - s[i].at >= 0 /\ i - s[i].at + WireLength(s[i].kind) <= Len(s)
          /\ \A m \in 1 .. WireLength(s[i].kind) :
                LET c == s[i - s[i].at + m] IN c.pkt = s[i].pkt /\ c.kind = s[i].kind /\ c.at = m
      BY <2>1, <3>1, Zenon DEF WholeStream
    <3>3. b \in Int
      BY <2>1, <2>2
    <3> QED BY <2>1, <3>2, <3>3
  <2> HIDE DEF w, b
  <2>4. b + w <= Len(pend)
    <3> SUFFICES ASSUME b + w > Len(pend) PROVE FALSE
      BY <1>4, <2>2, <2>3
    <3>1. w \in 1 .. w /\ b + w \in 1 .. Len(s)
      BY <1>4, <2>2, <2>3
    <3> QED BY <1>6, <2>3, <3>1
  <2>5. \A m \in 1 .. w : s[b + m] = pend[b + m]
    <3> SUFFICES ASSUME NEW m \in 1 .. w PROVE s[b + m] = pend[b + m]
      OBVIOUS
    <3>1. b + m \in 1 .. Len(pend)
      BY <1>4, <2>2, <2>3, <2>4
    <3> QED BY <1>4, <3>1
  <2> QED BY <2>3, <2>4, <2>5 DEF w, b
<1>8. NoneLong(t, broken')
  <2>1. NoneLong(s, broken)
    BY <1>1, <1>3 DEF LossInv
  <2>2. \A i \in 1 .. Len(pend) : i \in 1 .. Len(s) /\ s[i] = pend[i]
    BY <1>4
  <2> QED BY <1>4, <1>5, <2>1, <2>2 DEF NoneLong
<1>9. Accounted(t, sent, handled, y)
  <2> SUFFICES ASSUME NEW p \in 1 .. sent, p \notin y, ~ \E k \in 1 .. Len(handled) : handled[k] = p
               PROVE  \E i \in 1 .. Len(pend) : pend[i].pkt = p
    BY <1>4 DEF Accounted
  <2>1. PICK i \in 1 .. Len(s) : s[i].pkt = p
    BY <1>1, <1>3, <1>5 DEF LossInv, Accounted
  <2>2. ~ (i > Len(pend))
    BY <1>6, <2>1
  <2>3. i \in 1 .. Len(pend)
    BY <1>4, <2>2
  <2> QED BY <1>4, <2>1, <2>3
<1>10. LossInv'
  BY <1>2, <1>3, <1>7, <1>8, <1>9 DEF LossInv
<1>11. NothingLost'
  BY <1>1, <1>2 DEF NothingLost
<1> QED BY <1>10, <1>11

\* A packet joins the stream as a whole.
LEMMA Sent ==
    ASSUME TypeOK, StreamInv, NEW k \in Kinds, Send(k)
    PROVE  \E t \in Seq(Cell) :
              /\ t = (pend \o arriving)' /\ Len(t) = Len(pend \o arriving) + WireLength(k)
              /\ \A i \in 1 .. Len(pend \o arriving) : t[i] = (pend \o arriving)[i]
              /\ \A m \in 1 .. WireLength(k) :
                    LET c == t[Len(pend \o arriving) + m]
                    IN  c.pkt = sent + 1 /\ c.kind = k /\ c.at = m
<1>1. PICK w, a, s, t : /\ w = Wire(sent + 1, k) /\ a = arriving \o w
                        /\ s = pend \o arriving /\ t = pend \o a
  OBVIOUS
<1>2. /\ pend \in Seq(Cell) /\ arriving \in Seq(Cell) /\ sent \in Nat
      /\ Len(pend) \in Nat /\ Len(arriving) \in Nat /\ Len(s) = Len(pend) + Len(arriving)
      /\ \A i \in 1 .. Len(pend) : s[i] = pend[i]
      /\ \A i \in 1 .. Len(arriving) : s[Len(pend) + i] = arriving[i]
  BY <1>1, Streaming
<1>3. WireLength(k) \in Nat
  BY Sizes DEF WireLength, Kinds
<1>4. /\ w \in Seq(Cell) /\ Len(w) = WireLength(k)
      /\ \A i \in 1 .. Len(w) : w[i].pkt = sent + 1 /\ w[i].kind = k /\ w[i].at = i
  <2>1. w \in [1 .. WireLength(k) -> Cell]
    BY <1>1, <1>2, <1>3 DEF Wire, Cell
  <2>2. w = [i \in 1 .. WireLength(k) |-> [pkt |-> sent + 1, kind |-> k, at |-> i]]
    BY <1>1 DEF Wire
  <2>3. w \in Seq(Cell) /\ Len(w) = WireLength(k)
    BY <1>3, <2>1, <2>2
  <2> QED BY <1>3, <2>2, <2>3
<1>5. /\ a \in Seq(Cell) /\ Len(a) = Len(arriving) + Len(w)
      /\ \A i \in 1 .. Len(arriving) : a[i] = arriving[i]
      /\ \A i \in 1 .. Len(w) : a[Len(arriving) + i] = w[i]
  <2>1. arriving \in Seq(Cell) /\ w \in Seq(Cell) /\ a = arriving \o w
    BY <1>1, <1>2, <1>4
  <2>2. /\ arriving \o w \in Seq(Cell) /\ Len(arriving \o w) = Len(arriving) + Len(w)
        /\ \A i \in 1 .. Len(arriving) : (arriving \o w)[i] = arriving[i]
        /\ \A i \in 1 .. Len(w) : (arriving \o w)[Len(arriving) + i] = w[i]
    BY <2>1, Joined
  <2> QED BY <2>1, <2>2
<1>6. /\ t \in Seq(Cell) /\ Len(t) = Len(pend) + Len(a)
      /\ \A i \in 1 .. Len(pend) : t[i] = pend[i]
      /\ \A i \in 1 .. Len(a) : t[Len(pend) + i] = a[i]
  <2>1. pend \in Seq(Cell) /\ a \in Seq(Cell) /\ t = pend \o a
    BY <1>1, <1>2, <1>5
  <2>2. /\ pend \o a \in Seq(Cell) /\ Len(pend \o a) = Len(pend) + Len(a)
        /\ \A i \in 1 .. Len(pend) : (pend \o a)[i] = pend[i]
        /\ \A i \in 1 .. Len(a) : (pend \o a)[Len(pend) + i] = a[i]
    BY <2>1, Joined
  <2> QED BY <2>1, <2>2
<1>7. t = (pend \o arriving)'
  BY <1>1 DEF Send
<1>8. Len(t) = Len(s) + WireLength(k)
  BY <1>2, <1>3, <1>4, <1>5, <1>6
<1>9. ASSUME NEW i \in 1 .. Len(s) PROVE t[i] = s[i]
  <2>1. CASE i \in 1 .. Len(pend)
    BY <1>2, <1>6, <2>1
  <2>2. CASE ~ (i \in 1 .. Len(pend))
    <3>1. i - Len(pend) \in 1 .. Len(arriving) /\ Len(pend) + (i - Len(pend)) = i
      BY <1>2, <2>2
    <3>2. i - Len(pend) \in 1 .. Len(a)
      BY <1>2, <1>3, <1>4, <1>5, <3>1
    <3> QED BY <1>2, <1>5, <1>6, <3>1, <3>2, ZenonT(40)
  <2> QED BY <2>1, <2>2
<1>10. ASSUME NEW m \in 1 .. WireLength(k)
       PROVE  t[Len(s) + m].pkt = sent + 1 /\ t[Len(s) + m].kind = k /\ t[Len(s) + m].at = m
  <2>1. Len(arriving) + m \in 1 .. Len(a) /\ Len(pend) + (Len(arriving) + m) = Len(s) + m
        /\ m \in 1 .. Len(w)
    BY <1>2, <1>3, <1>4, <1>5
  <2>2. t[Len(s) + m] = w[m]
    BY <1>5, <1>6, <2>1
  <2> QED BY <1>4, <2>1, <2>2
<1> QED BY <1>1, <1>6, <1>7, <1>8, <1>9, <1>10

LEMMA SendLoss ==
    ASSUME FullInv, NEW k \in Kinds, Send(k)
    PROVE  LossInv' /\ NothingLost'
<1>1. TypeOK /\ StreamInv /\ LossInv /\ NothingLost
  BY DEF FullInv, IInv
<1>2. /\ sent' = sent + 1 /\ handled' = handled /\ pend' = pend /\ pc' = pc
      /\ broken' = IF k = "long" THEN broken \cup {sent + 1} ELSE broken
      /\ swallowed' = swallowed /\ skipped' = skipped
  BY DEF Send
<1>3. PICK s, y : s = pend \o arriving /\ y = Lost'
  OBVIOUS
<1>4. PICK t \in Seq(Cell) :
         /\ t = (pend \o arriving)' /\ Len(t) = Len(s) + WireLength(k)
         /\ \A i \in 1 .. Len(s) : t[i] = s[i]
         /\ \A m \in 1 .. WireLength(k) :
               LET c == t[Len(s) + m] IN c.pkt = sent + 1 /\ c.kind = k /\ c.at = m
  <2>1. \E t \in Seq(Cell) :
           /\ t = (pend \o arriving)' /\ Len(t) = Len(pend \o arriving) + WireLength(k)
           /\ \A i \in 1 .. Len(pend \o arriving) : t[i] = (pend \o arriving)[i]
           /\ \A m \in 1 .. WireLength(k) :
                 LET c == t[Len(pend \o arriving) + m]
                 IN  c.pkt = sent + 1 /\ c.kind = k /\ c.at = m
    BY <1>1, Sent
  <2> QED BY <1>3, <2>1
<1>5. s \in Seq(Cell) /\ Len(s) \in Nat /\ WireLength(k) \in Nat /\ sent \in Nat
  <2>1. WireLength(k) \in Nat
    BY Sizes DEF WireLength, Kinds
  <2> QED BY <1>1, <1>3, <2>1, Streaming
<1>6. Lost \subseteq y /\ broken \subseteq broken' /\ (k = "long" => sent + 1 \in broken')
  BY <1>2, <1>3 DEF Lost
<1>7. WholeStream(t, y)
  <2> SUFFICES ASSUME NEW i \in 1 .. Len(t), t[i].pkt \notin y
               PROVE  /\ i - t[i].at >= 0 /\ i - t[i].at + WireLength(t[i].kind) <= Len(t)
                      /\ \A m \in 1 .. WireLength(t[i].kind) :
                            LET c == t[i - t[i].at + m]
                            IN  c.pkt = t[i].pkt /\ c.kind = t[i].kind /\ c.at = m
    BY Zenon DEF WholeStream
  <2>1. CASE i \in 1 .. Len(s)
    <3> DEFINE w == WireLength(s[i].kind)
               b == i - s[i].at
    <3>1. t[i] = s[i] /\ s[i].pkt \notin Lost /\ i \in Nat
      BY <1>4, <1>5, <1>6, <2>1
    <3>2. w \in Nat /\ s[i].at \in 1 .. w
      BY <1>1, <1>3, <2>1, Cells
    <3>3. /\ b >= 0 /\ b + w <= Len(s) /\ b \in Int
          /\ \A m \in 1 .. w :
                s[b + m].pkt = s[i].pkt /\ s[b + m].kind = s[i].kind /\ s[b + m].at = m
      <4>1. WholeStream(s, Lost)
        BY <1>1, <1>3 DEF LossInv
      <4>2. /\ i - s[i].at >= 0 /\ i - s[i].at + WireLength(s[i].kind) <= Len(s)
            /\ \A m \in 1 .. WireLength(s[i].kind) :
                  LET c == s[i - s[i].at + m] IN c.pkt = s[i].pkt /\ c.kind = s[i].kind /\ c.at = m
        BY <2>1, <3>1, <4>1, Zenon DEF WholeStream
      <4>3. b \in Int
        BY <3>1, <3>2
      <4> QED BY <4>2, <4>3
    <3> HIDE DEF w, b
    <3>4. b + w <= Len(t)
      BY <1>4, <1>5, <3>2, <3>3
    <3>5. \A m \in 1 .. w : t[b + m] = s[b + m]
      <4> SUFFICES ASSUME NEW m \in 1 .. w PROVE t[b + m] = s[b + m]
        OBVIOUS
      <4>1. b + m \in 1 .. Len(s)
        BY <1>5, <3>2, <3>3
      <4> QED BY <1>4, <4>1
    <3> QED BY <3>1, <3>3, <3>4, <3>5 DEF w, b
  <2>2. CASE ~ (i \in 1 .. Len(s))
    <3>1. i - Len(s) \in 1 .. WireLength(k) /\ Len(s) + (i - Len(s)) = i
      BY <1>4, <1>5, <2>2
    <3>2. t[i].pkt = sent + 1 /\ t[i].kind = k /\ t[i].at = i - Len(s)
      BY <1>4, <3>1
    <3>3. i - t[i].at = Len(s)
      BY <1>5, <3>2
    <3> QED BY <1>4, <1>5, <3>2, <3>3
  <2> QED BY <2>1, <2>2
<1>8. NoneLong(t, broken')
  <2> SUFFICES ASSUME NEW i \in 1 .. Len(t), t[i].kind = "long" PROVE t[i].pkt \in broken'
    BY DEF NoneLong
  <2>1. CASE i \in 1 .. Len(s)
    BY <1>1, <1>3, <1>4, <1>6, <2>1 DEF LossInv, NoneLong
  <2>2. CASE ~ (i \in 1 .. Len(s))
    <3>1. i - Len(s) \in 1 .. WireLength(k) /\ Len(s) + (i - Len(s)) = i
      BY <1>4, <1>5, <2>2
    <3>2. t[i].pkt = sent + 1 /\ t[i].kind = k
      BY <1>4, <3>1
    <3> QED BY <1>6, <3>2
  <2> QED BY <2>1, <2>2
<1>9. Accounted(t, sent + 1, handled, y)
  <2> SUFFICES ASSUME NEW p \in 1 .. sent + 1, p \notin y,
                      ~ \E l \in 1 .. Len(handled) : handled[l] = p
               PROVE  \E i \in 1 .. Len(t) : t[i].pkt = p
    BY DEF Accounted
  <2>1. CASE p \in 1 .. sent
    <3>1. PICK i \in 1 .. Len(s) : s[i].pkt = p
      BY <1>1, <1>3, <1>6, <2>1 DEF LossInv, Accounted
    <3>2. i \in 1 .. Len(t)
      BY <1>4, <1>5
    <3> QED BY <1>4, <3>1, <3>2
  <2>2. CASE ~ (p \in 1 .. sent)
    <3>1. p = sent + 1
      BY <1>5, <2>2
    <3>2. 1 \in 1 .. WireLength(k) /\ Len(s) + 1 \in 1 .. Len(t)
      <4>1. WireLength(k) >= 1
        BY Sizes DEF WireLength, Kinds
      <4> QED BY <1>4, <1>5, <4>1
    <3> QED BY <1>4, <3>1, <3>2
  <2> QED BY <2>1, <2>2
<1>10. LossInv'
  BY <1>2, <1>3, <1>4, <1>7, <1>8, <1>9 DEF LossInv
<1>11. NothingLost'
  BY <1>1, <1>2 DEF NothingLost
<1> QED BY <1>10, <1>11

\* Neither the cells nor what is known of losses changes.
LEMMA NoLoss ==
    ASSUME FullInv, UNCHANGED <<sent, pend, arriving, handled, losing>>,
           pc' \in {pc, "parse"} \/ ParseIncomplete
    PROVE  LossInv' /\ NothingLost'
<1>1. TypeOK /\ StreamInv /\ LossInv /\ NothingLost
  BY DEF FullInv, IInv
<1>2. /\ sent' = sent /\ pend' = pend /\ arriving' = arriving /\ handled' = handled
      /\ broken' = broken /\ swallowed' = swallowed /\ skipped' = skipped
  BY DEF losing
<1>3. LossInv'
  BY <1>1, <1>2 DEF LossInv, Lost
<1>4. CASE pc' \in {pc, "parse"}
  BY <1>1, <1>2, <1>3, <1>4 DEF NothingLost
<1>5. CASE ParseIncomplete
  <2>1. pend # <<>> => ~ Whole(pend, Max({HeadLen, WireLength(pend[1].kind)}))
    <3> SUFFICES ASSUME pend # <<>>, Whole(pend, Max({HeadLen, WireLength(pend[1].kind)}))
                 PROVE  FALSE
      OBVIOUS
    <3>1. pend \in Seq(Cell) /\ Len(pend) \in Nat /\ Len(pend) >= 1
      BY <1>1 DEF TypeOK
    <3>2. pend[1] \in Cell
      BY <3>1
    <3>3. pend[1].kind \in Kinds
      BY <3>2 DEF Cell
    <3>4. WireLength(pend[1].kind) \in Nat /\ WireLength(pend[1].kind) >= HeadLen /\ HeadLen \in Nat
      BY <3>3, Sizes DEF WireLength, Kinds
    <3>5. Max({HeadLen, WireLength(pend[1].kind)}) = WireLength(pend[1].kind)
      BY <3>4 DEF Max
    <3>6. WireLength(pend[1].kind) <= Len(pend)
      BY <3>5 DEF Whole
    <3>7. AtHeader /\ Declared <= StreamMax /\ Declared > Len(pend)
      BY <1>5, <3>1, <3>4, <3>6 DEF ParseIncomplete
    <3>8. Declared = WireLength(pend[1].kind)
      BY <3>1, <3>3, <3>7, Sizes DEF Declared, StreamLength, CmdLength, WireLength, Kinds
    <3> QED BY <3>1, <3>4, <3>6, <3>7, <3>8
  <2> QED BY <1>1, <1>2, <1>3, <2>1 DEF NothingLost
<1> QED BY <1>4, <1>5

LEMMA InitFull == Init => FullInv
<1> SUFFICES ASSUME Init PROVE FullInv
  OBVIOUS
<1>1. IInv
  BY InitInv
<1>2. pend \o arriving = <<>> /\ Len(<<>>) = 0 /\ sent = 0 /\ pend = <<>>
      /\ broken = {} /\ swallowed = {} /\ skipped = {}
  BY DEF Init
<1>3. LossInv
  BY <1>2 DEF LossInv, WholeStream, NoneLong, Accounted
<1>4. NothingLost
  BY <1>2 DEF NothingLost
<1> QED BY <1>1, <1>3, <1>4 DEF FullInv

LEMMA NextFull == FullInv /\ [Next]_vars => FullInv'
<1> SUFFICES ASSUME FullInv, [Next]_vars PROVE FullInv'
  OBVIOUS
<1>1. IInv'
  BY NextInv DEF FullInv
<1> SUFFICES LossInv' /\ NothingLost'
  BY <1>1 DEF FullInv
<1>2. CASE \E k \in Kinds : Send(k)
  BY <1>2, SendLoss
<1>3. CASE Reconnect
  BY <1>3, ReconnectLoss
<1>4. CASE \/ Consume \/ SetError \/ Stop \/ Stopped \/ Start \/ Lock \/ ParseNothing
           \/ UNCHANGED vars
  <2>1. UNCHANGED <<sent, pend, arriving, handled, losing>> /\ pc' \in {pc, "parse"}
    BY <1>4 DEF Consume, SetError, Stop, Stopped, Start, Lock, ParseNothing, vars, link, flags
  <2> QED BY <2>1, NoLoss
<1>5. CASE \E n \in 1 .. Len(arriving) : ReadReset(n) \/ ReadFull(n) \/ Read(n)
  BY <1>5, DrainLoss, ReadLoss
<1>6. CASE ParseInvalid \/ ParseTooLong \/ ParseStreamTorn
  BY <1>1, <1>6, HeaderLoss
<1>7. CASE ParseStream \/ ParseStreamOff \/ ParseCmd
  BY <1>1, <1>7, TakeLoss
<1>8. CASE ParseIncomplete
  <2>1. UNCHANGED <<sent, pend, arriving, handled, losing>>
    BY <1>8 DEF ParseIncomplete, LoopEnds, link
  <2> QED BY <1>8, <2>1, NoLoss
<1> QED BY <1>2, <1>3, <1>4, <1>5, <1>6, <1>7, <1>8 DEF Next, Parse

LEMMA FullInvariant == Spec => []FullInv
  BY InitFull, NextFull, PTL DEF Spec

\* A packet that was neither taken out nor is on its way was lost for one of
\* three reasons: cells of it were thrown away, a packet cut short took it for
\* its own, or it began within the first header that find_header skips
\* (netcom.c:28-63, 171-335).
THEOREM LossIsExplained == Spec => []LossExplained
<1>1. FullInv => LossExplained
  <2> SUFFICES ASSUME FullInv, NEW p \in 1 .. sent, p \notin Lost
               PROVE  p \in ToSet(handled) \cup PacketsOf(pend) \cup PacketsOf(arriving)
    BY DEF LossExplained, Lost
  <2>1. TypeOK /\ StreamInv /\ LossInv
    BY DEF FullInv, IInv
  <2>2. PICK s : s = pend \o arriving
    OBVIOUS
  <2>3. /\ pend \in Seq(Cell) /\ arriving \in Seq(Cell)
        /\ Len(pend) \in Nat /\ Len(arriving) \in Nat /\ Len(s) = Len(pend) + Len(arriving)
        /\ \A i \in 1 .. Len(pend) : s[i] = pend[i]
        /\ \A i \in 1 .. Len(arriving) : s[Len(pend) + i] = arriving[i]
    BY <2>1, <2>2, Streaming
  <2>4. CASE \E k \in 1 .. Len(handled) : handled[k] = p
    <3>1. handled \in Seq(1 .. MaxPackets)
      BY <2>1 DEF TypeOK
    <3> QED BY <2>4, <3>1 DEF ToSet
  <2>5. CASE \E i \in 1 .. Len(s) : s[i].pkt = p
    <3>1. PICK i \in 1 .. Len(s) : s[i].pkt = p
      BY <2>5
    <3>2. CASE i \in 1 .. Len(pend)
      BY <2>3, <3>1, <3>2, PacketAt
    <3>3. CASE ~ (i \in 1 .. Len(pend))
      <4>1. i - Len(pend) \in 1 .. Len(arriving) /\ Len(pend) + (i - Len(pend)) = i
        BY <2>3, <3>3
      <4>2. arriving[i - Len(pend)].pkt \in PacketsOf(arriving)
        BY <2>3, <4>1, PacketAt
      <4> QED BY <2>3, <3>1, <4>1, <4>2
    <3> QED BY <3>2, <3>3
  <2> QED BY <2>1, <2>2, <2>4, <2>5 DEF LossInv, Accounted
<1> QED BY <1>1, FullInvariant, PTL

\* While no cell was thrown away unseen, whatever the sizes of the packets and the
\* pieces they come in, no packet is swallowed or skipped, and the callback
\* does not return with a whole one at rd1_off (netcom.c:236-336).
THEOREM NothingIsLost == Spec => []NothingLost
<1>1. FullInv => NothingLost
  BY DEF FullInv
<1> QED BY <1>1, FullInvariant, PTL

-----------------------------------------------------------------------------
\* The buffer as a queue of packets that may lose some: LossyQueue

LEMMA PacketsSent ==
    ASSUME TypeOK, StreamInv
    PROVE  /\ PacketsOf(pend) \subseteq 1 .. sent /\ PacketsOf(arriving) \subseteq 1 .. sent
           /\ \A n \in 0 .. Len(pend) : PacketsOf(SubSeq(pend, 1, n)) \subseteq 1 .. sent
           /\ \A n \in 0 .. Len(arriving) : PacketsOf(SubSeq(arriving, 1, n)) \subseteq 1 .. sent
<1>1. /\ pend \in Seq(Cell) /\ arriving \in Seq(Cell) /\ Len(pend) \in Nat /\ Len(arriving) \in Nat
      /\ \A i \in 1 .. Len(pend) : pend[i].pkt \in 1 .. sent
      /\ \A i \in 1 .. Len(arriving) : arriving[i].pkt \in 1 .. sent
  BY Streaming
<1>2. PacketsOf(pend) \subseteq 1 .. sent /\ PacketsOf(arriving) \subseteq 1 .. sent
  BY <1>1, PacketsIn
<1>3. ASSUME NEW n \in 0 .. Len(pend) PROVE PacketsOf(SubSeq(pend, 1, n)) \subseteq 1 .. sent
  <2>1. SubSeq(pend, 1, n) \in Seq(Cell) /\ Len(SubSeq(pend, 1, n)) = n
        /\ \A i \in 1 .. n : SubSeq(pend, 1, n)[i] = pend[i] /\ i \in 1 .. Len(pend)
    BY <1>1, Cut
  <2> QED BY <1>1, <2>1, PacketsIn
<1>4. ASSUME NEW n \in 0 .. Len(arriving) PROVE PacketsOf(SubSeq(arriving, 1, n)) \subseteq 1 .. sent
  <2>1. SubSeq(arriving, 1, n) \in Seq(Cell) /\ Len(SubSeq(arriving, 1, n)) = n
        /\ \A i \in 1 .. n : SubSeq(arriving, 1, n)[i] = arriving[i] /\ i \in 1 .. Len(arriving)
    BY <1>1, Cut
  <2> QED BY <1>1, <2>1, PacketsIn
<1> QED BY <1>2, <1>3, <1>4

LEMMA QueueInit == Init => Queue!Init
  BY DEF Init, Queue!Init

\* Cells are thrown away.
LEMMA QueueHurt ==
    ASSUME NEW S \in SUBSET (1 .. sent), broken' = broken \cup S,
           UNCHANGED <<sent, handled, swallowed, skipped>>
    PROVE  Queue!Next
<1>1. broken' \cup swallowed' \cup skipped' = (broken \cup swallowed \cup skipped) \cup S
  OBVIOUS
<1>2. Queue!Hurt
  BY <1>1 DEF Queue!Hurt
<1> QED BY <1>2 DEF Queue!Next

\* The loop skips the rest of a header.
LEMMA QueueHeader ==
    ASSUME FullInv, FullInv', ParseInvalid \/ ParseTooLong \/ ParseStreamTorn
    PROVE  Queue!Next
<1>1. TypeOK /\ StreamInv /\ NothingLost'
  BY DEF FullInv, IInv
<1>2. PICK S : S = {c.pkt : c \in {d \in ToSet(SubSeq(pend, 2, HeadLen)) : d.at = 1}}
  OBVIOUS
<1>3. /\ Len(pend) >= HeadLen /\ skipped' = skipped \cup S
      /\ UNCHANGED <<sent, handled, broken, swallowed>>
  BY <1>2 DEF ParseInvalid, ParseTooLong, ParseStreamTorn, FindHeader, Parsing, AtGoodStream,
     AtStream, AtHeader, link
<1>4. S \subseteq 1 .. sent
  <2>1. SubSeq(pend, 2, HeadLen) \in Seq(Cell) /\ Len(SubSeq(pend, 2, HeadLen)) \in Nat
        /\ \A i \in 1 .. Len(SubSeq(pend, 2, HeadLen)) :
              i + 1 \in 1 .. Len(pend) /\ SubSeq(pend, 2, HeadLen)[i] = pend[i + 1]
    <3>1. pend \in Seq(Cell) /\ Len(pend) \in Nat /\ HeadLen \in 1 .. Len(pend)
      BY <1>1, <1>3, Sizes DEF TypeOK
    <3> QED BY <3>1
  <2>2. \A i \in 1 .. Len(pend) : pend[i].pkt \in 1 .. sent
    BY <1>1, Streaming
  <2> QED BY <1>2, <2>1, <2>2 DEF ToSet
<1>5. S # {} => broken # {}
  BY <1>1, <1>3 DEF NothingLost
<1>6. broken' \cup swallowed' \cup skipped' = (broken \cup swallowed \cup skipped) \cup S
  BY <1>3
<1>7. Queue!Follow
  BY <1>4, <1>5, <1>6 DEF Queue!Follow
<1> QED BY <1>3, <1>7 DEF Queue!Next, Queue!Lose

\* A packet is taken out: those before it have been, or are lost.
LEMMA QueueTake ==
    ASSUME FullInv, FullInv', ParseStream \/ ParseStreamOff \/ ParseCmd
    PROVE  Queue!Next
<1>1. TypeOK /\ StreamInv /\ LossInv /\ NothingLost'
  BY DEF FullInv, IInv
<1>2. /\ AtHeader /\ Take(Declared) /\ UNCHANGED <<sent, broken, skipped>>
  BY DEF ParseStream, ParseStreamOff, ParseCmd, link, AtGoodStream, AtStream
<1>3. Declared \in 0 .. Len(pend) /\ Len(pend) \in Nat /\ 1 \in 1 .. Len(pend)
  <2>1. Declared <= Len(pend)
    BY DEF ParseStream, ParseStreamOff, ParseCmd, Whole
  <2> QED BY <1>1, <1>2, <2>1, HeaderCells, Sizes DEF AtHeader, Parsing
<1>4. PICK p, S : p = pend[1].pkt /\ S = PacketsOf(SubSeq(pend, 1, Declared)) \ {p}
  OBVIOUS
<1>5. handled' = Append(handled, p) /\ swallowed' = swallowed \cup S
  BY <1>2, <1>4 DEF Take
<1>6. S \subseteq 1 .. sent /\ p \in 1 .. sent
  BY <1>1, <1>3, <1>4, PacketsSent, Streaming
<1>7. Queue!Follow
  <2>1. S # {} => broken # {}
    BY <1>1, <1>2, <1>5 DEF NothingLost
  <2>2. broken' \cup swallowed' \cup skipped' = (broken \cup swallowed \cup skipped) \cup S
    BY <1>2, <1>5
  <2> QED BY <1>6, <2>1, <2>2 DEF Queue!Follow
<1>8. PICK s : s = pend \o arriving
  OBVIOUS
<1>9. 1 \in 1 .. Len(s) /\ s[1].pkt = p /\ Len(s) \in Nat
  BY <1>1, <1>3, <1>4, <1>8, Streaming
<1>10. \A q \in Queue!TakenOf(handled) : q < p
  BY <1>1, <1>8, <1>9 DEF StreamInv, GoodStream, Queue!TakenOf
<1>11. ASSUME NEW q \in 1 .. p - 1
       PROVE  q \in Queue!TakenOf(handled) \cup (broken' \cup swallowed' \cup skipped')
  <2>1. q \in 1 .. sent /\ q < p /\ q \in Nat /\ p \in Nat
    <3>1. sent \in Nat
      BY <1>1, Streaming
    <3> QED BY <1>6, <3>1
  <2>2. \A i \in 1 .. Len(s) : s[i].pkt # q
    <3> SUFFICES ASSUME NEW i \in 1 .. Len(s), s[i].pkt = q PROVE FALSE
      OBVIOUS
    <3>1. i # 1
      BY <1>9, <2>1
    <3>2. 1 < i
      BY <3>1
    <3>3. s[1].pkt < s[i].pkt \/ s[1].pkt = s[i].pkt
      BY <1>1, <1>8, <1>9, <3>2 DEF StreamInv, GoodStream
    <3> QED BY <1>9, <2>1, <3>3
  <2>3. q \in Lost \/ \E k \in 1 .. Len(handled) : handled[k] = q
    BY <1>1, <1>8, <2>1, <2>2 DEF LossInv, Accounted
  <2>4. Lost \subseteq broken' \cup swallowed' \cup skipped'
    BY <1>2, <1>5 DEF Lost
  <2> QED BY <2>3, <2>4 DEF Queue!TakenOf
<1>12. Queue!Take(p)
  BY <1>2, <1>5, <1>7, <1>10, <1>11 DEF Queue!Take
<1> QED BY <1>6, <1>12 DEF Queue!Next

LEMMA QueueStep == FullInv /\ FullInv' /\ [Next]_vars => [Queue!Next]_(Queue!vars)
<1> SUFFICES ASSUME FullInv, FullInv', [Next]_vars PROVE [Queue!Next]_(Queue!vars)
  OBVIOUS
<1>1. TypeOK /\ StreamInv
  BY DEF FullInv, IInv
<1>2. ASSUME NEW k \in Kinds, Send(k) PROVE Queue!Next
  <2> DEFINE wrong == IF k = "long" THEN {sent + 1} ELSE {}
  <2>1. wrong \in SUBSET {sent + 1}
    OBVIOUS
  <2>2. broken' = broken \cup wrong /\ sent' = sent + 1 /\ UNCHANGED <<handled, swallowed, skipped>>
    BY <1>2 DEF Send
  <2>3. broken' \cup swallowed' \cup skipped' = (broken \cup swallowed \cup skipped) \cup wrong
    BY <2>2
  <2>4. Queue!Send
    BY <2>1, <2>2, <2>3 DEF Queue!Send
  <2> QED BY <2>4 DEF Queue!Next
<1>3. CASE Reconnect
  <2>1. PacketsOf(arriving) \subseteq 1 .. sent
    BY <1>1, PacketsSent
  <2> QED BY <1>3, <2>1, QueueHurt DEF Reconnect
<1>4. ASSUME NEW n \in 1 .. Len(arriving), ReadReset(n) \/ ReadFull(n) PROVE Queue!Next
  <2> DEFINE S == PacketsOf(pend) \cup PacketsOf(SubSeq(arriving, 1, n))
  <2>1. n \in 0 .. Len(arriving)
    BY <1>1, Streaming
  <2>2. S \subseteq 1 .. sent
    BY <1>1, <2>1, PacketsSent
  <2>3. broken' = broken \cup S /\ UNCHANGED <<sent, handled, swallowed, skipped>>
    BY <1>4 DEF ReadReset, ReadFull, Drained
  <2> HIDE DEF S
  <2> QED BY <2>2, <2>3, QueueHurt
<1>5. ASSUME NEW n \in 1 .. Len(arriving), Read(n) PROVE UNCHANGED Queue!vars
  BY <1>5 DEF Read, losing, Queue!vars
<1>6. CASE \/ Consume \/ SetError \/ Stop \/ Stopped \/ Start \/ Lock \/ ParseNothing
           \/ ParseIncomplete \/ UNCHANGED vars
  BY <1>6 DEF Consume, SetError, Stop, Stopped, Start, Lock, ParseNothing, ParseIncomplete, LoopEnds, vars, link,
     losing, Queue!vars
<1>7. CASE ParseInvalid \/ ParseTooLong \/ ParseStreamTorn
  BY <1>7, QueueHeader
<1>8. CASE ParseStream \/ ParseStreamOff \/ ParseCmd
  BY <1>8, QueueTake
<1> QED BY <1>2, <1>3, <1>4, <1>5, <1>6, <1>7, <1>8 DEF Next, Parse

\* The buffer is a queue that loses what was thrown away, and behind that what
\* could no longer be told apart, and overtakes, repeats and forgets nothing
\* (netcom.c:156-336).
THEOREM BufferIsAQueue == Spec => ImplementsLossyQueue
<1>1. Spec => Queue!Spec
  BY FullInvariant, QueueInit, QueueStep, PTL DEF Spec, Queue!Spec
<1> QED BY <1>1 DEF ImplementsLossyQueue
=============================================================================
