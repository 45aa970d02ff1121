--------------------------- MODULE SerClientProofs ---------------------------
(***************************************************************************)
(* How a client's byte stream is taken apart, for any lengths, any number  *)
(* of packets and any cutting of the stream: the safety properties of      *)
(* SerClient.                                                              *)
(*                                                                         *)
(* The invariant that carries them says that the pieces of out are the     *)
(* cells sent up to Done, in order (Handled), that data_blob holds those   *)
(* between Done and taken (WindowInv), and that the device registered is   *)
(* that of the last init packet registered, unless it was misread          *)
(* (LatestInv).  SentInv is what the client guarantees: the cells of an    *)
(* init packet stay together, and the packets are in turn.  OverrunInv     *)
(* says how rd_off can pass wr_off.  The difference wraps then, and the    *)
(* loop neither forwards nor ends; no cell waits, and none is dealt with   *)
(* again, whatever stale bytes of data_blob are parsed.                    *)
(***************************************************************************)
EXTENDS SerClient, WellFoundedInduction, TLAPS

\* A nonempty set of numbers has a least element.
LEMMA Least ==
    ASSUME NEW T, T \subseteq Nat, T # {}
    PROVE  \E x \in T : \A y \in T : x <= y
<1> DEFINE R == OpToRel(<, Nat)
<1>1. IsWellFoundedOn(R, Nat)
  BY NatLessThanWellFounded
<1>2. \A x, y \in Nat : x < y => <<x, y>> \in R
  BY DEF OpToRel
<1> HIDE DEF R
<1>3. PICK x \in T : \A y \in T : ~ (<<y, x>> \in R)
  BY <1>1, WFMin
<1>4. \A y \in T : y \in Nat /\ x \in Nat /\ ~ (y < x)
  BY <1>2, <1>3
<1> QED BY <1>3, <1>4

-----------------------------------------------------------------------------
\* FlattenSeq is defined by recursion on the length.  IsFlat says that f is
\* the function of that recursion.
IsFlat(f, ss, n) == f = [i \in 1 .. n |-> IF i = 1 THEN ss[i] ELSE f[i - 1] \o ss[i]]

\* There is such a function for every length.
LEMMA FlatExists ==
    ASSUME NEW ss
    PROVE  \A n \in Nat : \E f : IsFlat(f, ss, n)
<1> DEFINE T == {n \in Nat : ~ \E f : IsFlat(f, ss, n)}
<1> SUFFICES ASSUME T # {} PROVE FALSE
  OBVIOUS
<1>1. PICK n \in T : \A m \in T : n <= m
  <2>1. T \subseteq Nat
    OBVIOUS
  <2> HIDE DEF T
  <2> QED BY <2>1, Least
<1>2. CASE n = 0
  <2> DEFINE f == [i \in 1 .. 0 |-> 0]
  <2>1. f = [i \in 1 .. 0 |-> IF i = 1 THEN ss[i] ELSE f[i - 1] \o ss[i]]
    OBVIOUS
  <2> QED BY <1>1, <1>2, <2>1 DEF IsFlat
<1>3. CASE n # 0
  <2>1. n \in Nat /\ n - 1 \in Nat /\ ~ (n <= n - 1)
    BY <1>3
  <2>2. PICK f : IsFlat(f, ss, n - 1)
    BY <1>1, <2>1
  <2> DEFINE F(i) == IF i = 1 THEN ss[i] ELSE f[i - 1] \o ss[i]
             g == [i \in 1 .. n |-> IF i = n THEN F(i) ELSE f[i]]
  <2>3. ASSUME NEW i \in 1 .. n
        PROVE  g[i] = IF i = 1 THEN ss[i] ELSE g[i - 1] \o ss[i]
    <3>1. CASE i = n
      <4>1. g[i] = F(i) /\ (i # 1 => g[i - 1] = f[i - 1])
        BY <2>1, <3>1
      <4> QED BY <4>1
    <3>2. CASE i # n
      <4>1. g[i] = f[i] /\ (i # 1 => g[i - 1] = f[i - 1]) /\ i \in 1 .. n - 1
        BY <2>1, <3>2
      <4>2. f[i] = F(i)
        BY <2>2, <4>1 DEF IsFlat
      <4> QED BY <4>1, <4>2
    <3> QED BY <3>1, <3>2
  <2>4. g = [i \in 1 .. n |-> IF i = 1 THEN ss[i] ELSE g[i - 1] \o ss[i]]
    <3> DEFINE h == [i \in 1 .. n |-> IF i = 1 THEN ss[i] ELSE g[i - 1] \o ss[i]]
    <3>1. \A i \in 1 .. n : g[i] = h[i]
      BY <2>3
    <3>2. g = [i \in 1 .. n |-> g[i]] /\ h = [i \in 1 .. n |-> h[i]]
      OBVIOUS
    <3> HIDE DEF g, h
    <3>3. g = h
      BY <3>1, <3>2
    <3> QED BY <3>3 DEF h
  <2>5. IsFlat(g, ss, n)
    BY <2>4 DEF IsFlat
  <2> QED BY <1>1, <2>5
<1> QED BY <1>2, <1>3

\* It only depends on the sequences it joins.
LEMMA FlatAgree ==
    ASSUME NEW ss, NEW tt, NEW f, NEW g, NEW n \in Nat, NEW m \in Nat, n <= m, IsFlat(f, ss, n),
           IsFlat(g, tt, m), \A i \in 1 .. n : ss[i] = tt[i]
    PROVE  \A i \in 1 .. n : f[i] = g[i]
<1> DEFINE T == {i \in 1 .. n : f[i] # g[i]}
<1> SUFFICES ASSUME T # {} PROVE FALSE
  OBVIOUS
<1>1. PICK i \in T : \A j \in T : i <= j
  <2>1. T \subseteq Nat
    OBVIOUS
  <2> HIDE DEF T
  <2> QED BY <2>1, Least
<1>2. i \in 1 .. n /\ i \in 1 .. m /\ ss[i] = tt[i]
  OBVIOUS
<1>3. /\ f[i] = IF i = 1 THEN ss[i] ELSE f[i - 1] \o ss[i]
      /\ g[i] = IF i = 1 THEN tt[i] ELSE g[i - 1] \o tt[i]
  BY <1>2 DEF IsFlat
<1>4. CASE i = 1
  BY <1>1, <1>2, <1>3, <1>4
<1>5. CASE i # 1
  <2>1. i - 1 \in 1 .. n /\ ~ (i <= i - 1)
    BY <1>2, <1>5
  <2>2. f[i - 1] = g[i - 1]
    BY <1>1, <2>1
  <2> QED BY <1>1, <1>2, <1>3, <1>5, <2>2
<1> QED BY <1>4, <1>5

\* What FlattenSeq returns
LEMMA FlattenIs ==
    ASSUME NEW S, NEW ss \in Seq(Seq(S)), Len(ss) # 0
    PROVE  \E f : IsFlat(f, ss, Len(ss)) /\ FlattenSeq(ss) = f[Len(ss)]
<1> DEFINE f == CHOOSE f : IsFlat(f, ss, Len(ss))
<1>1. FlattenSeq(ss) = f[Len(ss)]
  BY DEF FlattenSeq, IsFlat
<1>2. \E g : IsFlat(g, ss, Len(ss))
  <2>1. Len(ss) \in Nat
    OBVIOUS
  <2> QED BY <2>1, FlatExists
<1>3. IsFlat(f, ss, Len(ss))
  BY <1>2, Zenon
<1> HIDE DEF f
<1> QED BY <1>1, <1>3

\* One sequence more
LEMMA FlattenAppend ==
    ASSUME NEW S, NEW ss \in Seq(Seq(S)), NEW x \in Seq(S)
    PROVE  FlattenSeq(Append(ss, x)) = IF ss = <<>> THEN x ELSE FlattenSeq(ss) \o x
<1> DEFINE tt == Append(ss, x)
           n == Len(ss)
<1>1. /\ tt \in Seq(Seq(S)) /\ Len(tt) = n + 1 /\ n \in Nat /\ tt[n + 1] = x
      /\ \A i \in 1 .. n : ss[i] = tt[i]
  OBVIOUS
<1> HIDE DEF tt
<1>2. PICK g : IsFlat(g, tt, n + 1) /\ FlattenSeq(tt) = g[n + 1]
  BY <1>1, FlattenIs
<1>3. g[n + 1] = IF n + 1 = 1 THEN x ELSE g[(n + 1) - 1] \o x
  <2>1. n + 1 \in 1 .. n + 1
    BY <1>1
  <2>2. g[n + 1] = IF n + 1 = 1 THEN tt[n + 1] ELSE g[(n + 1) - 1] \o tt[n + 1]
    BY <1>2, <2>1, Zenon DEF IsFlat
  <2> QED BY <1>1, <2>2
<1>4. CASE ss = <<>>
  BY <1>1, <1>2, <1>3, <1>4 DEF tt
<1>5. CASE ss # <<>>
  <2>1. n # 0 /\ (n + 1) - 1 = n /\ n \in 1 .. n /\ n + 1 # 1
    BY <1>1, <1>5
  <2>2. PICK f : IsFlat(f, ss, n) /\ FlattenSeq(ss) = f[n]
    BY <2>1, FlattenIs
  <2>3. \A i \in 1 .. n : f[i] = g[i]
    <3>1. n + 1 \in Nat /\ n <= n + 1
      BY <1>1
    <3> HIDE DEF n
    <3>2. PICK m : m = n + 1
      OBVIOUS
    <3>3. m \in Nat /\ n <= m /\ n \in Nat /\ IsFlat(g, tt, m) /\ IsFlat(f, ss, n)
      BY <1>1, <1>2, <2>2, <3>1, <3>2
    <3>4. \A i \in 1 .. n : ss[i] = tt[i]
      BY <1>1
    <3> QED BY <3>3, <3>4, FlatAgree
  <2> QED BY <1>2, <1>3, <1>5, <2>1, <2>2, <2>3 DEF tt
<1> QED BY <1>4, <1>5

\* None at all
LEMMA FlattenEmpty == FlattenSeq(<<>>) = <<>>
  BY DEF FlattenSeq

-----------------------------------------------------------------------------
\* SubSeq(s, 1, n) as a function
LEMMA FrontIs ==
    ASSUME NEW S, NEW s \in Seq(S), NEW n \in 0 .. Len(s)
    PROVE  /\ SubSeq(s, 1, n) \in Seq(S) /\ Len(SubSeq(s, 1, n)) = n
           /\ \A i \in 1 .. n : SubSeq(s, 1, n)[i] = s[i]
  OBVIOUS

\* Concatenation, element by element
LEMMA Joined ==
    ASSUME NEW S, NEW f \in Seq(S), NEW t \in Seq(S)
    PROVE  /\ f \o t \in Seq(S) /\ Len(f \o t) = Len(f) + Len(t)
           /\ \A i \in 1 .. Len(f) : (f \o t)[i] = f[i]
           /\ \A i \in 1 .. Len(t) : (f \o t)[Len(f) + i] = t[i]
  OBVIOUS

\* The first n elements and the ones behind them up to m
LEMMA FrontMore ==
    ASSUME NEW S, NEW s \in Seq(S), NEW n \in 0 .. Len(s), NEW m \in n .. Len(s)
    PROVE  SubSeq(s, 1, n) \o [j \in 1 .. m - n |-> s[n + j]] = SubSeq(s, 1, m)
<1> DEFINE t == [j \in 1 .. m - n |-> s[n + j]]
           f == SubSeq(s, 1, n)
           g == SubSeq(s, 1, m)
<1>1. t \in Seq(S) /\ Len(t) = m - n /\ \A j \in 1 .. m - n : t[j] = s[n + j]
  <2>1. \A j \in 1 .. m - n : n + j \in 1 .. Len(s)
    OBVIOUS
  <2>2. m - n \in Nat
    OBVIOUS
  <2> QED BY <2>1, <2>2
<1>2. f \in Seq(S) /\ Len(f) = n /\ \A i \in 1 .. n : f[i] = s[i]
  BY FrontIs
<1>3. g \in Seq(S) /\ Len(g) = m /\ \A i \in 1 .. m : g[i] = s[i]
  <2>1. m \in 0 .. Len(s)
    OBVIOUS
  <2> QED BY <2>1, FrontIs
<1> HIDE DEF t, f, g
<1>0. n \in Nat /\ m \in Nat /\ n + (m - n) = m
  OBVIOUS
<1>4. f \o t \in Seq(S) /\ Len(f \o t) = m
  <2>1. f \o t \in Seq(S) /\ Len(f \o t) = Len(f) + Len(t)
    BY <1>1, <1>2, Joined
  <2> QED BY <1>0, <1>1, <1>2, <2>1
<1>5. ASSUME NEW i \in 1 .. m PROVE (f \o t)[i] = g[i]
  <2>1. CASE i <= n
    <3>1. i \in 1 .. n
      BY <1>0, <2>1
    <3>2. (f \o t)[i] = f[i]
      BY <1>1, <1>2, <3>1, Joined
    <3> QED BY <1>2, <1>3, <3>1, <3>2
  <2>2. CASE i > n
    <3>1. i - n \in 1 .. m - n /\ i = Len(f) + (i - n) /\ i - n \in 1 .. Len(t)
      BY <1>0, <1>1, <1>2, <2>2
    <3>3. (f \o t)[Len(f) + (i - n)] = t[i - n]
      BY <1>1, <1>2, <3>1, Joined
    <3>2. t[i - n] = s[n + (i - n)] /\ n + (i - n) = i
      BY <1>0, <1>1, <3>1
    <3> QED BY <1>3, <3>1, <3>2, <3>3
  <2>3. i <= n \/ i > n
    BY <1>0
  <2> QED BY <2>1, <2>2, <2>3, Zenon
<1> QED BY <1>3, <1>4, <1>5 DEF t, f, g

\* A longer sequence has the same front.
LEMMA FrontSame ==
    ASSUME NEW S, NEW s \in Seq(S), NEW t \in Seq(S), NEW n \in 0 .. Len(s), n <= Len(t),
           \A i \in 1 .. n : t[i] = s[i]
    PROVE  SubSeq(t, 1, n) = SubSeq(s, 1, n)
<1> DEFINE f == SubSeq(s, 1, n)
           g == SubSeq(t, 1, n)
<1>1. f \in Seq(S) /\ Len(f) = n /\ \A i \in 1 .. n : f[i] = s[i]
  BY FrontIs
<1>2. g \in Seq(S) /\ Len(g) = n /\ \A i \in 1 .. n : g[i] = t[i]
  <2>1. n \in 0 .. Len(t)
    OBVIOUS
  <2> QED BY <2>1, FrontIs
<1> HIDE DEF f, g
<1>3. f = g
  BY <1>1, <1>2
<1> QED BY <1>3 DEF f, g

-----------------------------------------------------------------------------
Devs == Devices \cup {None}
Piece == [to : {"register", "drop", "device"}, dev : Devs, cells : Seq(Cell)]

\* The cells of the pieces o, put together
Flat(o) == FlattenSeq([k \in 1 .. Len(o) |-> o[k].cells])

LEMMA FlatMore ==
    ASSUME NEW o \in Seq(Piece), NEW e \in Piece
    PROVE  Flat(Append(o, e)) = Flat(o) \o e.cells
<1> DEFINE F(u) == [k \in 1 .. Len(u) |-> u[k].cells]
<1>1. F(o) \in Seq(Seq(Cell)) /\ e.cells \in Seq(Cell) /\ Len(F(o)) = Len(o)
  <2>1. \A k \in 1 .. Len(o) : o[k] \in Piece
    OBVIOUS
  <2>2. \A x \in Piece : x.cells \in Seq(Cell)
    BY DEF Piece
  <2>3. Len(o) \in Nat
    OBVIOUS
  <2>4. \A k \in 1 .. Len(o) : o[k].cells \in Seq(Cell)
    BY <2>1, <2>2
  <2>5. e.cells \in Seq(Cell)
    BY <2>2
  <2> QED BY <2>3, <2>4, <2>5
<1>2. F(Append(o, e)) = Append(F(o), e.cells)
  <2> DEFINE p == Append(o, e)
             g == Append(F(o), e.cells)
  <2>1. Len(p) = Len(o) + 1 /\ Len(o) \in Nat
    OBVIOUS
  <2>2. g \in Seq(Seq(Cell)) /\ Len(g) = Len(o) + 1
    BY <1>1
  <2>3. ASSUME NEW k \in 1 .. Len(o) + 1 PROVE p[k].cells = g[k]
    <3>1. CASE k = Len(o) + 1
      BY <1>1, <3>1
    <3>2. CASE k # Len(o) + 1
      <4>1. k \in 1 .. Len(o) /\ p[k] = o[k]
        BY <3>2
      <4>2. g[k] = F(o)[k]
        BY <1>1, <4>1
      <4> QED BY <4>1, <4>2
    <3> QED BY <3>1, <3>2
  <2> HIDE DEF p, g
  <2>4. F(p) = [k \in 1 .. Len(o) + 1 |-> g[k]]
    BY <2>1, <2>3
  <2>5. g = [k \in 1 .. Len(o) + 1 |-> g[k]]
    BY <2>2
  <2> QED BY <2>4, <2>5 DEF p, g
<1>3. Flat(Append(o, e)) = FlattenSeq(F(Append(o, e))) /\ Flat(o) = FlattenSeq(F(o))
  BY DEF Flat
<1> HIDE DEF F
<1>4. PICK ss \in Seq(Seq(Cell)) : ss = F(o)
  BY <1>1
<1>5. PICK x \in Seq(Cell) : x = e.cells
  BY <1>1
<1>6. FlattenSeq(Append(ss, x)) = IF ss = <<>> THEN x ELSE FlattenSeq(ss) \o x
  BY FlattenAppend
<1>7. CASE ss = <<>>
  <2>1. FlattenSeq(ss) = <<>>
    BY <1>7, FlattenEmpty
  <2>2. FlattenSeq(Append(ss, x)) = FlattenSeq(ss) \o x
    BY <1>6, <1>7, <2>1
  <2> QED BY <1>2, <1>3, <1>4, <1>5, <2>2
<1>8. CASE ss # <<>>
  BY <1>2, <1>3, <1>4, <1>5, <1>6, <1>8
<1> QED BY <1>7, <1>8

-----------------------------------------------------------------------------
\* The pieces o are the first n cells of s, each once and in order, and
\* each of these cells is in a piece.
Handled(o, s, n) ==
    /\ Flat(o) = SubSeq(s, 1, n)
    /\ \A k \in DOMAIN o : \A c \in ToSet(o[k].cells) : \E p \in 1 .. n : c = s[p]
    /\ \A p \in 1 .. n : \E k \in DOMAIN o : s[p] \in ToSet(o[k].cells)

LEMMA HandledMore ==
    ASSUME NEW s \in Seq(Cell), NEW o \in Seq(Piece), NEW e \in Piece,
           NEW n \in 0 .. Len(s), NEW m \in n .. Len(s),
           e.cells = [j \in 1 .. m - n |-> s[n + j]], Handled(o, s, n)
    PROVE  Handled(Append(o, e), s, m)
<1> DEFINE q == Append(o, e)
<1>0. n \in Nat /\ m \in Nat /\ m - n \in Nat /\ n <= m /\ n + (m - n) = m
  OBVIOUS
<1>1. /\ Len(q) = Len(o) + 1 /\ DOMAIN q = 1 .. Len(o) + 1 /\ DOMAIN o = 1 .. Len(o)
      /\ q[Len(o) + 1] = e /\ Len(o) \in Nat
      /\ \A k \in 1 .. Len(o) : q[k] = o[k]
  OBVIOUS
<1>2. Flat(q) = SubSeq(s, 1, m)
  BY FlatMore, FrontMore, ZenonT(40) DEF Handled
<1>3. ToSet(e.cells) = {s[n + j] : j \in 1 .. m - n}
  <2>1. DOMAIN e.cells = 1 .. m - n
    OBVIOUS
  <2> QED BY <2>1 DEF ToSet
<1> HIDE DEF q
<1>4. ASSUME NEW k \in DOMAIN q, NEW c \in ToSet(q[k].cells)
      PROVE  \E p \in 1 .. m : c = s[p]
  <2>1. CASE k = Len(o) + 1
    <3>1. q[k] = e
      BY <1>1, <2>1
    <3>2. c \in ToSet(e.cells)
      BY <3>1
    <3>3. c \in {s[n + j] : j \in 1 .. m - n}
      BY <1>3, <3>2, Zenon
    <3>4. PICK j \in 1 .. m - n : c = s[n + j]
      BY <3>3
    <3>5. n + j \in 1 .. m
      BY <1>0
    <3> QED BY <3>4, <3>5
  <2>2. CASE k # Len(o) + 1
    <3>1. k \in DOMAIN o /\ q[k] = o[k]
      BY <1>1, <2>2
    <3>2. PICK p \in 1 .. n : c = s[p]
      BY <3>1, ZenonT(30) DEF Handled
    <3>3. p \in 1 .. m
      BY <1>0
    <3> QED BY <3>2, <3>3
  <2> QED BY <2>1, <2>2
<1>5. ASSUME NEW p \in 1 .. m PROVE \E k \in DOMAIN q : s[p] \in ToSet(q[k].cells)
  <2>1. CASE p <= n
    <3>1. p \in 1 .. n
      BY <1>0, <2>1
    <3>2. PICK k \in DOMAIN o : s[p] \in ToSet(o[k].cells)
      BY <3>1, Zenon DEF Handled
    <3>3. k \in DOMAIN q /\ q[k] = o[k]
      BY <1>1
    <3> QED BY <3>2, <3>3
  <2>2. CASE p > n
    <3>1. p - n \in 1 .. m - n /\ n + (p - n) = p
      BY <1>0, <2>2
    <3>2. s[p] \in ToSet(e.cells)
      BY <1>3, <3>1
    <3>3. Len(o) + 1 \in DOMAIN q
      BY <1>1
    <3> QED BY <1>1, <3>2, <3>3
  <2> QED BY <1>0, <2>1, <2>2
<1> QED BY <1>2, <1>4, <1>5 DEF Handled, q

\* What is sent later changes nothing.
LEMMA HandledSame ==
    ASSUME NEW s \in Seq(Cell), NEW t \in Seq(Cell), NEW o, NEW n \in 0 .. Len(s),
           n <= Len(t), \A p \in 1 .. n : t[p] = s[p], Handled(o, s, n)
    PROVE  Handled(o, t, n)
<1>1. SubSeq(t, 1, n) = SubSeq(s, 1, n)
  BY FrontSame
<1> QED BY <1>1 DEF Handled

-----------------------------------------------------------------------------
\* The offsets and the difference the code computes from them

LEMMA Modulo ==
    ASSUME NEW x \in Int, NEW n \in Nat, n # 0
    PROVE  /\ x >= 0 /\ x < n => x % n = x
           /\ x < 0 /\ x + n >= 0 => x % n = x + n
  OBVIOUS

LEMMA RemainingIs ==
    ASSUME TypeOK
    PROVE  /\ rd_off <= wr_off => Remaining = wr_off - rd_off
           /\ rd_off > wr_off => Remaining > BufSize
<1>1. /\ wr_off \in 0 .. BufSize /\ rd_off \in 0 .. BufSize + AgentHead
      /\ BufSize \in Nat /\ AgentHead \in Nat /\ Word \in Nat /\ Word # 0
      /\ 2 * BufSize + AgentHead < Word
  BY SerClientAssumption DEF TypeOK
<1>2. PICK x \in Int : x = wr_off - rd_off
  BY <1>1
<1>3. /\ x >= 0 /\ x < Word => x % Word = x
      /\ x < 0 /\ x + Word >= 0 => x % Word = x + Word
  BY <1>1, Modulo
<1>4. Remaining = x % Word
  BY <1>2 DEF Remaining
<1>5. CASE rd_off <= wr_off
  <2>1. x >= 0 /\ x < Word
    BY <1>1, <1>2, <1>5
  <2> QED BY <1>1, <1>2, <1>3, <1>4, <1>5, <2>1
<1>6. CASE rd_off > wr_off
  <2>1. x < 0 /\ x + Word > BufSize
    BY <1>1, <1>2, <1>6
  <2> QED BY <1>1, <1>2, <1>3, <1>4, <1>6, <2>1
<1> QED BY <1>1, <1>5, <1>6

-----------------------------------------------------------------------------
\* The cells of an init packet stand together, all of them.
InitsWhole(s) ==
    \A p \in 1 .. Len(s) : s[p].dev # None =>
        /\ s[p].i \in 1 .. AgentHead
        /\ p - s[p].i >= 0 /\ p - s[p].i + AgentHead <= Len(s)
        /\ \A m \in 1 .. AgentHead :
              LET c == s[p - s[p].i + m]
              IN  c.msg = s[p].msg /\ c.i = m /\ c.dev = s[p].dev

\* The packets are numbered in the order sent, and each names one device or
\* none.
InTurn(s) ==
    \A p, q \in 1 .. Len(s) :
        /\ p < q => s[p].msg <= s[q].msg
        /\ s[p].msg = s[q].msg => s[p].dev = s[q].dev

SentInv == InitsWhole(sent) /\ InTurn(sent)

\* How many of the cells sent have left data_blob.
Done == taken - (IF rd_off <= wr_off THEN wr_off - rd_off ELSE 0)

\* data_blob holds the cells read that are not dealt with yet.
WindowInv == \A k \in rd_off .. wr_off - 1 : blob[k] = sent[taken - wr_off + k + 1]

Pieces(to) == {k \in DOMAIN out : out[k].to = to}

\* The device registered is that of the last init packet registered, or
\* payload was taken for one since.
LatestInv ==
    /\ dev = None => Pieces("register") = {}
    /\ dev # None =>
          \/ Misread(Len(out) + 1)
          \/ \E p \in 1 .. Done :
                /\ sent[p].dev = dev /\ sent[p].i = 1
                /\ \A k \in Pieces("register") :
                      \A c \in ToSet(out[k].cells) : c.msg <= sent[p].msg

\* The last init packet in s before packet m names d, or is one of w.
LatestInit(s, w, d, m) ==
    \E p \in 1 .. Len(s) :
        /\ s[p].dev # None /\ s[p].i = 1 /\ s[p].msg < m
        /\ s[p].dev = d \/ s[p] \in w
        /\ \A q \in 1 .. Len(s) :
              s[q].dev # None /\ s[q].msg < m => s[q].msg <= s[p].msg

AddressedInv ==
    \A k \in Pieces("device") : \A c \in ToSet(out[k].cells) :
        c.dev = None => Misread(k) \/ LatestInit(sent, Swallowed, out[k].dev, c.msg)

\* What has become of the cells read.
InStep ==
    /\ Done >= 0
    /\ WindowInv
    /\ Handled(out, sent, Done)
    /\ LatestInv
    /\ AddressedInv

\* rd_off passes wr_off at the magic, read with too few of the bytes that are
\* skipped.
OverrunInv ==
    /\ crashed => rd_off > wr_off
    /\ rd_off > wr_off =>
        /\ pc = "parse"
        /\ \E n \in CmdHead .. AgentHead - 1 :
              /\ n <= taken
              /\ sent[taken - n + 1].byte = "lo" /\ sent[taken - n + 2].byte = "hi"

IInv ==
    /\ TypeOK
    /\ SentInv
    /\ OverrunInv
    /\ InStep

-----------------------------------------------------------------------------
\* Types

LEMMA CellsIs ==
    ASSUME TypeOK, NEW lo \in Nat, NEW hi \in 0 .. BufSize
    PROVE  /\ Cells(lo, hi) \in Seq(Cell)
           /\ lo <= hi => Len(Cells(lo, hi)) = hi - lo
<1>1. BufSize \in Nat /\ hi \in Nat /\ hi <= BufSize
  BY SerClientAssumption
<1>2. CASE lo <= hi
  <2>1. hi - lo \in Nat
    BY <1>1, <1>2
  <2>2. \A k \in 1 .. hi - lo : blob[lo + k - 1] \in Cell
    <3> SUFFICES ASSUME NEW k \in 1 .. hi - lo PROVE blob[lo + k - 1] \in Cell
      OBVIOUS
    <3>1. lo + k - 1 \in 0 .. BufSize - 1
      BY <1>1, <1>2
    <3> QED BY <3>1 DEF TypeOK
  <2> QED BY <2>1, <2>2 DEF Cells
<1>3. CASE ~ (lo <= hi)
  <2>1. 1 .. hi - lo = 1 .. 0
    BY <1>1, <1>3
  <2>2. Cells(lo, hi) = [k \in 1 .. 0 |-> blob[lo + k - 1]]
    BY <2>1, Zenon DEF Cells
  <2>3. [k \in 1 .. 0 |-> blob[lo + k - 1]] \in Seq(Cell)
    OBVIOUS
  <2> QED BY <1>3, <2>2, <2>3
<1> QED BY <1>2, <1>3

\* Where the magic can stand
LEMMA MagicIs ==
    ASSUME TypeOK, AtMagic
    PROVE  /\ rd_off + CmdHead <= BufSize /\ rd_off \in 0 .. BufSize - 1
           /\ rd_off + 1 \in 0 .. BufSize - 1
  BY SerClientAssumption DEF TypeOK, AtMagic, InBlob

LEMMA PacketsIs ==
    ASSUME TypeOK
    PROVE  Packets \in 0 .. MaxPackets
<1>1. MaxPackets \in Nat
  BY SerClientAssumption
<1>2. CASE sent = <<>>
  BY <1>1, <1>2 DEF Packets
<1>3. CASE sent # <<>>
  <2>1. sent[Len(sent)] \in Cell
    BY <1>3 DEF TypeOK
  <2>2. sent[Len(sent)].msg \in 0 .. MaxPackets
    BY <2>1 DEF Cell
  <2> QED BY <1>3, <2>2 DEF Packets
<1> QED BY <1>2, <1>3

LEMMA PacketIs ==
    ASSUME TypeOK, Packets < MaxPackets, NEW d \in Devs, NEW len \in Nat, NEW at
    PROVE  /\ Packet(d, len, at) \in Seq(Cell) /\ Len(Packet(d, len, at)) = len
           /\ \A k \in 1 .. len : /\ Packet(d, len, at)[k].msg = Packets + 1
                                  /\ Packet(d, len, at)[k].i = k
                                  /\ Packet(d, len, at)[k].dev = d
<1>1. Packets + 1 \in 0 .. MaxPackets
  BY PacketsIs, SerClientAssumption
<1> DEFINE starts == at \cup (IF d = None THEN {} ELSE {1})
           b(k) == IF k \in starts THEN "lo" ELSE IF k - 1 \in starts THEN "hi" ELSE "other"
           c(k) == [msg |-> Packets + 1, i |-> k, dev |-> d, byte |-> b(k)]
<1>2. \A k : b(k) \in {"lo", "hi", "other"}
  OBVIOUS
<1>3. Packet(d, len, at) = [k \in 1 .. len |-> c(k)]
  BY Zenon DEF Packet
<1> HIDE DEF b
<1>4. \A k \in 1 .. len : c(k) \in Cell
  BY <1>1, <1>2 DEF Cell, Devs
<1>5. \A k \in 1 .. len : c(k).msg = Packets + 1 /\ c(k).i = k /\ c(k).dev = d
  OBVIOUS
<1> HIDE DEF c
<1> QED BY <1>3, <1>4, <1>5

\* A client sends packets of one cell or more.
LEMMA LengthIs ==
    /\ AgentHead \in Nat /\ AgentHead >= 1 /\ CmdHead \in Nat /\ CmdHead >= 1 /\ CmdHead < AgentHead
    /\ \A len \in CmdLens : len \in Nat /\ len >= 1
  BY SerClientAssumption

LEMMA TypeInit ==
    ASSUME Init
    PROVE  TypeOK
<1>1. Zero \in Cell
  BY SerClientAssumption DEF Zero, Cell
<1>2. BufSize \in Nat /\ AgentHead \in Nat
  BY SerClientAssumption
<1>3. blob \in [0 .. BufSize - 1 -> Cell]
  BY <1>1 DEF Init
<1>4. sent \in Seq(Cell) /\ Len(sent) = 0 /\ arrived = 0 /\ taken = 0
  BY DEF Init
<1>5. out \in Seq([to : {"register", "drop", "device"}, dev : Devices \cup {None},
                   cells : Seq(Cell)])
  BY DEF Init
<1>6. wr_off \in 0 .. BufSize /\ rd_off \in 0 .. BufSize + AgentHead
  BY <1>2 DEF Init
<1>7. dev \in Devices \cup {None} /\ pc \in {"idle", "parse"} /\ crashed \in BOOLEAN
  BY DEF Init
<1> QED BY <1>3, <1>4, <1>5, <1>6, <1>7 DEF TypeOK

LEMMA TypeSend ==
    ASSUME TypeOK, Packets < MaxPackets, NEW d \in Devs, NEW len \in Nat, NEW at,
           sent' = sent \o Packet(d, len, at),
           UNCHANGED <<arrived, taken, blob, wr_off, rd_off, dev, pc, crashed, out>>
    PROVE  TypeOK'
<1>1. Packet(d, len, at) \in Seq(Cell)
  BY PacketIs
<1>2. sent' \in Seq(Cell) /\ Len(sent') >= Len(sent)
  BY <1>1 DEF TypeOK
<1>3. arrived' \in 0 .. Len(sent')
  BY <1>2 DEF TypeOK
<1> QED BY <1>2, <1>3 DEF TypeOK

LEMMA TypeRead ==
    ASSUME TypeOK, NEW n \in 1 .. Len(sent), Read(n)
    PROVE  TypeOK'
<1> DEFINE nread == Lower(BufSize - wr_off, arrived' - taken)
<1>1. /\ arrived' = arrived + n /\ arrived' \in 0 .. Len(sent) /\ arrived' - taken \in Nat
      /\ BufSize - wr_off \in Nat /\ wr_off \in 0 .. BufSize /\ BufSize \in Nat
      /\ taken \in Nat /\ Len(sent) \in Nat /\ sent' = sent
  BY SerClientAssumption DEF TypeOK, Read, stream
<1>2. /\ nread \in Nat /\ wr_off + nread <= BufSize /\ taken + nread <= arrived'
  BY <1>1 DEF Lower
<1>3. /\ wr_off' = wr_off + nread /\ taken' = taken + nread
      /\ blob' = [k \in 0 .. BufSize - 1 |->
                     IF k \in wr_off .. wr_off + nread - 1
                     THEN sent[taken + 1 + k - wr_off] ELSE blob[k]]
      /\ pc' = "parse" /\ UNCHANGED <<rd_off, dev, crashed, out>>
  BY DEF Read
<1> HIDE DEF nread
<1>4. blob' \in [0 .. BufSize - 1 -> Cell]
  <2> SUFFICES ASSUME NEW k \in 0 .. BufSize - 1
               PROVE  (IF k \in wr_off .. wr_off + nread - 1
                       THEN sent[taken + 1 + k - wr_off] ELSE blob[k]) \in Cell
    BY <1>3
  <2>1. CASE k \in wr_off .. wr_off + nread - 1
    <3>1. taken + 1 + k - wr_off \in 1 .. Len(sent)
      BY <1>1, <1>2, <2>1
    <3>2. sent[taken + 1 + k - wr_off] \in Cell
      BY <3>1 DEF TypeOK
    <3> QED BY <2>1, <3>2
  <2>2. CASE k \notin wr_off .. wr_off + nread - 1
    BY <2>2 DEF TypeOK
  <2> QED BY <2>1, <2>2
<1>5. wr_off' \in 0 .. BufSize /\ taken' \in 0 .. arrived' /\ arrived' \in 0 .. Len(sent')
  BY <1>1, <1>2, <1>3
<1> QED BY <1>1, <1>3, <1>4, <1>5 DEF TypeOK

LEMMA TypeParse ==
    ASSUME TypeOK, Parse
    PROVE  TypeOK'
<1>1. /\ wr_off \in 0 .. BufSize /\ rd_off \in 0 .. BufSize + AgentHead /\ BufSize \in Nat
      /\ AgentHead \in Nat /\ rd_off \in Nat /\ wr_off \in Nat
  BY SerClientAssumption DEF TypeOK
<1>2. CASE ParseInit
  <2>0. PICK d \in Devices :
           /\ dev' = d
           /\ out' = Append(out, [to |-> "register", dev |-> d, cells |-> Header])
    BY <1>2 DEF ParseInit, Named
  <2>1. rd_off \in 0 .. BufSize - 1
    BY <1>2, MagicIs DEF ParseInit
  <2>2. Lower(rd_off + AgentHead, wr_off) \in 0 .. BufSize
    BY <1>1 DEF Lower
  <2>3. Header \in Seq(Cell)
    BY <1>1, <2>2, CellsIs DEF Header
  <2>4. out' \in Seq([to : {"register", "drop", "device"}, dev : Devices \cup {None},
                      cells : Seq(Cell)])
    BY <2>0, <2>3 DEF TypeOK
  <2>5. rd_off' \in 0 .. BufSize + AgentHead /\ dev' \in Devices \cup {None}
    BY <1>1, <1>2, <2>0, <2>1 DEF ParseInit
  <2> QED BY <1>2, <2>4, <2>5 DEF ParseInit, TypeOK, stream
<1>3. Rest \in Seq(Cell) /\ dev \in Devices \cup {None}
  BY <1>1, CellsIs DEF Rest, TypeOK
<1>4. 0 \in 0 .. BufSize /\ 0 \in 0 .. BufSize + AgentHead
  BY <1>1
<1>5. CASE ParseRefuse
  BY <1>3, <1>4, <1>5 DEF ParseRefuse, TypeOK, stream
<1>6. CASE ParseForward
  BY <1>3, <1>4, <1>6 DEF ParseForward, TypeOK, stream
<1>7. CASE ParseOverrun
  BY <1>7 DEF ParseOverrun, TypeOK, stream
<1>8. CASE ParseEnd
  BY <1>8 DEF ParseEnd, TypeOK, stream
<1> QED BY <1>2, <1>5, <1>6, <1>7, <1>8 DEF Parse

-----------------------------------------------------------------------------
\* What the client guarantees, and what a packet more leaves as it was

LEMMA SentIs ==
    ASSUME TypeOK, NEW p \in 1 .. Len(sent)
    PROVE  sent[p] \in Cell /\ sent[p].msg \in 0 .. MaxPackets /\ sent[p].i \in Nat
<1>1. sent[p] \in Cell
  BY DEF TypeOK
<1> QED BY <1>1 DEF Cell

LEMMA LastPacket ==
    ASSUME TypeOK, SentInv
    PROVE  \A p \in 1 .. Len(sent) : sent[p].msg <= Packets
<1> SUFFICES ASSUME NEW p \in 1 .. Len(sent) PROVE sent[p].msg <= Packets
  OBVIOUS
<1>1. Len(sent) \in Nat /\ Len(sent) \in 1 .. Len(sent) /\ sent # <<>> /\ p <= Len(sent)
  BY DEF TypeOK
<1>2. Packets = sent[Len(sent)].msg /\ Packets \in Nat /\ sent[p].msg \in Nat
  BY <1>1, PacketsIs, SentIs, SerClientAssumption DEF Packets
<1>3. p < Len(sent) => sent[p].msg <= sent[Len(sent)].msg
  BY <1>1 DEF SentInv, InTurn
<1>4. p = Len(sent) => sent[p].msg = Packets
  BY <1>2
<1> QED BY <1>1, <1>2, <1>3, <1>4

\* One packet behind the others
LEMMA SentMore ==
    ASSUME TypeOK, SentInv, Packets < MaxPackets, NEW d \in Devs, NEW len \in Nat, NEW at,
           d # None => len = AgentHead,
           sent' = sent \o Packet(d, len, at)
    PROVE  /\ sent' \in Seq(Cell) /\ Len(sent') = Len(sent) + len /\ SentInv'
           /\ \A p \in 1 .. Len(sent) : sent'[p] = sent[p]
           /\ \A p \in Len(sent) + 1 .. Len(sent') : sent'[p].msg > Packets
<1> DEFINE L == Len(sent)
           P == Packet(d, len, at)
<1>1. /\ P \in Seq(Cell) /\ Len(P) = len
      /\ \A k \in 1 .. len : P[k].msg = Packets + 1 /\ P[k].i = k /\ P[k].dev = d
  BY PacketIs
<1>2. sent \in Seq(Cell) /\ L \in Nat /\ Packets \in Nat /\ AgentHead \in Nat
  BY PacketsIs, SerClientAssumption DEF TypeOK
<1> HIDE DEF P
<1>3. /\ sent' \in Seq(Cell) /\ Len(sent') = L + len
      /\ \A p \in 1 .. L : sent'[p] = sent[p]
      /\ \A k \in 1 .. len : sent'[L + k] = P[k]
  <2>1. sent' = sent \o P
    BY DEF P
  <2>2. /\ sent \o P \in Seq(Cell) /\ Len(sent \o P) = L + Len(P)
        /\ \A p \in 1 .. L : (sent \o P)[p] = sent[p]
        /\ \A k \in 1 .. Len(P) : (sent \o P)[L + k] = P[k]
    <3>1. PICK f \in Seq(Cell) : f = sent
      BY <1>2
    <3>2. PICK g \in Seq(Cell) : g = P
      BY <1>1
    <3>3. /\ f \o g \in Seq(Cell) /\ Len(f \o g) = Len(f) + Len(g)
          /\ \A p \in 1 .. Len(f) : (f \o g)[p] = f[p]
          /\ \A k \in 1 .. Len(g) : (f \o g)[Len(f) + k] = g[k]
      BY Joined
    <3> QED BY <3>1, <3>2, <3>3
  <2> QED BY <1>1, <2>1, <2>2
<1> HIDE DEF L
<1> DEFINE t == sent'
<1>4. /\ t \in Seq(Cell) /\ Len(t) = L + len
      /\ \A p \in 1 .. L : t[p] = sent[p]
      /\ \A k \in 1 .. len : t[L + k] = P[k]
  BY <1>3
<1> HIDE DEF t
\* a cell of t is an old one or one of the new packet
<1>5. \A p \in 1 .. Len(t) : \/ p \in 1 .. L
                             \/ p - L \in 1 .. len /\ L + (p - L) = p
  BY <1>2, <1>4
<1>6. ASSUME NEW p \in 1 .. Len(t), p - L \in 1 .. len, L + (p - L) = p
      PROVE  t[p].msg = Packets + 1 /\ t[p].i = p - L /\ t[p].dev = d
  <2>1. t[L + (p - L)] = P[p - L]
    BY <1>4, <1>6
  <2> QED BY <1>1, <1>6, <2>1
<1>7. ASSUME NEW p \in 1 .. L
      PROVE  t[p] = sent[p] /\ t[p].msg \in Nat /\ t[p].msg <= Packets
  <2>1. t[p] = sent[p]
    BY <1>4
  <2>2. sent[p].msg \in 0 .. MaxPackets /\ sent[p].msg <= Packets
    BY SentIs, LastPacket DEF L
  <2> QED BY <2>1, <2>2
<1>8. InTurn(t)
  <2> SUFFICES ASSUME NEW p \in 1 .. Len(t), NEW q \in 1 .. Len(t)
               PROVE  /\ p < q => t[p].msg <= t[q].msg
                      /\ t[p].msg = t[q].msg => t[p].dev = t[q].dev
    BY DEF InTurn
  <2>1. CASE p \in 1 .. L /\ q \in 1 .. L
    <3>1. /\ p < q => sent[p].msg <= sent[q].msg
          /\ sent[p].msg = sent[q].msg => sent[p].dev = sent[q].dev
      BY <2>1 DEF SentInv, InTurn, L
    <3> QED BY <1>7, <2>1, <3>1
  <2>2. CASE p \in 1 .. L /\ q - L \in 1 .. len /\ L + (q - L) = q
    BY <1>2, <1>6, <1>7, <2>2
  <2>3. CASE p - L \in 1 .. len /\ L + (p - L) = p /\ q \in 1 .. L
    <3>1. ~ (p < q)
      BY <1>2, <2>3
    <3>2. t[p].msg = Packets + 1 /\ t[q].msg \in Nat /\ t[q].msg <= Packets
      BY <1>6, <1>7, <2>3
    <3> QED BY <1>2, <3>1, <3>2
  <2>4. CASE /\ p - L \in 1 .. len /\ L + (p - L) = p
             /\ q - L \in 1 .. len /\ L + (q - L) = q
    <3>1. t[p].msg = Packets + 1 /\ t[q].msg = Packets + 1 /\ t[p].dev = d /\ t[q].dev = d
      BY <1>6, <2>4
    <3> QED BY <1>2, <3>1
  <2> QED BY <1>5, <2>1, <2>2, <2>3, <2>4
<1>9. InitsWhole(t)
  <2> SUFFICES ASSUME NEW p \in 1 .. Len(t), t[p].dev # None
               PROVE  /\ t[p].i \in 1 .. AgentHead
                      /\ p - t[p].i >= 0 /\ p - t[p].i + AgentHead <= Len(t)
                      /\ \A m \in 1 .. AgentHead :
                            LET c == t[p - t[p].i + m]
                            IN  c.msg = t[p].msg /\ c.i = m /\ c.dev = t[p].dev
    BY Zenon DEF InitsWhole
  <2>1. CASE p \in 1 .. L
    <3>1. t[p] = sent[p] /\ sent[p].dev # None
      BY <1>7, <2>1
    <3>2. /\ sent[p].i \in 1 .. AgentHead
          /\ p - sent[p].i >= 0 /\ p - sent[p].i + AgentHead <= L
          /\ \A m \in 1 .. AgentHead :
                LET c == sent[p - sent[p].i + m]
                IN  c.msg = sent[p].msg /\ c.i = m /\ c.dev = sent[p].dev
      BY <2>1, <3>1, Zenon DEF SentInv, InitsWhole, L
    <3>3. \A m \in 1 .. AgentHead : t[p - sent[p].i + m] = sent[p - sent[p].i + m]
      <4> SUFFICES ASSUME NEW m \in 1 .. AgentHead
                   PROVE  t[p - sent[p].i + m] = sent[p - sent[p].i + m]
        OBVIOUS
      <4>1. PICK i \in 1 .. AgentHead : i = sent[p].i
        BY <3>2
      <4>2. p - i >= 0 /\ p - i + AgentHead <= L
        BY <3>2, <4>1
      <4>3. p - i + m \in 1 .. L
        BY <1>2, <2>1, <4>2
      <4> QED BY <1>7, <4>1, <4>3
    <3>4. p - sent[p].i + AgentHead <= Len(t)
      BY <1>2, <1>4, <2>1, <3>2
    <3> QED BY <3>1, <3>2, <3>3, <3>4, ZenonT(40)
  <2>2. CASE p - L \in 1 .. len /\ L + (p - L) = p
    <3>1. t[p].msg = Packets + 1 /\ t[p].i = p - L /\ t[p].dev = d /\ len = AgentHead
      BY <1>6, <2>2
    <3>2. p - t[p].i = L
      BY <1>2, <3>1
    <3>3. ASSUME NEW m \in 1 .. AgentHead
          PROVE  t[L + m].msg = Packets + 1 /\ t[L + m].i = m /\ t[L + m].dev = d
      BY <1>1, <1>4, <3>1
    <3>4. t[p].i \in 1 .. AgentHead /\ L >= 0 /\ L + AgentHead <= Len(t)
      BY <1>2, <1>4, <2>2, <3>1
    <3> QED BY <3>1, <3>2, <3>3, <3>4
  <2> QED BY <1>5, <2>1, <2>2
<1>10. \A p \in L + 1 .. Len(t) : t[p].msg > Packets
  <2> SUFFICES ASSUME NEW p \in L + 1 .. Len(t) PROVE t[p].msg > Packets
    OBVIOUS
  <2>1. p \in 1 .. Len(t) /\ p - L \in 1 .. len /\ L + (p - L) = p
    BY <1>2, <1>4
  <2>2. t[p].msg = Packets + 1
    BY <1>6, <2>1
  <2> QED BY <1>2, <2>2
<1> QED BY <1>3, <1>8, <1>9, <1>10 DEF SentInv, t, L

-----------------------------------------------------------------------------
\* A client that sends

LEMMA DoneIs ==
    ASSUME TypeOK, Done >= 0
    PROVE  /\ Done \in 0 .. taken /\ taken \in 0 .. Len(sent) /\ Done \in 0 .. Len(sent)
           /\ taken = Done + (IF rd_off <= wr_off THEN wr_off - rd_off ELSE 0)
           /\ \A k \in rd_off .. wr_off - 1 :
                 /\ taken - wr_off + k + 1 \in 1 .. taken
                 /\ taken - wr_off + k + 1 = Done + (k - rd_off + 1)
<1>1. /\ taken \in Nat /\ arrived \in Nat /\ Len(sent) \in Nat /\ taken <= arrived
      /\ arrived <= Len(sent) /\ wr_off \in Nat /\ rd_off \in Nat
  BY SerClientAssumption DEF TypeOK
<1>2. Done = taken - (IF rd_off <= wr_off THEN wr_off - rd_off ELSE 0)
  BY DEF Done
<1> QED BY <1>1, <1>2

\* A packet sent later is not before one that was sent.
LEMMA LatestStays ==
    ASSUME NEW s \in Seq(Cell), NEW t \in Seq(Cell), NEW w, NEW d, NEW m, NEW b \in Nat,
           Len(s) <= Len(t), m \in Nat, m <= b,
           \A p \in 1 .. Len(s) : t[p] = s[p],
           \A p \in Len(s) + 1 .. Len(t) : t[p].msg \in Nat /\ t[p].msg > b,
           LatestInit(s, w, d, m)
    PROVE  LatestInit(t, w, d, m)
<1>1. Len(s) \in Nat /\ Len(t) \in Nat
  OBVIOUS
<1>2. PICK p \in 1 .. Len(s) :
        /\ s[p].dev # None /\ s[p].i = 1 /\ s[p].msg < m
        /\ s[p].dev = d \/ s[p] \in w
        /\ \A q \in 1 .. Len(s) :
              s[q].dev # None /\ s[q].msg < m => s[q].msg <= s[p].msg
  BY Zenon DEF LatestInit
<1>3. p \in 1 .. Len(t) /\ t[p] = s[p]
  BY <1>1
<1>4. ASSUME NEW q \in 1 .. Len(t), t[q].dev # None, t[q].msg < m
      PROVE  t[q].msg <= t[p].msg
  <2>1. CASE q \in 1 .. Len(s)
    BY <1>2, <1>3, <1>4, <2>1
  <2>2. CASE q \in Len(s) + 1 .. Len(t)
    <3>1. t[q].msg \in Nat /\ t[q].msg > b
      BY <2>2
    <3> QED BY <1>4, <3>1
  <2>3. q \in 1 .. Len(s) \/ q \in Len(s) + 1 .. Len(t)
    BY <1>1
  <2> QED BY <2>1, <2>2, <2>3
<1> QED BY <1>2, <1>3, <1>4 DEF LatestInit

LEMMA InvSend ==
    ASSUME IInv, Packets < MaxPackets, NEW d \in Devs, NEW len \in Nat, NEW at,
           d # None => len = AgentHead,
           sent' = sent \o Packet(d, len, at),
           UNCHANGED <<arrived, taken, blob, wr_off, rd_off, dev, pc, crashed, out>>
    PROVE  IInv'
<1>1. TypeOK /\ SentInv /\ OverrunInv
  BY DEF IInv
<1>2. TypeOK'
  BY <1>1, TypeSend
<1>3. /\ sent' \in Seq(Cell) /\ Len(sent') = Len(sent) + len /\ SentInv'
      /\ \A p \in 1 .. Len(sent) : sent'[p] = sent[p]
      /\ \A p \in Len(sent) + 1 .. Len(sent') : sent'[p].msg > Packets
  BY <1>1, SentMore
<1>4. /\ sent \in Seq(Cell) /\ Len(sent) \in Nat /\ taken \in 0 .. Len(sent)
      /\ Packets \in Nat /\ Len(sent') >= Len(sent)
  BY <1>1, <1>3, PacketsIs, SerClientAssumption DEF TypeOK
<1>5. OverrunInv'
  <2>1. CmdHead \in Nat /\ CmdHead >= 2
    BY SerClientAssumption
  <2>2. ASSUME NEW n \in CmdHead .. AgentHead - 1, n <= taken
        PROVE  sent'[taken - n + 1] = sent[taken - n + 1] /\ sent'[taken - n + 2] = sent[taken - n + 2]
    <3>1. taken - n + 1 \in 1 .. Len(sent) /\ taken - n + 2 \in 1 .. Len(sent)
      BY <1>4, <2>1, <2>2
    <3> QED BY <1>3, <3>1
  <2> QED BY <1>1, <2>2 DEF OverrunInv
<1>6. InStep
  BY DEF IInv
<1>7. /\ Done \in 0 .. taken /\ Done \in 0 .. Len(sent)
      /\ \A k \in rd_off .. wr_off - 1 : taken - wr_off + k + 1 \in 1 .. taken
  BY <1>1, <1>6, DoneIs DEF InStep
<1>8. Done' = Done /\ Pieces("register")' = Pieces("register")
      /\ Pieces("device")' = Pieces("device") /\ Swallowed' = Swallowed
  BY DEF Done, Pieces, Swallowed
<1>9. \A k : Misread(k)' = Misread(k)
  BY DEF Misread
<1>10. WindowInv'
  <2> SUFFICES ASSUME NEW k \in rd_off .. wr_off - 1
               PROVE  blob[k] = sent'[taken - wr_off + k + 1]
    BY DEF WindowInv
  <2>1. blob[k] = sent[taken - wr_off + k + 1]
    BY <1>6 DEF InStep, WindowInv
  <2>2. taken - wr_off + k + 1 \in 1 .. Len(sent)
    BY <1>4, <1>7
  <2> QED BY <1>3, <2>1, <2>2
<1>11. Handled(out, sent', Done)
  <2>1. Done <= Len(sent') /\ \A p \in 1 .. Done : sent'[p] = sent[p]
    BY <1>3, <1>4, <1>7
  <2>2. Handled(out, sent, Done)
    BY <1>6 DEF InStep
  <2> QED BY <1>3, <1>4, <1>7, <2>1, <2>2, HandledSame
<1>12. LatestInv'
  <2>1. CASE dev = None
    BY <1>6, <1>8, <2>1 DEF InStep, LatestInv
  <2>2. CASE dev # None /\ Misread(Len(out) + 1)
    BY <1>9, <2>2 DEF LatestInv
  <2>3. CASE dev # None /\ ~ Misread(Len(out) + 1)
    <3>1. PICK p \in 1 .. Done :
            /\ sent[p].dev = dev /\ sent[p].i = 1
            /\ \A k \in Pieces("register") :
                  \A c \in ToSet(out[k].cells) : c.msg <= sent[p].msg
      BY <1>6, <2>3, Zenon DEF InStep, LatestInv
    <3>2. sent'[p] = sent[p]
      BY <1>3, <1>7
    <3> QED BY <1>8, <2>3, <3>1, <3>2 DEF LatestInv
  <2> QED BY <2>1, <2>2, <2>3
<1>13. AddressedInv'
  <2> SUFFICES ASSUME NEW k \in Pieces("device"), NEW c \in ToSet(out[k].cells), c.dev = None
               PROVE  Misread(k) \/ LatestInit(sent', Swallowed, out[k].dev, c.msg)
    BY <1>8, <1>9 DEF AddressedInv
  <2>1. Misread(k) \/ LatestInit(sent, Swallowed, out[k].dev, c.msg)
    BY <1>6 DEF InStep, AddressedInv
  <2>2. c.msg \in Nat /\ c.msg <= Packets
    <3>1. PICK p \in 1 .. Done : c = sent[p]
      <4>1. k \in DOMAIN out
        BY DEF Pieces
      <4> QED BY <1>6, <4>1, Zenon DEF InStep, Handled
    <3>2. p \in 1 .. Len(sent)
      BY <1>7
    <3> QED BY <1>1, <3>1, <3>2, SentIs, LastPacket
  <2>3. ASSUME NEW p \in Len(sent) + 1 .. Len(sent')
        PROVE  sent'[p].msg \in Nat /\ sent'[p].msg > Packets
    <3>1. p \in 1 .. Len(sent')
      BY <1>4
    <3>2. sent'[p] \in Cell
      BY <1>3, <3>1
    <3> QED BY <1>3, <3>2 DEF Cell
  <2>4. LatestInit(sent, Swallowed, out[k].dev, c.msg)
           => LatestInit(sent', Swallowed, out[k].dev, c.msg)
    BY <1>3, <1>4, <2>2, <2>3, LatestStays
  <2> QED BY <2>1, <2>4
<1> QED BY <1>2, <1>3, <1>5, <1>6, <1>8, <1>10, <1>11, <1>12, <1>13 DEF IInv, InStep

-----------------------------------------------------------------------------
\* A read, and the end of the loop

\* InStep only looks at these.
LEMMA InStepSame ==
    ASSUME InStep, UNCHANGED <<sent, taken, blob, wr_off, rd_off, dev, out>>
    PROVE  InStep'
<1>1. Done' = Done /\ Pieces("register")' = Pieces("register")
      /\ Pieces("device")' = Pieces("device") /\ Swallowed' = Swallowed
  BY DEF Done, Pieces, Swallowed
<1>2. \A k : Misread(k)' = Misread(k)
  BY DEF Misread
<1>3. WindowInv'
  BY DEF InStep, WindowInv
<1>4. LatestInv'
  BY <1>1, <1>2 DEF InStep, LatestInv
<1>5. AddressedInv'
  BY <1>1, <1>2 DEF InStep, AddressedInv
<1>6. Handled(out, sent, Done)' /\ Done' >= 0
  BY <1>1 DEF InStep
<1> QED BY <1>3, <1>4, <1>5, <1>6 DEF InStep

LEMMA InvSame ==
    ASSUME IInv, UNCHANGED <<sent, taken, blob, wr_off, rd_off, dev, crashed, out>>,
           TypeOK', rd_off > wr_off => pc' = "parse"
    PROVE  IInv'
<1>1. SentInv' /\ OverrunInv'
  BY DEF IInv, SentInv, OverrunInv
<1> QED BY <1>1, InStepSame DEF IInv

LEMMA InvRead ==
    ASSUME IInv, NEW n \in 1 .. Len(sent), Read(n)
    PROVE  IInv'
<1>1. TypeOK /\ SentInv /\ OverrunInv
  BY DEF IInv
<1>2. TypeOK'
  BY <1>1, TypeRead
<1> DEFINE nread == Lower(BufSize - wr_off, arrived' - taken)
<1>3. /\ wr_off \in 0 .. BufSize /\ BufSize \in Nat /\ rd_off \in Nat /\ wr_off \in Nat
      /\ taken \in Nat /\ arrived' - taken \in Nat /\ BufSize - wr_off \in Nat
  BY <1>1, SerClientAssumption DEF TypeOK, Read
<1>4. nread \in Nat /\ wr_off + nread <= BufSize
  BY <1>3 DEF Lower
<1>5. /\ wr_off' = wr_off + nread /\ taken' = taken + nread
      /\ blob' = [k \in 0 .. BufSize - 1 |->
                     IF k \in wr_off .. wr_off + nread - 1
                     THEN sent[taken + 1 + k - wr_off] ELSE blob[k]]
      /\ UNCHANGED <<sent, rd_off, dev, crashed, out>> /\ pc = "idle" /\ ~ crashed
  BY DEF Read
<1> HIDE DEF nread
<1>6. rd_off <= wr_off /\ rd_off' <= wr_off'
  BY <1>1, <1>3, <1>4, <1>5 DEF OverrunInv
<1>7. InStep
  BY DEF IInv
<1>8. Done' = Done /\ Pieces("register")' = Pieces("register")
      /\ Pieces("device")' = Pieces("device") /\ Swallowed' = Swallowed
      /\ \A k : Misread(k)' = Misread(k)
  <2>1. Done' = Done
    BY <1>3, <1>4, <1>5, <1>6 DEF Done
  <2> QED BY <1>5, <2>1 DEF Pieces, Swallowed, Misread
<1>9. WindowInv'
  <2> SUFFICES ASSUME NEW k \in rd_off .. wr_off' - 1
               PROVE  blob'[k] = sent[taken' - wr_off' + k + 1]
    BY <1>5 DEF WindowInv
  <2>1. k \in 0 .. BufSize - 1 /\ taken' - wr_off' + k + 1 = taken - wr_off + k + 1
        /\ taken - wr_off + k + 1 = taken + 1 + k - wr_off
    BY <1>3, <1>4, <1>5
  <2>2. CASE k \in wr_off .. wr_off + nread - 1
    <3>1. blob'[k] = sent[taken + 1 + k - wr_off]
      BY <1>5, <2>1, <2>2
    <3> QED BY <2>1, <3>1
  <2>3. CASE k \notin wr_off .. wr_off + nread - 1
    <3>1. blob'[k] = blob[k]
      BY <1>5, <2>1, <2>3
    <3>2. k \in rd_off .. wr_off - 1
      BY <1>3, <1>4, <1>5, <2>3
    <3>3. blob[k] = sent[taken - wr_off + k + 1]
      BY <1>7, <3>2 DEF InStep, WindowInv
    <3> QED BY <2>1, <3>1, <3>3
  <2> QED BY <2>2, <2>3
<1>10. Handled(out, sent, Done)' /\ Done' >= 0
  BY <1>5, <1>7, <1>8 DEF InStep
<1>11. LatestInv' /\ AddressedInv'
  <2>1. LatestInv'
    BY <1>5, <1>7, <1>8 DEF InStep, LatestInv
  <2>2. AddressedInv'
    BY <1>5, <1>7, <1>8 DEF InStep, AddressedInv
  <2> QED BY <2>1, <2>2
<1>12. SentInv' /\ OverrunInv'
  <2>1. ~ (rd_off' > wr_off') /\ ~ crashed'
    BY <1>2, <1>5, <1>6, SerClientAssumption DEF TypeOK
  <2> QED BY <1>1, <1>5, <2>1 DEF SentInv, OverrunInv
<1> QED BY <1>2, <1>9, <1>10, <1>11, <1>12 DEF IInv, InStep

LEMMA InvEnd ==
    ASSUME IInv, ParseEnd
    PROVE  IInv'
<1>1. TypeOK
  BY DEF IInv
<1>2. /\ Remaining < CmdHead /\ pc' = "idle"
      /\ UNCHANGED <<sent, taken, blob, wr_off, rd_off, dev, crashed, out>>
  BY DEF ParseEnd, stream
<1>3. TypeOK'
  BY <1>1, TypeParse DEF Parse
<1>4. ~ (rd_off > wr_off)
  <2> SUFFICES ASSUME rd_off > wr_off PROVE FALSE
    OBVIOUS
  <2>1. Remaining > BufSize
    BY <1>1, RemainingIs
  <2>2. Remaining \in Int /\ BufSize \in Nat /\ CmdHead \in Nat /\ CmdHead <= BufSize
    <3>1. Word \in Nat /\ wr_off - rd_off \in Int /\ Word > 0
      BY <1>1, SerClientAssumption DEF TypeOK
    <3>2. Remaining \in Int
      BY <3>1 DEF Remaining
    <3> QED BY <3>2, SerClientAssumption
  <2> QED BY <1>2, <2>1, <2>2
<1> QED BY <1>2, <1>3, <1>4, InvSame

\* The loop only walks over data_blob when rd_off has passed wr_off.
LEMMA InvOverrun ==
    ASSUME IInv, ParseOverrun
    PROVE  IInv'
<1>1. TypeOK /\ SentInv /\ OverrunInv
  BY DEF IInv
<1>2. /\ More /\ (~ InBlob \/ (HasPort /\ Remaining > BufSize)) /\ crashed'
      /\ UNCHANGED <<sent, taken, blob, wr_off, rd_off, dev, pc, out>>
  BY DEF ParseOverrun, stream
<1>3. TypeOK'
  BY <1>1, TypeParse DEF Parse
<1>4. wr_off \in Nat /\ rd_off \in Nat /\ wr_off <= BufSize /\ BufSize \in Nat /\ CmdHead \in Nat
  BY <1>1, SerClientAssumption DEF TypeOK
<1>5. rd_off > wr_off
  <2> SUFFICES ASSUME rd_off <= wr_off PROVE FALSE
    BY <1>4
  <2>1. Remaining = wr_off - rd_off /\ Remaining >= CmdHead
    BY <1>1, <1>2, RemainingIs DEF More
  <2>2. rd_off + CmdHead <= BufSize /\ ~ (Remaining > BufSize)
    BY <1>4, <2>1
  <2> QED BY <1>2, <2>2 DEF InBlob
<1>6. SentInv' /\ OverrunInv'
  BY <1>1, <1>2, <1>4, <1>5 DEF SentInv, OverrunInv
<1> QED BY <1>2, <1>3, <1>6, InStepSame DEF IInv

-----------------------------------------------------------------------------
\* A piece more

LEMMA OutMore ==
    ASSUME TypeOK, NEW e \in Piece, out' = Append(out, e)
    PROVE  /\ out \in Seq(Piece)
           /\ Len(out) + 1 \in DOMAIN out' /\ out'[Len(out) + 1] = e
           /\ \A k \in DOMAIN out : k \in DOMAIN out' /\ out'[k] = out[k]
           /\ \A k \in DOMAIN out' : out'[k] = e \/ (k \in DOMAIN out /\ out'[k] = out[k])
<1>1. out \in Seq(Piece)
  BY DEF TypeOK, Piece, Devs
<1>2. PICK o \in Seq(Piece) : o = out
  BY <1>1
<1>3. PICK q : q = Append(o, e)
  OBVIOUS
<1>4. /\ DOMAIN q = 1 .. Len(o) + 1 /\ DOMAIN o = 1 .. Len(o) /\ Len(o) \in Nat
      /\ q[Len(o) + 1] = e /\ \A k \in 1 .. Len(o) : q[k] = o[k]
  BY <1>3
<1>5. \A k \in DOMAIN q : q[k] = e \/ (k \in DOMAIN o /\ q[k] = o[k])
  <2> SUFFICES ASSUME NEW k \in DOMAIN q PROVE q[k] = e \/ (k \in DOMAIN o /\ q[k] = o[k])
    OBVIOUS
  <2>1. k = Len(o) + 1 \/ k \in 1 .. Len(o)
    BY <1>4
  <2> QED BY <1>4, <2>1
<1>6. out' = q
  BY <1>2, <1>3
<1>7. \A k \in DOMAIN o : k \in DOMAIN q
  BY <1>4
<1> QED BY <1>1, <1>2, <1>4, <1>5, <1>6, <1>7

LEMMA SwallowedMore ==
    ASSUME TypeOK, NEW e \in Piece, out' = Append(out, e)
    PROVE  /\ Swallowed \subseteq Swallowed'
           /\ e.to # "register" => \A c \in ToSet(e.cells) : c.dev # None => c \in Swallowed'
<1>1. ASSUME NEW k \in DOMAIN out', out'[k].to # "register",
             NEW c \in ToSet(out'[k].cells), c.dev # None
      PROVE  c \in Swallowed'
  BY <1>1, Zenon DEF Swallowed
<1>2. ASSUME NEW c \in Swallowed PROVE c \in Swallowed'
  <2>1. PICK k \in DOMAIN out : out[k].to # "register" /\ c \in ToSet(out[k].cells)
    BY DEF Swallowed
  <2>2. c.dev # None
    BY DEF Swallowed
  <2>3. k \in DOMAIN out' /\ out'[k] = out[k]
    BY OutMore
  <2> QED BY <1>1, <2>1, <2>2, <2>3
<1>3. ASSUME e.to # "register", NEW c \in ToSet(e.cells), c.dev # None
      PROVE  c \in Swallowed'
  <2>1. Len(out) + 1 \in DOMAIN out' /\ out'[Len(out) + 1] = e
    BY OutMore
  <2> QED BY <1>1, <1>3, <2>1
<1> QED BY <1>2, <1>3

\* No cell is taken for another while a piece is added.
LEMMA MisreadMore ==
    ASSUME TypeOK, NEW e \in Piece, out' = Append(out, e)
    PROVE  /\ Len(out') = Len(out) + 1 /\ Len(out) \in Nat
           /\ \A k \in 1 .. Len(out) + 1 : Misread(k) => Misread(k)'
           /\ e.to # "register" /\ Misread(Len(out) + 1) => Misread(Len(out) + 1)'
           /\ /\ e.to = "register"
              /\ ~ (Len(e.cells) >= CmdHead /\ e.cells[1].dev # None /\ e.cells[1].i = 1)
              => Misread(Len(out) + 1)'
<1> DEFINE Bad(o, j) == /\ o[j].to = "register"
                        /\ ~ (/\ Len(o[j].cells) >= CmdHead
                              /\ o[j].cells[1].dev # None /\ o[j].cells[1].i = 1)
           n == Len(out)
<1>1. /\ Len(out') = n + 1 /\ n \in Nat /\ out'[n + 1] = e
      /\ \A k \in 1 .. n : out'[k] = out[k]
  <2>1. PICK o \in Seq(Piece) : o = out
    BY OutMore
  <2> QED BY <2>1
<1>2. /\ \A k : Misread(k) <=> \E j \in 1 .. k - 1 :
                 Bad(out, j) /\ \A l \in j + 1 .. k - 1 : out[l].to # "register"
      /\ \A k : Misread(k)' <=> \E j \in 1 .. k - 1 :
                 Bad(out', j) /\ \A l \in j + 1 .. k - 1 : out'[l].to # "register"
  BY DEF Misread
<1>3. /\ \A j \in 1 .. n : Bad(out, j) => Bad(out', j)
      /\ Bad(out', n + 1) <=>
            /\ e.to = "register"
            /\ ~ (Len(e.cells) >= CmdHead /\ e.cells[1].dev # None /\ e.cells[1].i = 1)
  BY <1>1
<1> HIDE DEF Bad, n
<1>4. ASSUME NEW k \in 1 .. n + 1, Misread(k) PROVE Misread(k)'
  <2>1. PICK j \in 1 .. k - 1 :
           Bad(out, j) /\ \A l \in j + 1 .. k - 1 : out[l].to # "register"
    BY <1>2, <1>4
  <2>2. j \in 1 .. n /\ \A l \in j + 1 .. k - 1 : l \in 1 .. n
    BY <1>1
  <2>3. Bad(out', j) /\ \A l \in j + 1 .. k - 1 : out'[l].to # "register"
    BY <1>1, <1>3, <2>1, <2>2
  <2> QED BY <1>2, <2>3
<1>5. ASSUME e.to # "register", Misread(n + 1) PROVE Misread(Len(out) + 1)'
  <2>1. PICK j \in 1 .. (n + 1) - 1 :
           Bad(out, j) /\ \A l \in j + 1 .. (n + 1) - 1 : out[l].to # "register"
    BY <1>2, <1>5
  <2>2. PICK k : k = Len(out') + 1
    OBVIOUS
  <2>3. j \in 1 .. n /\ j \in 1 .. k - 1
        /\ \A l \in j + 1 .. k - 1 : l = n + 1 \/ (l \in 1 .. n /\ l \in j + 1 .. (n + 1) - 1)
    BY <1>1, <2>2
  <2>4. \A l \in j + 1 .. k - 1 : out'[l].to # "register"
    BY <1>1, <1>5, <2>1, <2>3
  <2>5. Bad(out', j)
    BY <1>3, <2>1, <2>3
  <2>6. Misread(k)'
    BY <1>2, <2>3, <2>4, <2>5
  <2> QED BY <2>2, <2>6 DEF Misread
<1>6. ASSUME Bad(out', n + 1) PROVE Misread(Len(out) + 1)'
  <2>1. PICK k : k = Len(out') + 1
    OBVIOUS
  <2>2. n + 1 \in 1 .. k - 1 /\ \A l \in (n + 1) + 1 .. k - 1 : FALSE
    BY <1>1, <2>1
  <2>3. Misread(k)'
    BY <1>2, <1>6, <2>2
  <2> QED BY <2>1, <2>3 DEF Misread
<1> QED BY <1>1, <1>3, <1>4, <1>5, <1>6 DEF n

\* The device registered stays, and so does what was registered last.
LEMMA LatestKept ==
    ASSUME TypeOK, LatestInv, NEW e \in Piece, out' = Append(out, e), e.to # "register",
           Done \in Nat, Done' \in Nat, Done <= Done', sent' = sent, dev' = dev
    PROVE  LatestInv'
<1>1. ASSUME NEW k \in Pieces("register")' PROVE k \in Pieces("register") /\ out'[k] = out[k]
  <2>1. k \in DOMAIN out' /\ out'[k].to = "register"
    BY DEF Pieces
  <2>2. k \in DOMAIN out /\ out'[k] = out[k]
    BY <2>1, OutMore
  <2> QED BY <2>1, <2>2 DEF Pieces
<1>2. CASE dev = None
  <2>1. Pieces("register")' = {}
    BY <1>1, <1>2 DEF LatestInv
  <2> QED BY <1>2, <2>1 DEF LatestInv
<1>3. CASE dev # None /\ Misread(Len(out) + 1)
  <2>1. Misread(Len(out) + 1)'
    BY <1>3, MisreadMore
  <2> QED BY <1>3, <2>1 DEF LatestInv
<1>4. CASE dev # None /\ ~ Misread(Len(out) + 1)
  <2>1. PICK p0 \in 1 .. Done :
           /\ sent[p0].dev = dev /\ sent[p0].i = 1
           /\ \A k \in Pieces("register") :
                 \A c \in ToSet(out[k].cells) : c.msg <= sent[p0].msg
    BY <1>4, Zenon DEF LatestInv
  <2>2. p0 \in 1 .. Done'
    OBVIOUS
  <2>3. \A k \in Pieces("register")' :
           \A c \in ToSet(out'[k].cells) : c.msg <= sent'[p0].msg
    BY <1>1, <2>1
  <2> QED BY <1>4, <2>1, <2>2, <2>3 DEF LatestInv
<1> QED BY <1>2, <1>3, <1>4

\* The cells of data_blob from rd_off up to hi are the next ones sent, h of
\* them; there are none when rd_off has passed wr_off.
LEMMA HandledOut ==
    ASSUME TypeOK, InStep, NEW e \in Piece, out' = Append(out, e),
           NEW hi \in Nat, NEW h \in Nat, e.cells = Cells(rd_off, hi),
           \/ rd_off <= wr_off /\ hi \in rd_off .. wr_off /\ h = hi - rd_off
           \/ rd_off > wr_off /\ hi <= rd_off /\ h = 0
    PROVE  /\ Handled(out', sent, Done + h)
           /\ Done + h \in Done .. taken
           /\ \A c \in ToSet(e.cells) : \E p \in Done + 1 .. Done + h : c = sent[p]
           /\ \A p \in Done + 1 .. Done + h : sent[p] \in ToSet(e.cells)
           /\ Len(e.cells) = h /\ \A j \in 1 .. h : e.cells[j] = sent[Done + j]
<1>1. /\ Done \in 0 .. taken /\ taken \in 0 .. Len(sent) /\ Done \in 0 .. Len(sent)
      /\ taken = Done + (IF rd_off <= wr_off THEN wr_off - rd_off ELSE 0)
      /\ \A k \in rd_off .. wr_off - 1 : taken - wr_off + k + 1 = Done + (k - rd_off + 1)
  BY DoneIs DEF InStep
<1>2. /\ sent \in Seq(Cell) /\ rd_off \in Nat /\ wr_off \in Nat /\ Len(sent) \in Nat
      /\ taken \in Nat
  BY <1>1, SerClientAssumption DEF TypeOK
<1> DEFINE n == Done
           m == Done + h
<1>3. /\ m \in n .. Len(sent) /\ m - n = h /\ n \in 0 .. Len(sent) /\ m \in n .. taken
      /\ n \in Nat /\ m \in Nat /\ n \in Int
  BY <1>1, <1>2
<1>4. e.cells = [j \in 1 .. m - n |-> sent[n + j]]
  <2>1. ASSUME NEW j \in 1 .. h PROVE blob[rd_off + j - 1] = sent[n + j]
    <3>1. PICK k \in rd_off .. wr_off - 1 : k = rd_off + j - 1
      BY <1>2
    <3>2. blob[k] = sent[taken - wr_off + k + 1]
      BY DEF InStep, WindowInv
    <3>3. taken - wr_off + k + 1 = n + (k - rd_off + 1)
      BY <1>1
    <3>4. k - rd_off + 1 = j
      BY <1>2, <3>1
    <3> QED BY <3>1, <3>2, <3>3, <3>4
  <2>2. 1 .. hi - rd_off = 1 .. h
    BY <1>2
  <2>3. e.cells = [j \in 1 .. h |-> blob[rd_off + j - 1]]
    BY <2>2, Zenon DEF Cells
  <2> HIDE DEF m, n
  <2> QED BY <1>3, <2>1, <2>3
<1>5. Handled(out, sent, n) /\ out \in Seq(Piece)
  BY OutMore DEF InStep
<1> HIDE DEF n, m
<1>6. Handled(out', sent, m)
  BY <1>2, <1>3, <1>4, <1>5, HandledMore
<1>7. ToSet(e.cells) = {sent[n + j] : j \in 1 .. m - n}
  <2>1. DOMAIN e.cells = 1 .. m - n
    BY <1>4
  <2> QED BY <1>4, <2>1 DEF ToSet
<1>8. ASSUME NEW c \in ToSet(e.cells) PROVE \E p \in n + 1 .. m : c = sent[p]
  <2>1. PICK j \in 1 .. m - n : c = sent[n + j]
    BY <1>7
  <2>2. n + j \in n + 1 .. m
    BY <1>3
  <2> QED BY <2>1, <2>2
<1>9. ASSUME NEW p \in n + 1 .. m PROVE sent[p] \in ToSet(e.cells)
  <2>1. p - n \in 1 .. m - n /\ n + (p - n) = p
    BY <1>3
  <2> QED BY <1>7, <2>1
<1>10. Len(e.cells) = h /\ \A j \in 1 .. h : e.cells[j] = sent[n + j]
  BY <1>3, <1>4
<1> QED BY <1>3, <1>6, <1>8, <1>9, <1>10 DEF n, m

\* The pieces sent on before stay addressed; the new one has to be.
LEMMA AddressedMore ==
    ASSUME TypeOK, AddressedInv, NEW e \in Piece, out' = Append(out, e), sent' = sent,
           e.to = "device" => \A c \in ToSet(e.cells) :
              c.dev = None => \/ Misread(Len(out) + 1)
                              \/ LatestInit(sent, Swallowed', e.dev, c.msg)
    PROVE  AddressedInv'
<1> SUFFICES ASSUME NEW k \in Pieces("device")', NEW c \in ToSet(out'[k].cells), c.dev = None
             PROVE  Misread(k)' \/ LatestInit(sent, Swallowed', out'[k].dev, c.msg)
  BY DEF AddressedInv
<1>1. k \in DOMAIN out' /\ out'[k].to = "device" /\ out \in Seq(Piece)
  BY OutMore DEF Pieces
<1>2. \/ k = Len(out) + 1 /\ out'[k] = e
      \/ k \in 1 .. Len(out) /\ k \in DOMAIN out /\ out'[k] = out[k]
  <2>1. PICK o \in Seq(Piece) : o = out
    BY <1>1
  <2>2. PICK q : q = Append(o, e)
    OBVIOUS
  <2>3. /\ DOMAIN q = 1 .. Len(o) + 1 /\ DOMAIN o = 1 .. Len(o) /\ Len(o) \in Nat
        /\ q[Len(o) + 1] = e /\ \A j \in 1 .. Len(o) : q[j] = o[j]
    BY <2>2
  <2>4. q = out'
    BY <2>1, <2>2
  <2> QED BY <1>1, <2>1, <2>3, <2>4
<1>3. CASE k = Len(out) + 1 /\ out'[k] = e
  <2>1. k \in 1 .. Len(out) + 1 /\ (Misread(k) => Misread(k)')
    BY <1>3, MisreadMore
  <2> QED BY <1>1, <1>3, <2>1
<1>4. CASE k \in 1 .. Len(out) /\ k \in DOMAIN out /\ out'[k] = out[k]
  <2>1. k \in Pieces("device") /\ c \in ToSet(out[k].cells)
    BY <1>1, <1>4 DEF Pieces
  <2>2. Misread(k) \/ LatestInit(sent, Swallowed, out[k].dev, c.msg)
    BY <2>1 DEF AddressedInv
  <2>3. Misread(k) => Misread(k)'
    BY <1>1, <1>4, MisreadMore
  <2>4. LatestInit(sent, Swallowed, out[k].dev, c.msg)
           => LatestInit(sent, Swallowed', out[k].dev, c.msg)
    <3>1. Swallowed \subseteq Swallowed'
      BY SwallowedMore
    <3> HIDE DEF Swallowed
    <3> QED BY <3>1, Zenon DEF LatestInit
  <2> QED BY <1>4, <2>2, <2>3, <2>4
<1> QED BY <1>2, <1>3, <1>4

-----------------------------------------------------------------------------
\* The branches of the loop

\* The whole of data_blob goes: nothing waits, and nothing that was sent is
\* skipped.
LEMMA Emptied ==
    ASSUME TypeOK, InStep, NEW e \in Piece, out' = Append(out, e), e.cells = Rest,
           UNCHANGED <<sent, taken, blob>>, wr_off' = 0, rd_off' = 0
    PROVE  /\ Done' = taken /\ Done' >= 0 /\ WindowInv' /\ Handled(out, sent, Done)'
           /\ \A c \in ToSet(e.cells) : \E p \in Done + 1 .. taken : c = sent[p]
           /\ \A p \in Done + 1 .. taken : sent[p] \in ToSet(e.cells)
<1>1. taken \in Nat /\ wr_off \in Nat /\ rd_off \in Nat
  BY SerClientAssumption DEF TypeOK
<1>2. PICK h \in Nat : h = IF rd_off <= wr_off THEN wr_off - rd_off ELSE 0
  <2>1. (IF rd_off <= wr_off THEN wr_off - rd_off ELSE 0) \in Nat
    BY <1>1
  <2> QED BY <2>1
<1>3. taken = Done + h /\ e.cells = Cells(rd_off, wr_off)
  BY <1>2, DoneIs DEF InStep, Rest
<1>4. /\ Handled(out', sent, Done + h)
      /\ \A c \in ToSet(e.cells) : \E p \in Done + 1 .. Done + h : c = sent[p]
      /\ \A p \in Done + 1 .. Done + h : sent[p] \in ToSet(e.cells)
  <2>1. \/ rd_off <= wr_off /\ wr_off \in rd_off .. wr_off /\ h = wr_off - rd_off
        \/ rd_off > wr_off /\ wr_off <= rd_off /\ h = 0
    BY <1>1, <1>2
  <2> QED BY <1>1, <1>3, <2>1, HandledOut
<1>5. Done' = taken
  BY <1>1 DEF Done
<1>6. WindowInv'
  BY DEF WindowInv
<1> QED BY <1>1, <1>3, <1>4, <1>5, <1>6

\* serclt_recvdata without a port; the offsets are as at the start again, even
\* after an overrun.
LEMMA InvRefuse ==
    ASSUME IInv, ParseRefuse
    PROVE  IInv'
<1>1. TypeOK /\ SentInv /\ OverrunInv
  BY DEF IInv
<1>2. TypeOK'
  BY <1>1, TypeParse DEF Parse
<1> DEFINE e == [to |-> "drop", dev |-> None, cells |-> Rest]
<1>3. /\ out' = Append(out, e) /\ wr_off' = 0 /\ rd_off' = 0 /\ More
      /\ UNCHANGED <<sent, taken, blob, dev, crashed>>
  BY DEF ParseRefuse, stream
<1>4. rd_off \in Nat /\ wr_off \in 0 .. BufSize /\ wr_off \in Nat
  BY <1>1, SerClientAssumption DEF TypeOK
<1>5. InStep
  BY DEF IInv
<1>6. e \in Piece /\ e.to = "drop" /\ e.cells = Rest
  BY <1>1, <1>4, CellsIs DEF Rest, Piece, Devs
<1> HIDE DEF e
<1>7. Done' = taken /\ Done' >= 0 /\ WindowInv' /\ Handled(out, sent, Done)'
  BY <1>1, <1>3, <1>5, <1>6, Emptied
<1>8. AddressedInv'
  BY <1>1, <1>3, <1>5, <1>6, AddressedMore DEF InStep
<1>9. LatestInv'
  <2>1. Done \in 0 .. taken /\ taken \in Nat
    BY <1>1, <1>5, DoneIs DEF InStep, TypeOK
  <2>2. Done \in Nat /\ Done' \in Nat /\ Done <= Done'
    BY <1>7, <2>1
  <2> QED BY <1>1, <1>3, <1>5, <1>6, <2>2, LatestKept DEF InStep
<1>10. SentInv' /\ OverrunInv'
  BY <1>1, <1>3 DEF SentInv, OverrunInv, More
<1> QED BY <1>2, <1>7, <1>8, <1>9, <1>10 DEF IInv, InStep

\* Of the init packets before packet m one is the last.
LEMMA LatestExists ==
    ASSUME TypeOK, SentInv, NEW p0 \in 1 .. Len(sent), NEW m \in Nat,
           sent[p0].dev # None, sent[p0].msg < m
    PROVE  \E r \in 1 .. Len(sent) :
              /\ sent[r].dev # None /\ sent[r].i = 1 /\ sent[r].msg < m
              /\ \A q \in 1 .. Len(sent) :
                    sent[q].dev # None /\ sent[q].msg < m => sent[q].msg <= sent[r].msg
<1> DEFINE I == {q \in 1 .. Len(sent) : sent[q].dev # None /\ sent[q].msg < m}
           T == {m - sent[q].msg : q \in I}
<1>1. \A q \in I : sent[q].msg \in Nat /\ sent[q].msg < m /\ m - sent[q].msg \in Nat
  <2> SUFFICES ASSUME NEW q \in I
               PROVE  sent[q].msg \in Nat /\ sent[q].msg < m /\ m - sent[q].msg \in Nat
    OBVIOUS
  <2>1. sent[q].msg \in 0 .. MaxPackets
    BY SentIs
  <2> QED BY <2>1
<1>2. p0 \in I
  OBVIOUS
<1>3. PICK x \in T : \A y \in T : x <= y
  <2>1. T \subseteq Nat /\ T # {}
    BY <1>1, <1>2
  <2> HIDE DEF T
  <2> QED BY <2>1, Least
<1>4. PICK q0 \in I : x = m - sent[q0].msg
  BY <1>3
<1>5. \A q \in I : sent[q].msg <= sent[q0].msg
  <2> SUFFICES ASSUME NEW q \in I PROVE sent[q].msg <= sent[q0].msg
    OBVIOUS
  <2>1. x <= m - sent[q].msg
    BY <1>3
  <2> QED BY <1>1, <1>4, <2>1
<1>6. /\ sent[q0].i \in 1 .. AgentHead
      /\ q0 - sent[q0].i >= 0 /\ q0 - sent[q0].i + AgentHead <= Len(sent)
      /\ \A j \in 1 .. AgentHead :
            LET c == sent[q0 - sent[q0].i + j]
            IN  c.msg = sent[q0].msg /\ c.i = j /\ c.dev = sent[q0].dev
  BY Zenon DEF SentInv, InitsWhole
<1>7. AgentHead \in Nat /\ AgentHead >= 1 /\ Len(sent) \in Nat
  BY LengthIs DEF TypeOK
<1>8. PICK r : r = q0 - sent[q0].i + 1
  OBVIOUS
<1>9. r \in 1 .. Len(sent) /\ 1 \in 1 .. AgentHead
  BY <1>6, <1>7, <1>8
<1>10. sent[r].msg = sent[q0].msg /\ sent[r].i = 1 /\ sent[r].dev = sent[q0].dev
  BY <1>6, <1>8, <1>9
<1> QED BY <1>5, <1>9, <1>10

\* serclt_recvdata passes everything up to wr_off on.
LEMMA InvForward ==
    ASSUME IInv, ParseForward
    PROVE  IInv'
<1>1. TypeOK /\ SentInv /\ OverrunInv
  BY DEF IInv
<1>2. TypeOK'
  BY <1>1, TypeParse DEF Parse
<1> DEFINE e == [to |-> "device", dev |-> dev, cells |-> Rest]
<1>3. /\ HasPort /\ dev # None /\ out' = Append(out, e) /\ wr_off' = 0 /\ rd_off' = 0 /\ More
      /\ Remaining <= BufSize /\ UNCHANGED <<sent, taken, blob, dev, crashed>>
  BY DEF ParseForward, HasPort, stream
<1>4. rd_off \in Nat /\ wr_off \in 0 .. BufSize /\ wr_off \in Nat /\ dev \in Devs /\ BufSize \in Nat
  BY <1>1, SerClientAssumption DEF TypeOK, Devs
<1>5. InStep
  BY DEF IInv
<1>6. e \in Piece /\ e.to = "device" /\ e.cells = Rest /\ e.dev = dev
  BY <1>1, <1>4, CellsIs DEF Rest, Piece, Devs
<1> HIDE DEF e
<1>7. /\ Done' = taken /\ Done' >= 0 /\ WindowInv' /\ Handled(out, sent, Done)'
      /\ \A c \in ToSet(e.cells) : \E p \in Done + 1 .. taken : c = sent[p]
      /\ \A p \in Done + 1 .. taken : sent[p] \in ToSet(e.cells)
  BY <1>1, <1>3, <1>5, <1>6, Emptied
<1>8. /\ Done \in 0 .. taken /\ taken \in 0 .. Len(sent) /\ Len(sent) \in Nat /\ taken \in Nat
      /\ sent \in Seq(Cell)
  BY <1>1, <1>5, DoneIs DEF InStep, TypeOK
\* a command of the new piece: the last init packet before it is the one
\* registered, or one sent after that and swallowed
<1>9. ASSUME ~ Misread(Len(out) + 1), NEW c \in ToSet(e.cells), c.dev = None
      PROVE  LatestInit(sent, Swallowed', e.dev, c.msg)
  <2>1. PICK p0 \in 1 .. Done :
           /\ sent[p0].dev = dev /\ sent[p0].i = 1
           /\ \A k \in Pieces("register") :
                 \A b \in ToSet(out[k].cells) : b.msg <= sent[p0].msg
    BY <1>3, <1>5, <1>9, Zenon DEF InStep, LatestInv
  <2>2. PICK p \in Done + 1 .. taken : c = sent[p]
    BY <1>7
  <2>3. p \in 1 .. Len(sent) /\ p0 \in 1 .. Len(sent) /\ p0 < p
    BY <1>8
  <2>4. sent[p0].msg \in Nat /\ c.msg \in Nat
    BY <1>1, <2>2, <2>3, SentIs
  <2>5. sent[p0].msg < c.msg
    <3>1. sent[p0].msg <= c.msg /\ sent[p0].msg # c.msg
      BY <1>1, <1>3, <1>9, <2>1, <2>2, <2>3 DEF SentInv, InTurn
    <3> QED BY <2>4, <3>1
  <2>6. PICK r \in 1 .. Len(sent) :
           /\ sent[r].dev # None /\ sent[r].i = 1 /\ sent[r].msg < c.msg
           /\ \A q \in 1 .. Len(sent) :
                 sent[q].dev # None /\ sent[q].msg < c.msg => sent[q].msg <= sent[r].msg
    <3>1. sent[p0].dev # None
      BY <1>3, <2>1
    <3> QED BY <1>1, <2>3, <2>4, <2>5, <3>1, LatestExists
  <2>7. sent[r].msg \in Nat /\ sent[p0].msg <= sent[r].msg
    BY <1>1, <1>3, <2>1, <2>3, <2>5, <2>6, SentIs
  <2>8. CASE sent[r].msg = sent[p0].msg
    <3>1. sent[r].dev = e.dev
      BY <1>1, <1>6, <2>1, <2>3, <2>8 DEF SentInv, InTurn
    <3> QED BY <2>6, <3>1, Zenon DEF LatestInit
  <2>9. CASE sent[r].msg # sent[p0].msg
    <3>1. r < p
      <4>1. p < r => c.msg <= sent[r].msg
        BY <1>1, <2>2, <2>3 DEF SentInv, InTurn
      <4>2. p # r
        BY <2>2, <2>4, <2>6
      <4> QED BY <2>3, <2>4, <2>6, <2>7, <4>1, <4>2
    <3>2. r \in 1 .. Done \/ r \in Done + 1 .. taken
      BY <1>8, <3>1
    <3>3. CASE r \in Done + 1 .. taken
      <4>1. sent[r] \in ToSet(e.cells)
        BY <1>7, <3>3
      <4>2. sent[r] \in Swallowed'
        BY <1>1, <1>3, <1>6, <2>6, <4>1, SwallowedMore
      <4> QED BY <2>6, <4>2, Zenon DEF LatestInit
    <3>4. CASE r \in 1 .. Done
      <4>1. PICK k \in DOMAIN out : sent[r] \in ToSet(out[k].cells)
        BY <1>5, <3>4, Zenon DEF InStep, Handled
      <4>2. out[k].to # "register"
        <5> SUFFICES ASSUME out[k].to = "register" PROVE FALSE
          OBVIOUS
        <5>1. sent[r].msg <= sent[p0].msg
          BY <2>1, <4>1 DEF Pieces
        <5> QED BY <2>4, <2>7, <2>9, <5>1
      <4>3. sent[r] \in Swallowed
        BY <2>6, <4>1, <4>2, Zenon DEF Swallowed
      <4>4. sent[r] \in Swallowed'
        BY <1>1, <1>3, <1>6, <4>3, SwallowedMore
      <4> QED BY <2>6, <4>4, Zenon DEF LatestInit
    <3> QED BY <3>2, <3>3, <3>4
  <2> QED BY <2>8, <2>9
<1>10. AddressedInv'
  BY <1>1, <1>3, <1>5, <1>6, <1>9, AddressedMore DEF InStep
<1>11. LatestInv'
  <2>1. Done \in Nat /\ Done' \in Nat /\ Done <= Done'
    BY <1>7, <1>8
  <2> QED BY <1>1, <1>3, <1>5, <1>6, <2>1, LatestKept DEF InStep
<1>12. SentInv' /\ OverrunInv'
  BY <1>1, <1>3 DEF SentInv, OverrunInv, More
<1> QED BY <1>2, <1>7, <1>10, <1>11, <1>12 DEF IInv, InStep

\* The bytes taken for an init packet begin one: the address is its own.
LEMMA InitThere ==
    ASSUME TypeOK, SentInv, InStep, rd_off <= wr_off, wr_off - rd_off >= CmdHead,
           sent[Done + 1].dev # None, sent[Done + 1].i = 1, NEW d \in Named
    PROVE  /\ d = sent[Done + 1].dev
           /\ \A m \in 1 .. AgentHead : sent[Done + m].msg = sent[Done + 1].msg
<1>1. /\ rd_off \in Nat /\ wr_off \in Nat /\ AgentHead \in Nat /\ CmdHead \in Nat
      /\ CmdHead >= 1 /\ CmdHead < AgentHead
  BY LengthIs DEF TypeOK
<1>2. /\ Done \in 0 .. taken /\ taken \in 0 .. Len(sent) /\ Len(sent) \in Nat
      /\ taken = Done + (wr_off - rd_off) /\ Done \in Nat
      /\ \A k \in rd_off .. wr_off - 1 : taken - wr_off + k + 1 = Done + (k - rd_off + 1)
  <2>1. Done >= 0
    BY DEF InStep
  <2>2. Len(sent) \in Nat
    BY DEF TypeOK
  <2> QED BY <1>1, <2>1, <2>2, DoneIs
<1>3. PICK p \in 1 .. Len(sent) : p = Done + 1
  BY <1>1, <1>2
<1>4. \A m \in 1 .. AgentHead :
         LET c == sent[p - sent[p].i + m]
         IN  c.msg = sent[p].msg /\ c.i = m /\ c.dev = sent[p].dev
  BY <1>3, Zenon DEF SentInv, InitsWhole
<1>5. p - sent[p].i = Done
  BY <1>2, <1>3
<1>6. ASSUME NEW m \in 1 .. AgentHead
      PROVE  sent[Done + m].msg = sent[p].msg /\ sent[Done + m].i = m /\ sent[Done + m].dev = sent[p].dev
  BY <1>4, <1>5
<1>7. ASSUME NEW k \in 0 .. CmdHead - 1
      PROVE  blob[rd_off + k].msg = sent[p].msg /\ blob[rd_off + k].i = k + 1
             /\ blob[rd_off + k].dev = sent[p].dev
  <2>1. PICK x \in rd_off .. wr_off - 1 : x = rd_off + k
    BY <1>1
  <2>2. blob[x] = sent[taken - wr_off + x + 1] /\ taken - wr_off + x + 1 = Done + (x - rd_off + 1)
    BY <1>2 DEF InStep, WindowInv
  <2>3. x - rd_off + 1 = k + 1 /\ k + 1 \in 1 .. AgentHead
    BY <1>1, <2>1
  <2> QED BY <1>6, <2>1, <2>2, <2>3
<1>8. blob[rd_off].msg = sent[p].msg
  <2>1. 0 \in 0 .. CmdHead - 1 /\ rd_off + 0 = rd_off
    BY <1>1
  <2> QED BY <1>7, <2>1
<1> DEFINE Begins(x) == \A k \in 0 .. CmdHead - 1 :
                          LET c == blob[rd_off + k]
                          IN  c.msg = blob[rd_off].msg /\ c.i = k + 1 /\ c.dev = x
<1>9. Begins(sent[p].dev)
  BY <1>7, <1>8
<1>10. sent[p].dev \in Devices
  <2>1. sent[p] \in Cell
    BY SentIs
  <2> QED BY <1>3, <2>1 DEF Cell
<1>11. Begins(d)
  BY <1>9, <1>10, Zenon DEF Named
<1>12. d = sent[p].dev
  <2>1. 0 \in 0 .. CmdHead - 1
    BY <1>1
  <2> QED BY <1>9, <1>11, <2>1
<1> QED BY <1>3, <1>6, <1>12

\* serclt_recvdata registers what the bytes at the magic say.
LEMMA InvInit ==
    ASSUME IInv, ParseInit
    PROVE  IInv'
<1>1. TypeOK /\ SentInv /\ OverrunInv /\ InStep
  BY DEF IInv
<1>2. TypeOK'
  BY <1>1, TypeParse DEF Parse
<1>3. PICK d \in Named :
        /\ dev' = d
        /\ out' = Append(out, [to |-> "register", dev |-> d, cells |-> Header])
  BY DEF ParseInit
<1> DEFINE e == [to |-> "register", dev |-> d, cells |-> Header]
<1>4. /\ More /\ AtMagic /\ rd_off' = rd_off + AgentHead
      /\ UNCHANGED <<sent, taken, blob, wr_off, pc, crashed>>
  BY DEF ParseInit, stream
<1>5. /\ rd_off \in Nat /\ wr_off \in 0 .. BufSize /\ wr_off \in Nat /\ BufSize \in Nat
      /\ AgentHead \in Nat /\ AgentHead >= 1 /\ CmdHead \in Nat /\ CmdHead >= 2 /\ taken \in Nat
      /\ CmdHead < AgentHead
  BY <1>1, LengthIs, SerClientAssumption DEF TypeOK
<1>6. d \in Devices /\ d # None /\ ~ crashed /\ ~ crashed' /\ pc' = "parse" /\ SentInv'
  BY <1>1, <1>4, SerClientAssumption DEF More, SentInv, Named
<1>7. PICK hi \in 0 .. BufSize : hi = Lower(rd_off + AgentHead, wr_off)
  BY <1>5 DEF Lower
<1>8. e \in Piece /\ e.to = "register" /\ e.cells = Cells(rd_off, hi) /\ out' = Append(out, e)
  <2>1. Header = Cells(rd_off, hi)
    BY <1>7 DEF Header
  <2>2. Header \in Seq(Cell)
    BY <1>1, <1>5, <2>1, CellsIs
  <2> QED BY <1>3, <1>6, <2>1, <2>2 DEF Piece, Devs
<1> HIDE DEF e
<1>9. PICK h \in Nat : h = IF rd_off <= wr_off THEN hi - rd_off ELSE 0
  <2>1. (IF rd_off <= wr_off THEN hi - rd_off ELSE 0) \in Nat
    BY <1>5, <1>7 DEF Lower
  <2> QED BY <2>1
<1>10. /\ hi \in Nat
       /\ \/ rd_off <= wr_off /\ hi \in rd_off .. wr_off /\ h = hi - rd_off
          \/ rd_off > wr_off /\ hi <= rd_off /\ h = 0
  BY <1>5, <1>7, <1>9 DEF Lower
<1>11. /\ Done \in 0 .. taken /\ taken \in 0 .. Len(sent) /\ Len(sent) \in Nat /\ Done \in Nat
       /\ taken = Done + (IF rd_off <= wr_off THEN wr_off - rd_off ELSE 0)
       /\ \A k \in rd_off .. wr_off - 1 : taken - wr_off + k + 1 = Done + (k - rd_off + 1)
  <2>1. Done >= 0
    BY <1>1 DEF InStep
  <2>2. Len(sent) \in Nat
    BY <1>1 DEF TypeOK
  <2> QED BY <1>1, <1>5, <2>1, <2>2, DoneIs
<1>12. /\ Handled(out', sent, Done + h)
       /\ Done + h \in Done .. taken
       /\ \A c \in ToSet(e.cells) : \E p \in Done + 1 .. Done + h : c = sent[p]
       /\ Len(e.cells) = h /\ \A j \in 1 .. h : e.cells[j] = sent[Done + j]
  BY <1>1, <1>8, <1>10, HandledOut
<1>13. Done' = Done + h
  <2>1. Done' = taken - (IF rd_off + AgentHead <= wr_off THEN wr_off - (rd_off + AgentHead) ELSE 0)
    BY <1>4 DEF Done
  <2>2. hi = IF rd_off + AgentHead < wr_off THEN rd_off + AgentHead ELSE wr_off
    BY <1>7 DEF Lower
  <2> QED BY <1>5, <1>9, <1>11, <2>1, <2>2
<1>14. WindowInv'
  <2> SUFFICES ASSUME NEW k \in rd_off' .. wr_off - 1
               PROVE  blob[k] = sent[taken - wr_off + k + 1]
    BY <1>4 DEF WindowInv
  <2>1. k \in rd_off .. wr_off - 1
    BY <1>4, <1>5
  <2> QED BY <1>1, <2>1 DEF InStep, WindowInv
<1>15. AddressedInv'
  BY <1>1, <1>4, <1>8, AddressedMore DEF InStep
<1>16. rd_off <= wr_off => wr_off - rd_off >= CmdHead
  BY <1>1, <1>4, RemainingIs DEF More
<1>17. LatestInv'
  <2>1. CASE ~ (Len(e.cells) >= CmdHead /\ e.cells[1].dev # None /\ e.cells[1].i = 1)
    <3>1. Misread(Len(out) + 1)'
      BY <1>1, <1>8, <2>1, MisreadMore
    <3> QED BY <1>3, <1>6, <3>1 DEF LatestInv
  <2>2. CASE Len(e.cells) >= CmdHead /\ e.cells[1].dev # None /\ e.cells[1].i = 1
    <3>1. /\ h >= CmdHead /\ h >= 1 /\ rd_off <= wr_off /\ h <= AgentHead
          /\ sent[Done + 1].dev # None /\ sent[Done + 1].i = 1
      <4>1. h >= CmdHead /\ 1 \in 1 .. h
        BY <1>5, <1>12, <2>2
      <4>2. rd_off <= wr_off /\ h <= AgentHead
        BY <1>5, <1>7, <1>9, <4>1 DEF Lower
      <4> QED BY <1>12, <2>2, <4>1, <4>2
    <3>2. /\ d = sent[Done + 1].dev
          /\ \A m \in 1 .. AgentHead : sent[Done + m].msg = sent[Done + 1].msg
      BY <1>1, <1>16, <3>1, InitThere
    <3>3. PICK p0 \in 1 .. Done' : p0 = Done + 1
      BY <1>11, <1>13, <3>1
    <3>4. p0 \in 1 .. Len(sent)
      BY <1>11, <1>12, <1>13, <3>3
    <3>5. sent[p0].msg \in Nat
      BY <1>1, <3>4, SentIs
    <3>6. ASSUME NEW k \in Pieces("register")', NEW c \in ToSet(out'[k].cells)
          PROVE  c.msg <= sent[p0].msg
      <4>1. k \in DOMAIN out' /\ out'[k].to = "register"
        BY DEF Pieces
      <4>2. CASE out'[k] = e
        <5>1. PICK p \in Done + 1 .. Done + h : c = sent[p]
          BY <1>12, <4>2
        <5>2. PICK m \in 1 .. AgentHead : p = Done + m
          <6>1. p - Done \in 1 .. AgentHead /\ p = Done + (p - Done)
            BY <1>5, <1>11, <3>1
          <6> QED BY <6>1
        <5>3. c.msg = sent[p0].msg
          BY <3>2, <3>3, <5>1, <5>2
        <5> QED BY <3>5, <5>3
      <4>3. CASE k \in DOMAIN out /\ out'[k] = out[k]
        <5>1. PICK p \in 1 .. Done : c = sent[p]
          BY <1>1, <4>3, Zenon DEF InStep, Handled
        <5>2. p \in 1 .. Len(sent) /\ p < p0
          BY <1>11, <3>3
        <5> QED BY <1>1, <3>4, <5>1, <5>2 DEF SentInv, InTurn
      <4> QED BY <1>1, <1>8, <4>1, <4>2, <4>3, OutMore
    <3>7. \A k \in Pieces("register")' :
             \A c \in ToSet(out'[k].cells) : c.msg <= sent'[p0].msg
      BY <1>4, <3>6
    <3>8. sent'[p0].dev = dev' /\ sent'[p0].i = 1 /\ dev' # None
      BY <1>3, <1>4, <1>6, <3>1, <3>2, <3>3
    <3> QED BY <3>7, <3>8 DEF LatestInv
  <2> QED BY <2>1, <2>2
<1>18. OverrunInv'
  <2>1. CASE rd_off > wr_off
    BY <1>1, <1>4, <1>6, <2>1 DEF OverrunInv
  <2>2. CASE rd_off <= wr_off /\ rd_off + AgentHead <= wr_off
    <3>1. ~ (rd_off' > wr_off')
      BY <1>4, <1>5, <2>2
    <3> QED BY <1>6, <3>1 DEF OverrunInv
  <2>3. CASE rd_off <= wr_off /\ rd_off + AgentHead > wr_off
    <3>1. PICK n \in CmdHead .. AgentHead - 1 : n = wr_off - rd_off
      BY <1>5, <1>16, <2>3
    <3>2. n <= taken /\ taken - n = Done
      BY <1>5, <1>11, <2>3, <3>1
    <3>3. ASSUME NEW x \in rd_off .. wr_off - 1 PROVE blob[x] = sent[Done + (x - rd_off + 1)]
      BY <1>1, <1>11, <3>3 DEF InStep, WindowInv
    <3>4. /\ rd_off \in rd_off .. wr_off - 1 /\ rd_off + 1 \in rd_off .. wr_off - 1
          /\ Done + (rd_off - rd_off + 1) = taken - n + 1
          /\ Done + ((rd_off + 1) - rd_off + 1) = taken - n + 2
      BY <1>5, <1>11, <3>1, <3>2
    <3>5. blob[rd_off] = sent[taken - n + 1] /\ blob[rd_off + 1] = sent[taken - n + 2]
      <4>1. blob[rd_off] = sent[Done + (rd_off - rd_off + 1)]
        BY <3>3, <3>4
      <4>2. blob[rd_off + 1] = sent[Done + ((rd_off + 1) - rd_off + 1)]
        BY <3>3, <3>4
      <4> QED BY <3>4, <4>1, <4>2
    <3>6. sent'[taken' - n + 1].byte = "lo" /\ sent'[taken' - n + 2].byte = "hi" /\ n <= taken'
      BY <1>4, <3>2, <3>5 DEF AtMagic
    <3> QED BY <1>6, <3>6 DEF OverrunInv
  <2> QED BY <1>5, <2>1, <2>2, <2>3
<1>19. Handled(out, sent, Done)' /\ Done' >= 0
  BY <1>4, <1>11, <1>12, <1>13
<1> QED BY <1>2, <1>6, <1>14, <1>15, <1>17, <1>18, <1>19 DEF IInv, InStep

-----------------------------------------------------------------------------
LEMMA InvInitial ==
    ASSUME Init
    PROVE  IInv
<1>1. TypeOK
  BY TypeInit
<1>2. sent = <<>> /\ taken = 0 /\ wr_off = 0 /\ rd_off = 0 /\ dev = None /\ ~ crashed /\ out = <<>>
  BY DEF Init
<1>3. Len(sent) = 0 /\ DOMAIN out = {} /\ Len(out) = 0 /\ sent \in Seq(Cell)
  BY <1>2
<1>4. SentInv
  BY <1>3 DEF SentInv, InitsWhole, InTurn
<1>5. OverrunInv
  BY <1>2 DEF OverrunInv
<1>6. Done = 0
  BY <1>2 DEF Done
<1>7. Handled(out, sent, 0)
  <2>1. [k \in 1 .. Len(out) |-> out[k].cells] = <<>>
    BY <1>3
  <2>2. Flat(out) = <<>>
    BY <2>1, FlattenEmpty DEF Flat
  <2>3. SubSeq(sent, 1, 0) = <<>>
    BY <1>3
  <2> QED BY <1>3, <2>2, <2>3 DEF Handled
<1>8. WindowInv
  BY <1>2 DEF WindowInv
<1>9. \A to : Pieces(to) = {}
  BY <1>3 DEF Pieces
<1>10. LatestInv /\ AddressedInv
  BY <1>2, <1>9 DEF LatestInv, AddressedInv
<1> QED BY <1>1, <1>4, <1>5, <1>6, <1>7, <1>8, <1>10 DEF IInv, InStep

LEMMA InvNext ==
    ASSUME IInv, [Next]_vars
    PROVE  IInv'
<1>1. TypeOK
  BY DEF IInv
<1>2. ASSUME NEW d \in Devices, NEW at, SendInit(d, at) PROVE IInv'
  BY <1>2, LengthIs, InvSend DEF SendInit, Devs
<1>3. ASSUME NEW len \in CmdLens, NEW at, SendCmd(len, at) PROVE IInv'
  BY <1>3, LengthIs, InvSend DEF SendCmd, Devs
<1>4. ASSUME NEW n \in 1 .. Len(sent), Read(n) PROVE IInv'
  BY <1>4, InvRead
<1>5. ASSUME Parse PROVE IInv'
  BY <1>5, InvInit, InvRefuse, InvForward, InvOverrun, InvEnd DEF Parse
<1>6. ASSUME UNCHANGED vars PROVE IInv'
  <2>1. UNCHANGED <<sent, arrived, taken, blob, wr_off, rd_off, dev, pc, crashed, out>>
    BY <1>6 DEF vars
  <2>2. TypeOK'
    BY <1>1, <2>1 DEF TypeOK
  <2>3. rd_off > wr_off => pc' = "parse"
    BY <2>1 DEF IInv, OverrunInv
  <2> QED BY <2>1, <2>2, <2>3, InvSame
<1> QED BY <1>2, <1>3, <1>4, <1>5, <1>6 DEF Next

LEMMA Invariance == Spec => []IInv
<1>1. Init => IInv
  BY InvInitial
<1>2. IInv /\ [Next]_vars => IInv'
  BY InvNext
<1> QED BY <1>1, <1>2, PTL DEF Spec

\* rd_off and wr_off stay in the range of data_blob, but for the step over what
\* is taken for an init packet, which takes rd_off up to AgentHead beyond
\* (serclient.c:117-132).
THEOREM OffsetsBounded == Spec => []TypeOK
<1>1. IInv => TypeOK
  BY DEF IInv
<1> QED BY <1>1, Invariance, PTL

-----------------------------------------------------------------------------
LEMMA InOrderHolds ==
    ASSUME IInv
    PROVE  InOrder
<1> SUFFICES Flat(out) \o Cells(rd_off, wr_off) = SubSeq(sent, 1, taken)
  BY DEF InOrder, Flat
<1>1. TypeOK /\ InStep
  BY DEF IInv
<1>2. /\ Done \in 0 .. Len(sent) /\ taken \in 0 .. Len(sent)
      /\ taken = Done + (IF rd_off <= wr_off THEN wr_off - rd_off ELSE 0)
      /\ Done \in 0 .. taken
      /\ \A k \in rd_off .. wr_off - 1 : taken - wr_off + k + 1 = Done + (k - rd_off + 1)
  BY <1>1, DoneIs DEF InStep
<1>3. sent \in Seq(Cell) /\ wr_off \in Nat /\ rd_off \in Nat /\ taken \in Nat /\ Len(sent) \in Nat
  BY <1>1, <1>2, SerClientAssumption DEF TypeOK
<1>4. PICK n \in 0 .. Len(sent) : n = Done
  BY <1>2
<1>5. taken \in n .. Len(sent) /\ 1 .. wr_off - rd_off = 1 .. taken - n
  BY <1>2, <1>3, <1>4
<1>6. Cells(rd_off, wr_off) = [j \in 1 .. taken - n |-> sent[n + j]]
  <2>1. ASSUME NEW j \in 1 .. wr_off - rd_off PROVE blob[rd_off + j - 1] = sent[n + j]
    <3>1. PICK k \in rd_off .. wr_off - 1 : k = rd_off + j - 1
      BY <1>3
    <3>2. blob[k] = sent[taken - wr_off + k + 1]
      BY <1>1 DEF InStep, WindowInv
    <3>3. taken - wr_off + k + 1 = n + (k - rd_off + 1)
      BY <1>2, <1>4
    <3>4. k - rd_off + 1 = j
      BY <1>3, <3>1
    <3> QED BY <3>1, <3>2, <3>3, <3>4
  <2>2. Cells(rd_off, wr_off) = [j \in 1 .. taken - n |-> blob[rd_off + j - 1]]
    BY <1>5, Zenon DEF Cells
  <2> QED BY <1>5, <2>1, <2>2
<1>7. Flat(out) = SubSeq(sent, 1, n)
  BY <1>1, <1>4 DEF InStep, Handled
<1> QED BY <1>3, <1>5, <1>6, <1>7, FrontMore

\* Every byte serclt_recvdata has read is registered, dropped, forwarded or
\* still in data_blob, once and in the order sent, however the stream is cut
\* (serclient.c:107-165).
THEOREM BytesStayInOrder == Spec => []InOrder
<1>1. IInv => InOrder
  BY InOrderHolds
<1> QED BY <1>1, Invariance, PTL

\* rd_off passes wr_off at the two bytes of the magic, read with fewer bytes
\* behind them than an init packet has, and nowhere else (serclient.c:123-132).
THEOREM OnlySplitMagicOverruns == Spec => []OverrunOnlyBySplitMagic
<1>1. IInv => OverrunOnlyBySplitMagic
  BY DEF OverrunOnlyBySplitMagic, IInv, OverrunInv, Overrun
<1> QED BY <1>1, Invariance, PTL

-----------------------------------------------------------------------------
LEMMA MaxIs ==
    ASSUME NEW T, T \subseteq Nat, NEW x \in T, \A y \in T : y <= x
    PROVE  Max(T) = x
<1>1. \E z \in T : \A y \in T : z >= y
  <2>1. \A y \in T : x >= y
    OBVIOUS
  <2> QED BY <2>1
<1>2. Max(T) \in T /\ \A y \in T : Max(T) >= y
  BY <1>1, Zenon DEF Max
<1>3. PICK m \in T : m = Max(T)
  BY <1>2
<1>4. m >= x /\ m <= x /\ m \in Nat /\ x \in Nat
  BY <1>2, <1>3
<1> QED BY <1>3, <1>4

LEMMA AddressedHolds ==
    ASSUME IInv
    PROVE  AddressedToLatestInit
<1>1. TypeOK
  BY DEF IInv
<1> SUFFICES ASSUME NEW k \in DOMAIN out, NEW c \in ToSet(out[k].cells),
                    out[k].to = "device", c.dev = None
             PROVE  \/ Misread(k)
                    \/ \E c0 \in InitsBefore(c.msg) :
                          /\ c0.msg = Max({e.msg : e \in InitsBefore(c.msg)})
                          /\ out[k].dev = c0.dev \/ c0 \in Swallowed
  BY DEF AddressedToLatestInit
<1>2. AddressedInv
  BY DEF IInv, InStep
<1>3. k \in Pieces("device")
  BY DEF Pieces
<1>4. CASE Misread(k)
  BY <1>4
<1>5. CASE LatestInit(sent, Swallowed, out[k].dev, c.msg)
  <2>1. PICK p \in 1 .. Len(sent) :
          /\ sent[p].dev # None /\ sent[p].i = 1 /\ sent[p].msg < c.msg
          /\ sent[p].dev = out[k].dev \/ sent[p] \in Swallowed
          /\ \A q \in 1 .. Len(sent) :
                sent[q].dev # None /\ sent[q].msg < c.msg => sent[q].msg <= sent[p].msg
    BY <1>5, Zenon DEF LatestInit
  <2>2. ToSet(sent) = {sent[q] : q \in 1 .. Len(sent)}
    <3>1. sent \in Seq(Cell)
      BY <1>1 DEF TypeOK
    <3>2. DOMAIN sent = 1 .. Len(sent)
      BY <3>1
    <3> QED BY <3>2, Zenon DEF ToSet
  <2>3. sent[p] \in InitsBefore(c.msg)
    BY <2>1, <2>2 DEF InitsBefore
  <2> DEFINE T == {e.msg : e \in InitsBefore(c.msg)}
  <2>4. ASSUME NEW y \in T PROVE y \in Nat /\ y <= sent[p].msg
    <3>1. PICK e \in InitsBefore(c.msg) : y = e.msg
      OBVIOUS
    <3>2. PICK q \in 1 .. Len(sent) : e = sent[q] /\ e.dev # None /\ e.msg < c.msg
      BY <2>2 DEF InitsBefore
    <3> QED BY <1>1, <2>1, <3>1, <3>2, SentIs
  <2>5. sent[p].msg \in T
    BY <2>3
  <2> HIDE DEF T
  <2>6. Max(T) = sent[p].msg
    BY <2>4, <2>5, MaxIs
  <2> QED BY <2>1, <2>3, <2>6 DEF T
<1> QED BY <1>2, <1>3, <1>4, <1>5 DEF AddressedInv

\* A command goes to the device of the last init packet before it, unless that
\* packet was taken for payload, or payload for an init packet and none was
\* registered since (serclient.c:127-163).
THEOREM CommandsGoToLatestInit == Spec => []AddressedToLatestInit
<1>1. IInv => AddressedToLatestInit
  BY AddressedHolds
<1> QED BY <1>1, Invariance, PTL
=============================================================================
