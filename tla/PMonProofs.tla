----------------------------- MODULE PMonProofs ----------------------------
(***************************************************************************)
(* Proofs about the daemon's surroundings: PMonReceive, for every size of  *)
(* the buffer and any number of lines and faults, and PMonScript, for any  *)
(* number of daemons and calls.                                            *)
(***************************************************************************)
EXTENDS PMonReceive, PMonScript, Division, SequenceTheorems, TLAPS

-----------------------------------------------------------------------------
\* What Min stands for: where strchr stops.
LEMMA MinIsLeast ==
  ASSUME NEW S \in SUBSET Nat, S # {}
  PROVE  Min(S) \in S /\ \A x \in S : Min(S) <= x
BY LeastNumber DEF Min

\* A piece of a sequence, which may be empty.
LEMMA Piece ==
  ASSUME NEW T, NEW s \in Seq(T), NEW a \in 1 .. Len(s) + 1, NEW b \in a - 1 .. Len(s)
  PROVE  /\ SubSeq(s, a, b) \in Seq(T)
         /\ Len(SubSeq(s, a, b)) = b - a + 1
         /\ \A i \in 1 .. b - a + 1 : SubSeq(s, a, b)[i] = s[a + i - 1]
<1>1. a \in Int /\ b \in Int /\ \A i \in a .. b : s[i] \in T OBVIOUS
<1>2. /\ SubSeq(s, a, b) \in Seq(T)
      /\ Len(SubSeq(s, a, b)) = IF a <= b THEN b - a + 1 ELSE 0
      /\ \A i \in 1 .. b - a + 1 : SubSeq(s, a, b)[i] = s[a + i - 1]
  BY <1>1, SubSeqProperties
<1> QED BY <1>2

\* A sequence without the piece from place m + 1 to place k.
Without(s, m, k) == SubSeq(s, 1, m) \o SubSeq(s, k + 1, Len(s))

LEMMA WithoutProps ==
  ASSUME NEW T, NEW s \in Seq(T), NEW k \in 0 .. Len(s), NEW m \in 0 .. k
  PROVE  /\ Without(s, m, k) \in Seq(T)
         /\ Len(Without(s, m, k)) = Len(s) - (k - m)
         /\ \A p \in 1 .. Len(s) - (k - m) :
              Without(s, m, k)[p] = IF p <= m THEN s[p] ELSE s[p + (k - m)]
<1>1. /\ SubSeq(s, 1, m) \in Seq(T) /\ Len(SubSeq(s, 1, m)) = m
      /\ \A p \in 1 .. m : SubSeq(s, 1, m)[p] = s[p]
  <2>1. 1 \in 1 .. Len(s) + 1 /\ m \in 1 - 1 .. Len(s) OBVIOUS
  <2>2. /\ SubSeq(s, 1, m) \in Seq(T) /\ Len(SubSeq(s, 1, m)) = m - 1 + 1
        /\ \A p \in 1 .. m - 1 + 1 : SubSeq(s, 1, m)[p] = s[1 + p - 1]
    BY <2>1, Piece
  <2> QED BY <2>2
<1>2. /\ SubSeq(s, k + 1, Len(s)) \in Seq(T) /\ Len(SubSeq(s, k + 1, Len(s))) = Len(s) - k
      /\ \A p \in 1 .. Len(s) - k : SubSeq(s, k + 1, Len(s))[p] = s[p + k]
  <2>1. k + 1 \in 1 .. Len(s) + 1 /\ Len(s) \in k + 1 - 1 .. Len(s) OBVIOUS
  <2>2. /\ SubSeq(s, k + 1, Len(s)) \in Seq(T)
        /\ Len(SubSeq(s, k + 1, Len(s))) = Len(s) - (k + 1) + 1
        /\ \A p \in 1 .. Len(s) - (k + 1) + 1 : SubSeq(s, k + 1, Len(s))[p] = s[k + 1 + p - 1]
    BY <2>1, Piece
  <2> QED BY <2>2
<1> DEFINE u == SubSeq(s, 1, m)
           v == SubSeq(s, k + 1, Len(s))
<1>3. /\ u \in Seq(T) /\ Len(u) = m /\ \A p \in 1 .. m : u[p] = s[p]
      /\ v \in Seq(T) /\ Len(v) = Len(s) - k /\ \A p \in 1 .. Len(s) - k : v[p] = s[p + k]
      /\ Without(s, m, k) = u \o v
  BY <1>1, <1>2 DEF Without
<1> HIDE DEF u, v
<1>4. /\ u \o v \in Seq(T) /\ Len(u \o v) = Len(u) + Len(v)
      /\ \A p \in 1 .. Len(u) + Len(v) : (u \o v)[p] = IF p <= Len(u) THEN u[p] ELSE v[p - Len(u)]
  BY <1>3, ConcatProperties
<1>5. ASSUME NEW p \in 1 .. Len(s) - (k - m)
      PROVE  (u \o v)[p] = IF p <= m THEN s[p] ELSE s[p + (k - m)]
  <2>1. p \in 1 .. Len(u) + Len(v) /\ Len(s) \in Nat BY <1>3
  <2>2. CASE p <= m
    <3>1. (u \o v)[p] = u[p] BY <1>3, <1>4, <2>1, <2>2
    <3>2. p \in 1 .. m BY <2>2
    <3> QED BY <1>3, <2>2, <3>1, <3>2
  <2>3. CASE p > m
    <3>1. p - m \in 1 .. Len(s) - k /\ (p - m) + k = p + (k - m) BY <2>1, <2>3
    <3>2. (u \o v)[p] = v[p - m] BY <1>3, <1>4, <2>1, <2>3
    <3>3. v[p - m] = s[(p - m) + k] BY <1>3, <3>1
    <3> QED BY <2>3, <3>1, <3>2, <3>3
  <2> QED BY <2>1, <2>2, <2>3
<1>6. Without(s, m, k) \in Seq(T) BY <1>3, <1>4
<1>7. Len(u \o v) = Len(s) - (k - m)
  <2>1. Len(u \o v) = m + (Len(s) - k) BY <1>3, <1>4
  <2>2. m \in Int /\ k \in Int /\ Len(s) \in Int OBVIOUS
  <2> QED BY <2>1, <2>2
<1> QED BY <1>3, <1>5, <1>6, <1>7

Name == {"nl", "cr", "Voltage", ":", "text", "nul"}
Token == Name \X Nat

LEMMA TokenProps ==
  /\ \A t \in Token : t[1] \in Name /\ t[2] \in Nat /\ t = <<t[1], t[2]>>
  /\ \A n \in Name, i \in Nat : <<n, i>> \in Token
BY DEF Token

LEMMA AtProps ==
  ASSUME NEW s \in Seq(Token), NEW name
  PROVE  /\ At(s, name) = {p \in 1 .. Len(s) : s[p][1] = name}
         /\ At(s, name) \in SUBSET Nat
         /\ At(s, name) # {} => /\ Min(At(s, name)) \in At(s, name)
                                /\ \A p \in At(s, name) : Min(At(s, name)) <= p
<1>1. At(s, name) = {p \in 1 .. Len(s) : s[p][1] = name} /\ At(s, name) \in SUBSET Nat
  BY DEF At
<1> QED BY <1>1, MinIsLeast

LEMMA ConcatTail ==
  ASSUME NEW T, NEW s \in Seq(T), NEW t \in Seq(T)
  PROVE  SubSeq(s \o t, Len(s) + 1, Len(s \o t)) = t
<1>1. /\ s \o t \in Seq(T) /\ Len(s \o t) = Len(s) + Len(t)
      /\ \A i \in 1 .. Len(s) + Len(t) : (s \o t)[i] = IF i <= Len(s) THEN s[i] ELSE t[i - Len(s)]
  BY ConcatProperties
<1> DEFINE w == s \o t
           v == SubSeq(w, Len(s) + 1, Len(w))
<1> HIDE DEF w
<1>2. w \in Seq(T) /\ Len(w) = Len(s) + Len(t)
      /\ \A i \in 1 .. Len(s) + Len(t) : w[i] = IF i <= Len(s) THEN s[i] ELSE t[i - Len(s)]
  BY <1>1 DEF w
<1>3. Len(s) + 1 \in 1 .. Len(w) + 1 /\ Len(w) \in Len(s) + 1 - 1 .. Len(w) BY <1>2
<1>4. /\ v \in Seq(T) /\ Len(v) = Len(w) - (Len(s) + 1) + 1
      /\ \A i \in 1 .. Len(w) - (Len(s) + 1) + 1 : v[i] = w[Len(s) + 1 + i - 1]
  BY <1>2, <1>3, Piece
<1> HIDE DEF v
<1>5. Len(v) = Len(t) BY <1>2, <1>4
<1>6. ASSUME NEW i \in 1 .. Len(v) PROVE v[i] = t[i]
  <2>1. Len(s) + 1 + i - 1 = Len(s) + i /\ Len(s) + i \in 1 .. Len(s) + Len(t)
        /\ Len(s) + i > Len(s) /\ (Len(s) + i) - Len(s) = i
    BY <1>5
  <2>2. v[i] = w[Len(s) + i] BY <1>2, <1>4, <1>5, <2>1
  <2>3. w[Len(s) + i] = t[(Len(s) + i) - Len(s)] BY <1>2, <2>1
  <2> QED BY <2>1, <2>2, <2>3
<1>7. v = t BY <1>4, <1>5, <1>6, SeqEqual
<1> QED BY <1>7 DEF v, w

\* A sequence read up to some place, in two pieces.
LEMMA InTwo ==
  ASSUME NEW T, NEW w \in Seq(T), NEW n \in 1 .. Len(w)
  PROVE  w = SubSeq(w, 1, n) \o SubSeq(w, n + 1, Len(w))
<1>1. 1 \in 1 .. Len(w) + 1 /\ n \in 1 - 1 .. Len(w) /\ Len(w) \in n .. Len(w)
  OBVIOUS
<1>2. SubSeq(w, 1, n) \o SubSeq(w, n + 1, Len(w)) = SubSeq(w, 1, Len(w))
  BY <1>1, ConcatAdjacentSubSeq
<1> QED BY <1>2, SubSeqFull

LEMMA Regroup ==
  ASSUME NEW T, NEW s \in Seq(T), NEW w \in Seq(T), NEW a \in Seq(T), NEW b \in Seq(T), w = a \o b
  PROVE  s \o w = (s \o a) \o b
BY ConcatAssociative

LEMMA WithoutConcat ==
  ASSUME NEW T, NEW s \in Seq(T), NEW w \in Seq(T), NEW k \in 0 .. Len(s), NEW m \in 0 .. k
  PROVE  Without(s, m, k) \o w = Without(s \o w, m, k)
<1> DEFINE a == Without(s, m, k)
           b == s \o w
<1>1. /\ a \in Seq(T) /\ Len(a) = Len(s) - (k - m)
      /\ \A p \in 1 .. Len(s) - (k - m) : a[p] = IF p <= m THEN s[p] ELSE s[p + (k - m)]
  BY WithoutProps
<1>2. /\ b \in Seq(T) /\ Len(b) = Len(s) + Len(w)
      /\ \A p \in 1 .. Len(s) + Len(w) : b[p] = IF p <= Len(s) THEN s[p] ELSE w[p - Len(s)]
  BY ConcatProperties
<1> HIDE DEF a, b
<1> DEFINE c == a \o w
           d == Without(b, m, k)
<1>3. /\ c \in Seq(T) /\ Len(c) = Len(a) + Len(w)
      /\ \A p \in 1 .. Len(a) + Len(w) : c[p] = IF p <= Len(a) THEN a[p] ELSE w[p - Len(a)]
  BY <1>1, ConcatProperties
<1>4. k \in 0 .. Len(b) BY <1>2
<1>5. /\ d \in Seq(T) /\ Len(d) = Len(b) - (k - m)
      /\ \A p \in 1 .. Len(b) - (k - m) : d[p] = IF p <= m THEN b[p] ELSE b[p + (k - m)]
  BY <1>2, <1>4, WithoutProps
<1> HIDE DEF c, d
<1>6. Len(c) = Len(d) BY <1>1, <1>2, <1>3, <1>5
<1>7. ASSUME NEW p \in 1 .. Len(c) PROVE c[p] = d[p]
  <2>1. /\ p \in 1 .. Len(a) + Len(w) /\ p \in 1 .. Len(b) - (k - m)
        /\ Len(a) = Len(s) - (k - m) /\ Len(b) = Len(s) + Len(w)
        /\ Len(s) \in Nat /\ Len(w) \in Nat
    BY <1>1, <1>2, <1>3, <1>5, <1>6
  <2>2. CASE p <= m
    <3>5. p <= Len(a) /\ p \in 1 .. Len(s) - (k - m) BY <2>1, <2>2
    <3>1. c[p] = a[p] BY <1>3, <2>1, <3>5
    <3>2. a[p] = s[p] BY <1>1, <2>2, <3>5
    <3>3. d[p] = b[p] BY <1>5, <2>1, <2>2
    <3>4. b[p] = s[p] BY <1>2, <2>1, <2>2
    <3> QED BY <3>1, <3>2, <3>3, <3>4
  <2>3. CASE p > m /\ p <= Len(a)
    <3> DEFINE q == p + (k - m)
    <3>1. c[p] = a[p] BY <1>3, <2>1, <2>3
    <3>2. a[p] = s[q] BY <1>1, <2>1, <2>3
    <3>3. d[p] = b[q] BY <1>5, <2>1, <2>3
    <3>4. q \in 1 .. Len(s) + Len(w) /\ q <= Len(s) BY <2>1, <2>3
    <3> HIDE DEF q
    <3>5. b[q] = s[q] BY <1>2, <3>4
    <3> QED BY <3>1, <3>2, <3>3, <3>5
  <2>4. CASE p > Len(a)
    <3> DEFINE q == p + (k - m)
    <3>1. c[p] = w[p - Len(a)] BY <1>3, <2>1, <2>4
    <3>2. m <= Len(a) BY <2>1
    <3>3. d[p] = b[q] BY <1>5, <2>1, <2>4, <3>2
    <3>4. q \in 1 .. Len(s) + Len(w) /\ q > Len(s) /\ q - Len(s) = p - Len(a) BY <2>1, <2>4
    <3> HIDE DEF q
    <3>5. b[q] = w[q - Len(s)] BY <1>2, <3>4
    <3> QED BY <3>1, <3>3, <3>4, <3>5
  <2> QED BY <2>1, <2>2, <2>3, <2>4
<1>8. c = d BY <1>3, <1>5, <1>6, <1>7, SeqEqual
<1> QED BY <1>8 DEF a, b, c, d

-----------------------------------------------------------------------------
ReceiveType ==
  /\ {readBuf, wire, text, junk} \subseteq Seq(Token)
  /\ sent \in Seq(Kind) /\ handled \in Seq(Nat) /\ faults \in Nat

\* What the daemon has not looked at yet, in the order it will.
Stream == readBuf \o wire

\* What the order of the values needs of a line, spoilt or not.
OneColon(l, kind, i) ==
  /\ l \in Seq(Token)
  /\ \A p \in DOMAIN l : l[p][1] = ":" => l[p][2] = i /\ kind = "voltage"
  /\ \A p, q \in DOMAIN l : l[p][1] = ":" /\ l[q][1] = ":" => p = q

LEMMA Tuple1 ==
  ASSUME NEW T, NEW a \in T
  PROVE  <<a>> \in Seq(T) /\ Len(<<a>>) = 1 /\ <<a>>[1] = a
OBVIOUS

LEMMA Tuple4 ==
  ASSUME NEW T, NEW a \in T, NEW b \in T, NEW c \in T, NEW d \in T
  PROVE  /\ <<a, b, c, d>> \in Seq(T) /\ Len(<<a, b, c, d>>) = 4
         /\ <<a, b, c, d>>[1] = a /\ <<a, b, c, d>>[2] = b
         /\ <<a, b, c, d>>[3] = c /\ <<a, b, c, d>>[4] = d
OBVIOUS

LEMMA Tuple5 ==
  ASSUME NEW T, NEW a \in T, NEW b \in T, NEW c \in T, NEW d \in T, NEW e \in T
  PROVE  /\ <<a, b, c, d, e>> \in Seq(T) /\ Len(<<a, b, c, d, e>>) = 5
         /\ <<a, b, c, d, e>>[1] = a /\ <<a, b, c, d, e>>[2] = b /\ <<a, b, c, d, e>>[3] = c
         /\ <<a, b, c, d, e>>[4] = d /\ <<a, b, c, d, e>>[5] = e
OBVIOUS

\* The tokens of each line.
LEMMA Shapes ==
  ASSUME NEW kind \in Kind, NEW i \in Nat, NEW l, l = LineOf(kind, i)
  PROVE  /\ l \in Seq(Token) /\ Len(l) > 0
         /\ kind = "voltage" =>
              /\ Len(l) = 5 /\ l[1] = <<"nl", i>> /\ l[2] = <<"Voltage", i>> /\ l[3] = <<":", i>>
              /\ l[4] = <<"cr", i>> /\ l[5] = <<"nl", i>>
         /\ kind = "text" =>
              /\ Len(l) = 4 /\ l[1] = <<"nl", i>> /\ l[2] = <<"text", i>>
              /\ l[3] = <<"cr", i>> /\ l[4] = <<"nl", i>>
         /\ kind = "startup" =>
              /\ Len(l) = 5 /\ l[1] = <<"cr", i>> /\ l[2] = <<"nl", i>> /\ l[3] = <<"text", i>>
              /\ l[4] = <<"cr", i>> /\ l[5] = <<"nl", i>>
         /\ kind = "nothing" => Len(l) = 1 /\ l[1] = <<"nl", i>>
<1> DEFINE nl == <<"nl", i>>
           cr == <<"cr", i>>
           colon == <<":", i>>
           some == <<"text", i>>
           cmd == <<"Voltage", i>>
<1>1. /\ kind = "voltage" => l = <<nl, cmd, colon, cr, nl>>
      /\ kind = "text" => l = <<nl, some, cr, nl>>
      /\ kind = "startup" => l = <<cr, nl, some, cr, nl>>
      /\ kind = "nothing" => l = <<nl>>
  BY DEF LineOf
<1>2. nl \in Token /\ cr \in Token /\ colon \in Token /\ some \in Token /\ cmd \in Token
  BY DEF Token, Name
<1> HIDE DEF nl, cr, colon, some, cmd
<1>3. CASE kind = "voltage"
  <2> DEFINE w == <<nl, cmd, colon, cr, nl>>
  <2>1. w \in Seq(Token) /\ Len(w) = 5 BY <1>2, Tuple5
  <2>2. l = w BY <1>1, <1>3
  <2>3. l[1] = nl /\ l[2] = cmd /\ l[3] = colon /\ l[4] = cr /\ l[5] = nl BY <2>2
  <2>4. l \in Seq(Token) /\ Len(l) = 5 BY <2>1, <2>2
  <2> QED BY <1>3, <2>3, <2>4 DEF nl, cr, colon, cmd
<1>4. CASE kind = "text"
  <2> DEFINE w == <<nl, some, cr, nl>>
  <2>1. w \in Seq(Token) /\ Len(w) = 4 BY <1>2, Tuple4
  <2>2. l = w BY <1>1, <1>4
  <2>3. l[1] = nl /\ l[2] = some /\ l[3] = cr /\ l[4] = nl BY <2>2
  <2>4. l \in Seq(Token) /\ Len(l) = 4 BY <2>1, <2>2
  <2> QED BY <1>4, <2>3, <2>4 DEF nl, cr, some
<1>5. CASE kind = "startup"
  <2> DEFINE w == <<cr, nl, some, cr, nl>>
  <2>1. w \in Seq(Token) /\ Len(w) = 5 BY <1>2, Tuple5
  <2>2. l = w BY <1>1, <1>5
  <2>3. l[1] = cr /\ l[2] = nl /\ l[3] = some /\ l[4] = cr /\ l[5] = nl BY <2>2
  <2>4. l \in Seq(Token) /\ Len(l) = 5 BY <2>1, <2>2
  <2> QED BY <1>5, <2>3, <2>4 DEF nl, cr, some
<1>6. CASE kind = "nothing"
  <2> DEFINE w == <<nl>>
  <2>1. w \in Seq(Token) /\ Len(w) = 1 BY <1>2, Tuple1
  <2>2. l = w BY <1>1, <1>6
  <2> QED BY <1>6, <2>1, <2>2 DEF nl
<1> QED BY <1>3, <1>4, <1>5, <1>6 DEF Kind

LEMMA LineProps ==
  ASSUME NEW kind \in Kind, NEW i \in Nat
  PROVE  OneColon(LineOf(kind, i), kind, i)
<1> DEFINE l == LineOf(kind, i)
<1>1. l = LineOf(kind, i) OBVIOUS
<1> HIDE DEF l
<1>2. l \in Seq(Token) /\ DOMAIN l = 1 .. Len(l) BY <1>1, Shapes
<1>3. CASE kind = "voltage"
  <2>1. /\ Len(l) = 5 /\ l[1] = <<"nl", i>> /\ l[2] = <<"Voltage", i>>
        /\ l[3] = <<":", i>> /\ l[4] = <<"cr", i>> /\ l[5] = <<"nl", i>>
    BY <1>1, <1>3, Shapes
  <2>2. \A p \in DOMAIN l : p = 1 \/ p = 2 \/ p = 3 \/ p = 4 \/ p = 5 BY <1>2, <2>1
  <2>3. \A p \in DOMAIN l : (l[p][1] = ":" => p = 3) /\ l[p][2] = i BY <2>1, <2>2
  <2> QED BY <1>2, <1>3, <2>3 DEF l, OneColon
<1>4. CASE kind = "text"
  <2>1. /\ Len(l) = 4 /\ l[1] = <<"nl", i>> /\ l[2] = <<"text", i>>
        /\ l[3] = <<"cr", i>> /\ l[4] = <<"nl", i>>
    BY <1>1, <1>4, Shapes
  <2>2. \A p \in DOMAIN l : p = 1 \/ p = 2 \/ p = 3 \/ p = 4 BY <1>2, <2>1
  <2>3. \A p \in DOMAIN l : l[p][1] # ":" BY <2>1, <2>2
  <2> QED BY <1>2, <2>3 DEF l, OneColon
<1>5. CASE kind = "startup"
  <2>1. /\ Len(l) = 5 /\ l[1] = <<"cr", i>> /\ l[2] = <<"nl", i>>
        /\ l[3] = <<"text", i>> /\ l[4] = <<"cr", i>> /\ l[5] = <<"nl", i>>
    BY <1>1, <1>5, Shapes
  <2>2. \A p \in DOMAIN l : p = 1 \/ p = 2 \/ p = 3 \/ p = 4 \/ p = 5 BY <1>2, <2>1
  <2>3. \A p \in DOMAIN l : l[p][1] # ":" BY <2>1, <2>2
  <2> QED BY <1>2, <2>3 DEF l, OneColon
<1>6. CASE kind = "nothing"
  <2>1. \A p \in DOMAIN l : p = 1 BY <1>1, <1>2, <1>6, Shapes
  <2>2. l[1] = <<"nl", i>> BY <1>1, <1>6, Shapes
  <2>3. \A p \in DOMAIN l : l[p][1] # ":" BY <2>1, <2>2
  <2> QED BY <1>2, <2>3 DEF l, OneColon
<1> QED BY <1>3, <1>4, <1>5, <1>6 DEF Kind

LEMMA RemoveProps ==
  ASSUME NEW T, NEW s \in Seq(T), NEW d \in 1 .. Len(s)
  PROVE  /\ RemoveAt(s, d) \in Seq(T) /\ Len(RemoveAt(s, d)) = Len(s) - 1
         /\ \A p \in 1 .. Len(s) - 1 :
              RemoveAt(s, d)[p] = IF p <= d - 1 THEN s[p] ELSE s[p + 1]
<1> DEFINE m == d - 1
<1>1. d \in 0 .. Len(s) /\ m \in 0 .. d OBVIOUS
<1>2. d - m = 1 OBVIOUS
<1>3. RemoveAt(s, d) = Without(s, m, d) BY DEF RemoveAt, Without
<1> HIDE DEF m
<1>4. /\ Without(s, m, d) \in Seq(T)
      /\ Len(Without(s, m, d)) = Len(s) - (d - m)
      /\ \A p \in 1 .. Len(s) - (d - m) :
           Without(s, m, d)[p] = IF p <= m THEN s[p] ELSE s[p + (d - m)]
  BY <1>1, WithoutProps
<1> QED BY <1>2, <1>3, <1>4 DEF m

\* The token inserted is nowhere else: what matters is where the others go.
LEMMA InsertProps ==
  ASSUME NEW T, NEW s \in Seq(T), NEW d \in 1 .. Len(s), NEW e \in T
  PROVE  /\ InsertAt(s, d, e) \in Seq(T) /\ Len(InsertAt(s, d, e)) = Len(s) + 1
         /\ \A p \in 1 .. Len(s) + 1 :
              InsertAt(s, d, e)[p] = IF p < d THEN s[p] ELSE IF p = d THEN e ELSE s[p - 1]
<1> DEFINE u == SubSeq(s, 1, d - 1)
           v == SubSeq(s, d, Len(s))
<1>1. /\ u \in Seq(T) /\ Len(u) = d - 1 /\ \A p \in 1 .. d - 1 : u[p] = s[p]
  <2>1. 1 \in 1 .. Len(s) + 1 /\ d - 1 \in 1 - 1 .. Len(s) OBVIOUS
  <2>2. /\ u \in Seq(T) /\ Len(u) = d - 1 - 1 + 1
        /\ \A p \in 1 .. d - 1 - 1 + 1 : u[p] = s[1 + p - 1]
    BY <2>1, Piece
  <2> QED BY <2>2
<1>2. /\ v \in Seq(T) /\ Len(v) = Len(s) - d + 1
      /\ \A p \in 1 .. Len(s) - d + 1 : v[p] = s[p + d - 1]
  <2>1. d \in 1 .. Len(s) + 1 /\ Len(s) \in d - 1 .. Len(s) OBVIOUS
  <2>2. /\ v \in Seq(T) /\ Len(v) = Len(s) - d + 1
        /\ \A p \in 1 .. Len(s) - d + 1 : v[p] = s[d + p - 1]
    BY <2>1, Piece
  <2> QED BY <2>2
<1>3. InsertAt(s, d, e) = (u \o <<e>>) \o v BY DEF InsertAt
<1>4. u \o <<e>> = Append(u, e) BY <1>1, AppendIsConcat
<1> HIDE DEF u, v
<1> DEFINE w == Append(u, e)
<1>5. /\ w \in Seq(T) /\ Len(w) = d /\ \A p \in 1 .. d - 1 : w[p] = s[p]
      /\ w[d] = e
  <2>1. /\ w \in Seq(T) /\ Len(w) = Len(u) + 1 /\ \A p \in 1 .. Len(u) : w[p] = u[p]
        /\ w[Len(u) + 1] = e
    BY <1>1, AppendProperties
  <2> QED BY <1>1, <2>1
<1>6. InsertAt(s, d, e) = w \o v BY <1>3, <1>4
<1> HIDE DEF w
<1>7. /\ w \o v \in Seq(T) /\ Len(w \o v) = Len(w) + Len(v)
      /\ \A p \in 1 .. Len(w) + Len(v) : (w \o v)[p] = IF p <= Len(w) THEN w[p] ELSE v[p - Len(w)]
  BY <1>2, <1>5, ConcatProperties
<1>8. ASSUME NEW p \in 1 .. Len(s) + 1
      PROVE  (w \o v)[p] = IF p < d THEN s[p] ELSE IF p = d THEN e ELSE s[p - 1]
  <2>1. p \in 1 .. Len(w) + Len(v) /\ Len(s) \in Nat BY <1>2, <1>5
  <2>2. CASE p <= d
    <3>1. (w \o v)[p] = w[p] BY <1>5, <1>7, <2>1, <2>2
    <3> QED BY <1>5, <2>2, <3>1
  <2>3. CASE p > d
    <3>1. p - d \in 1 .. Len(s) - d + 1 /\ (p - d) + d - 1 = p - 1 BY <2>1, <2>3
    <3>2. (w \o v)[p] = v[p - d] BY <1>5, <1>7, <2>1, <2>3
    <3>3. v[p - d] = s[(p - d) + d - 1] BY <1>2, <3>1
    <3> QED BY <2>3, <3>1, <3>2, <3>3
  <2> QED BY <2>1, <2>2, <2>3
<1> QED BY <1>2, <1>5, <1>6, <1>7, <1>8

LEMMA FaultyProps ==
  ASSUME NEW kind \in Kind, NEW i \in Nat, NEW l \in Faulty(LineOf(kind, i))
  PROVE  OneColon(l, kind, i)
<1> DEFINE s == LineOf(kind, i)
<1>1. OneColon(s, kind, i) BY LineProps
<1>2. l \in Faulty(s) OBVIOUS
<1> HIDE DEF s
<1>3. s \in Seq(Token) /\ DOMAIN s = 1 .. Len(s) /\ Len(s) \in Nat BY <1>1 DEF OneColon
<1>6. s \in Seq(Token) BY <1>3
<1>4. CASE \E d \in DOMAIN s : l = RemoveAt(s, d)
  <2>1. PICK d \in 1 .. Len(s) : l = RemoveAt(s, d) BY <1>3, <1>4
  <2>2. /\ l \in Seq(Token) /\ DOMAIN l = 1 .. Len(s) - 1
        /\ \A p \in 1 .. Len(s) - 1 : l[p] = IF p <= d - 1 THEN s[p] ELSE s[p + 1]
    <3>1. /\ RemoveAt(s, d) \in Seq(Token) /\ Len(RemoveAt(s, d)) = Len(s) - 1
          /\ \A p \in 1 .. Len(s) - 1 :
               RemoveAt(s, d)[p] = IF p <= d - 1 THEN s[p] ELSE s[p + 1]
      BY <1>3, RemoveProps
    <3> QED BY <2>1, <3>1
  <2> DEFINE old(p) == IF p <= d - 1 THEN p ELSE p + 1
  <2>3. \A p \in DOMAIN l : old(p) \in DOMAIN s /\ l[p] = s[old(p)] BY <1>3, <2>2
  <2>4. \A p, q \in DOMAIN l : old(p) = old(q) => p = q BY <2>2
  <2> HIDE DEF old
  <2>5. \A p \in DOMAIN l : l[p][1] = ":" => l[p][2] = i /\ kind = "voltage"
    BY <1>1, <2>3 DEF OneColon
  <2>6. ASSUME NEW p \in DOMAIN l, NEW q \in DOMAIN l, l[p][1] = ":", l[q][1] = ":"
        PROVE  p = q
    <3>1. old(p) = old(q) BY <1>1, <2>3, <2>6 DEF OneColon
    <3> QED BY <2>4, <3>1
  <2> QED BY <2>2, <2>5, <2>6 DEF OneColon
<1>5. CASE \E d \in DOMAIN s : l = InsertAt(s, d, Nul)
  <2>0. Nul \in Token /\ Nul[1] # ":" BY DEF Nul, Token, Name
  <2>9. Nul \in Token BY <2>0
  <2>1. PICK d \in 1 .. Len(s) : l = InsertAt(s, d, Nul) BY <1>3, <1>5
  <2>2. /\ l \in Seq(Token) /\ DOMAIN l = 1 .. Len(s) + 1
        /\ \A p \in 1 .. Len(s) + 1 :
             l[p] = IF p < d THEN s[p] ELSE IF p = d THEN Nul ELSE s[p - 1]
    <3>1. /\ InsertAt(s, d, Nul) \in Seq(Token) /\ Len(InsertAt(s, d, Nul)) = Len(s) + 1
          /\ \A p \in 1 .. Len(s) + 1 :
               InsertAt(s, d, Nul)[p] = IF p < d THEN s[p] ELSE IF p = d THEN Nul ELSE s[p - 1]
      BY <1>6, <2>9, InsertProps
    <3> QED BY <2>1, <3>1
  <2> DEFINE old(p) == IF p < d THEN p ELSE p - 1
  <2>3. \A p \in DOMAIN l \ {d} : old(p) \in DOMAIN s /\ l[p] = s[old(p)] BY <1>3, <2>2
  <2>4. \A p, q \in DOMAIN l \ {d} : old(p) = old(q) => p = q BY <2>2
  <2>5. \A p \in DOMAIN l : l[p][1] = ":" => p # d BY <2>0, <2>2
  <2> HIDE DEF old
  <2>6. \A p \in DOMAIN l : l[p][1] = ":" => l[p][2] = i /\ kind = "voltage"
    BY <1>1, <2>3, <2>5 DEF OneColon
  <2>7. ASSUME NEW p \in DOMAIN l, NEW q \in DOMAIN l, l[p][1] = ":", l[q][1] = ":"
        PROVE  p = q
    <3>1. p \in DOMAIN l \ {d} /\ q \in DOMAIN l \ {d} BY <2>5, <2>7
    <3>2. old(p) = old(q) BY <1>1, <2>3, <2>7, <3>1 DEF OneColon
    <3> QED BY <2>4, <3>1, <3>2
  <2> QED BY <2>2, <2>6, <2>7 DEF OneColon
<1> QED BY <1>2, <1>4, <1>5 DEF Faulty

-----------------------------------------------------------------------------
\* The colons of a stream belong to voltage lines, in the order of the lines,
\* and every value handled is of a line before them.
Ordered(s) ==
  /\ \A p \in At(s, ":") : s[p][2] \in DOMAIN sent /\ sent[s[p][2]] = "voltage"
  /\ \A p, q \in At(s, ":") : p < q => s[p][2] < s[q][2]
Behind(s) == \A k \in DOMAIN handled, p \in At(s, ":") : handled[k] < s[p][2]

OrderInv == ReceiveType /\ Ordered(Stream) /\ Behind(Stream) /\ InOrder

\* A stream of which a piece is cut out.
LEMMA OrderedWithout ==
  ASSUME NEW s \in Seq(Token), NEW k \in 0 .. Len(s), NEW m \in 0 .. k, Ordered(s)
  PROVE  /\ Ordered(Without(s, m, k)) /\ (Behind(s) => Behind(Without(s, m, k)))
         /\ \A p \in At(Without(s, m, k), ":") :
              \E q \in At(s, ":") : s[q] = Without(s, m, k)[p] /\ (q <= m \/ q > k)
<1> DEFINE t == Without(s, m, k)
           old(p) == IF p <= m THEN p ELSE p + (k - m)
<1>1. /\ t \in Seq(Token) /\ Len(t) = Len(s) - (k - m)
      /\ \A p \in 1 .. Len(s) - (k - m) : t[p] = IF p <= m THEN s[p] ELSE s[p + (k - m)]
  BY WithoutProps
<1> HIDE DEF t
<1>2. \A p \in 1 .. Len(t) : old(p) \in 1 .. Len(s) /\ (old(p) <= m \/ old(p) > k)
  BY <1>1
<1>3. \A p, q \in 1 .. Len(t) : p < q => old(p) < old(q) BY <1>1
<1>4. \A p \in 1 .. Len(t) : t[p] = s[old(p)] BY <1>1
<1> HIDE DEF old
<1>5. At(t, ":") = {p \in 1 .. Len(t) : t[p][1] = ":"} /\ At(s, ":") = {p \in 1 .. Len(s) : s[p][1] = ":"}
  BY <1>1 DEF At
<1>6. \A p \in At(t, ":") : p \in 1 .. Len(t) /\ old(p) \in At(s, ":") /\ t[p] = s[old(p)]
  BY <1>2, <1>4, <1>5
<1>7. Ordered(t) BY <1>3, <1>6 DEF Ordered
<1>8. Behind(s) => Behind(t) BY <1>6 DEF Behind
<1>9. \A p \in At(t, ":") : \E q \in At(s, ":") : s[q] = t[p] /\ (q <= m \/ q > k)
  BY <1>2, <1>6
<1> QED BY <1>7, <1>8, <1>9 DEF t

\* What a read leaves of the stream: it loses at most what stands behind a zero byte.
LEMMA UpToNulProps ==
  ASSUME NEW s \in Seq(Token)
  PROVE  \E m \in 0 .. Len(s) : UpToNul(s) = SubSeq(s, 1, m)
<1>1. CASE At(s, "nul") = {}
  <2>1. UpToNul(s) = SubSeq(s, 1, Len(s)) BY <1>1, SubSeqFull DEF UpToNul
  <2> QED BY <2>1
<1>2. CASE At(s, "nul") # {}
  <2>1. Min(At(s, "nul")) \in At(s, "nul") BY <1>2, AtProps
  <2>2. Min(At(s, "nul")) \in 1 .. Len(s) BY <2>1 DEF At
  <2>3. Min(At(s, "nul")) - 1 \in 0 .. Len(s) BY <2>2
  <2> QED BY <1>2, <2>3 DEF UpToNul
<1> QED BY <1>1, <1>2

LEMMA ReadStream ==
  ASSUME ReceiveType, ReadData
  PROVE  /\ ReceiveType'
         /\ \E k \in 0 .. Len(Stream) : \E m \in 0 .. k : Stream' = Without(Stream, m, k)
<1>1. PICK n \in 1 .. Len(wire) :
        /\ readBuf' = UpToNul(readBuf \o SubSeq(wire, 1, n))
        /\ wire' = SubSeq(wire, n + 1, Len(wire))
  BY DEF ReadData
<1>2. readBuf \in Seq(Token) /\ wire \in Seq(Token) BY DEF ReceiveType
<1> DEFINE a == SubSeq(wire, 1, n)
           b == SubSeq(wire, n + 1, Len(wire))
           u == readBuf \o a
<1>3. a \in Seq(Token) /\ Len(a) = n /\ b \in Seq(Token) BY <1>2, Piece
<1>4. wire = a \o b BY <1>2, InTwo
<1>5. u \in Seq(Token) BY <1>2, <1>3, ConcatProperties
<1>6. Stream = u \o b
  <2>1. a \in Seq(Token) /\ b \in Seq(Token) BY <1>3
  <2> HIDE DEF a, b
  <2> QED BY <1>2, <1>4, <2>1, Regroup DEF Stream
<1>7. PICK m \in 0 .. Len(u) : UpToNul(u) = SubSeq(u, 1, m) BY <1>5, UpToNulProps
<1>8. Stream' = SubSeq(u, 1, m) \o b BY <1>1, <1>7 DEF Stream
<1>9. ReceiveType'
  <2>1. wire' \in Seq(Token) BY <1>1, <1>3
  <2>2. readBuf' = SubSeq(u, 1, m) BY <1>1, <1>7
  <2>3. 1 \in 1 .. Len(u) + 1 /\ m \in 1 - 1 .. Len(u) BY <1>5
  <2>4. SubSeq(u, 1, m) \in Seq(Token) BY <1>5, <2>3, Piece
  <2> QED BY <2>1, <2>2, <2>4 DEF ReceiveType, ReadData
<1> HIDE DEF a, b, u
<1>10. Len(u) \in 0 .. Len(Stream) /\ m \in 0 .. Len(u)
  BY <1>3, <1>5, <1>6, ConcatProperties
<1>11. Without(Stream, m, Len(u)) = SubSeq(u, 1, m) \o b
  <2>1. SubSeq(u \o b, 1, m) = SubSeq(u, 1, m)
    <3>1. CASE m = 0 BY <3>1, SubSeqEmpty
    <3>2. CASE m > 0
      <4>1. 1 \in 1 .. Len(u) /\ m \in 1 .. Len(u) BY <1>5, <3>2
      <4> QED BY <1>3, <1>5, <4>1, SubSeqOfConcat1
    <3> QED BY <3>1, <3>2
  <2>2. SubSeq(u \o b, Len(u) + 1, Len(u \o b)) = b BY <1>3, <1>5, ConcatTail
  <2> QED BY <1>6, <2>1, <2>2 DEF Without
<1> QED BY <1>8, <1>9, <1>10, <1>11

\* The end of the line CmdParse_ProcessString looks at, and the newline in front.
LineEnd == Min(At(readBuf, "cr"))
Front1 == IF readBuf[1][1] = "nl" THEN 1 ELSE 0

LEMMA ParseStream ==
  ASSUME ReceiveType, Parse, At(readBuf, "cr") # {}
  PROVE  /\ LineEnd \in 1 .. Len(readBuf) /\ readBuf[LineEnd][1] = "cr"
         /\ \A p \in 1 .. LineEnd - 1 : readBuf[p][1] # "cr"
         /\ Front1 \in 0 .. LineEnd - 1
         /\ readBuf' = Without(readBuf, Front1, LineEnd) /\ wire' = wire
         /\ Stream' = Without(Stream, Front1, LineEnd)
         /\ handled' = IF Took(LineEnd) /\ Colons(LineEnd) # {}
                         THEN Append(handled, readBuf[Min(Colons(LineEnd))][2]) ELSE handled
         /\ Colons(LineEnd) # {} =>
              /\ Min(Colons(LineEnd)) \in At(readBuf, ":")
              /\ Min(Colons(LineEnd)) \in Front1 + 1 .. LineEnd - 1
              /\ \A p \in Colons(LineEnd) : Min(Colons(LineEnd)) <= p
         /\ ReceiveType'
<1>1. readBuf \in Seq(Token) /\ wire \in Seq(Token) BY DEF ReceiveType
<1>2. /\ LineEnd \in 1 .. Len(readBuf) /\ readBuf[LineEnd][1] = "cr"
      /\ \A p \in 1 .. LineEnd - 1 : readBuf[p][1] # "cr"
  <2>1. At(readBuf, "cr") = {p \in 1 .. Len(readBuf) : readBuf[p][1] = "cr"}
    BY <1>1 DEF At
  <2>2. LineEnd \in At(readBuf, "cr") /\ \A p \in At(readBuf, "cr") : LineEnd <= p
    BY <2>1, MinIsLeast DEF LineEnd
  <2> QED BY <1>1, <2>1, <2>2
<1>3. Front1 \in 0 .. LineEnd - 1
  <2>1. CASE readBuf[1][1] = "nl" /\ LineEnd = 1 BY <1>2, <2>1
  <2> QED BY <1>2, <2>1 DEF Front1
<1>4. /\ readBuf' = Leftover(LineEnd, Took(LineEnd)) /\ wire' = wire
      /\ handled' = IF Took(LineEnd) /\ Colons(LineEnd) # {}
                      THEN Append(handled, readBuf[Min(Colons(LineEnd))][2]) ELSE handled
      /\ UNCHANGED <<sent, text, faults, junk>>
  BY DEF Parse, ProcessLine, LineEnd
<1>5. readBuf' = Without(readBuf, Front1, LineEnd)
  BY <1>4 DEF Leftover, Without, Front1
<1>6. LineEnd \in 0 .. Len(readBuf) /\ Front1 \in 0 .. LineEnd BY <1>2, <1>3
<1>7. Stream' = Without(Stream, Front1, LineEnd)
  BY <1>1, <1>4, <1>5, <1>6, WithoutConcat DEF Stream
<1>8. ASSUME Colons(LineEnd) # {}
      PROVE  /\ Min(Colons(LineEnd)) \in At(readBuf, ":")
             /\ Min(Colons(LineEnd)) \in Front1 + 1 .. LineEnd - 1
             /\ \A p \in Colons(LineEnd) : Min(Colons(LineEnd)) <= p
  <2>1. Colons(LineEnd) = {p \in 1 .. Len(readBuf) : readBuf[p][1] = ":" /\ p < LineEnd}
    BY <1>1 DEF Colons, At
  <2>2. /\ Min(Colons(LineEnd)) \in Colons(LineEnd)
        /\ \A p \in Colons(LineEnd) : Min(Colons(LineEnd)) <= p
    BY <1>8, <2>1, MinIsLeast
  <2>3. \A p \in Colons(LineEnd) : p \in At(readBuf, ":") /\ p \in Front1 + 1 .. LineEnd - 1
    <3> SUFFICES ASSUME NEW p \in Colons(LineEnd)
                 PROVE  p \in At(readBuf, ":") /\ p \in Front1 + 1 .. LineEnd - 1
      OBVIOUS
    <3>1. p \in 1 .. Len(readBuf) /\ readBuf[p][1] = ":" /\ p < LineEnd BY <2>1
    <3>2. p = 1 => Front1 = 0 BY <3>1 DEF Front1
    <3>3. Front1 \in {0, 1} BY DEF Front1
    <3>4. p \in Front1 + 1 .. LineEnd - 1 BY <1>2, <3>1, <3>2, <3>3
    <3>5. p \in At(readBuf, ":") BY <1>1, <3>1 DEF At
    <3> QED BY <3>4, <3>5
  <2> QED BY <2>2, <2>3
<1>9. ReceiveType'
  <2>1. readBuf' \in Seq(Token) BY <1>1, <1>5, <1>6, WithoutProps
  <2>2. handled' \in Seq(Nat)
    <3>1. CASE Took(LineEnd) /\ Colons(LineEnd) # {}
      <4>1. Min(Colons(LineEnd)) \in 1 .. Len(readBuf) BY <1>1, <1>8, <3>1 DEF At
      <4>2. readBuf[Min(Colons(LineEnd))] \in Token BY <1>1, <4>1
      <4>3. readBuf[Min(Colons(LineEnd))][2] \in Nat BY <4>2, TokenProps
      <4> QED BY <1>4, <3>1, <4>3 DEF ReceiveType
    <3> QED BY <1>4, <3>1 DEF ReceiveType
  <2> QED BY <1>1, <1>4, <2>1, <2>2 DEF ReceiveType
<1> QED BY <1>2, <1>3, <1>4, <1>5, <1>7, <1>8, <1>9

LEMMA OrderInit == Init => OrderInv
<1> SUFFICES ASSUME Init PROVE OrderInv OBVIOUS
<1>1. readBuf \in Seq(Token) /\ \A p \in DOMAIN readBuf : readBuf[p][1] # ":"
  <2> DEFINE J == {<<"text", 0>>, <<"cr", 0>>}
  <2>1. \A x \in J : x \in Token /\ x[1] # ":" BY DEF Token, Name
  <2>2. CASE readBuf \in UNION {[1 .. n -> J] : n \in 0 .. MaxJunk}
    <3>1. PICK n \in 0 .. MaxJunk : readBuf \in [1 .. n -> J] BY <2>2
    <3>2. n \in Nat OBVIOUS
    <3> HIDE DEF J
    <3>3. \A p \in 1 .. n : readBuf[p] \in J BY <3>1
    <3>4. DOMAIN readBuf = 1 .. n /\ \A p \in 1 .. n : readBuf[p] \in Token /\ readBuf[p][1] # ":"
      BY <2>1, <3>1, <3>3
    <3>5. readBuf = [p \in 1 .. n |-> readBuf[p]] BY <3>1
    <3>6. readBuf \in [1 .. n -> Token] BY <3>4, <3>5
    <3> QED BY <3>2, <3>4, <3>6
  <2>3. CASE \E last \in {"text", "cr"} :
               readBuf = [i \in 1 .. Capacity |-> <<IF i = Capacity THEN last ELSE "text", 0>>]
    <3>1. PICK last \in {"text", "cr"} :
             readBuf = [i \in 1 .. Capacity |-> <<IF i = Capacity THEN last ELSE "text", 0>>]
      BY <2>3
    <3>2. \A i \in 1 .. Capacity : readBuf[i] \in J BY <3>1
    <3>3. Capacity \in Nat /\ DOMAIN readBuf = 1 .. Capacity BY <3>1, ReceiveAssumption
    <3> HIDE DEF J
    <3>4. \A p \in 1 .. Capacity : readBuf[p] \in Token /\ readBuf[p][1] # ":" BY <2>1, <3>2
    <3>5. readBuf = [p \in 1 .. Capacity |-> readBuf[p]] BY <3>1
    <3>6. readBuf \in [1 .. Capacity -> Token] BY <3>4, <3>5
    <3> QED BY <3>3, <3>4, <3>6
  <2> QED BY <2>2, <2>3 DEF Init
<1>2. /\ junk = readBuf /\ wire = <<>> /\ sent = <<>> /\ text = <<>> /\ handled = <<>> /\ faults = 0
  BY DEF Init
<1>3. ReceiveType BY <1>1, <1>2 DEF ReceiveType
<1>4. Stream = readBuf BY <1>1, <1>2, ConcatEmptySeq DEF Stream
<1>5. At(Stream, ":") = {} BY <1>1, <1>4 DEF At
<1> QED BY <1>2, <1>3, <1>5 DEF OrderInv, Ordered, Behind, InOrder

LEMMA SendStream ==
  ASSUME ReceiveType, NEW kind \in Kind, Send(kind)
  PROVE  /\ ReceiveType' /\ sent' = Append(sent, kind) /\ handled' = handled
         /\ \E l \in Seq(Token) : OneColon(l, kind, Len(sent) + 1) /\ Stream' = Stream \o l
<1>1. /\ readBuf \in Seq(Token) /\ wire \in Seq(Token) /\ text \in Seq(Token)
      /\ sent \in Seq(Kind) /\ Len(sent) + 1 \in Nat
  BY DEF ReceiveType
<1>2. sent' = Append(sent, kind) /\ Len(sent') = Len(sent) + 1 /\ sent' \in Seq(Kind)
  BY <1>1 DEF Send
<1> DEFINE line == LineOf(kind, Len(sent'))
<1>3. OneColon(line, kind, Len(sent) + 1) /\ line \in Seq(Token)
  BY <1>1, <1>2, LineProps DEF OneColon
<1>4. PICK l : l \in {line} \cup Faulty(line) /\ wire' = wire \o l /\ faults' \in {faults, faults + 1}
  BY DEF Send
<1>5. OneColon(l, kind, Len(sent) + 1) BY <1>1, <1>2, <1>3, <1>4, FaultyProps
<1>6. l \in Seq(Token) BY <1>5 DEF OneColon
<1>7. text' = text \o line /\ UNCHANGED <<readBuf, handled, junk>> BY DEF Send
<1> HIDE DEF line
<1>8. text' \in Seq(Token) /\ wire' \in Seq(Token)
  BY <1>1, <1>3, <1>4, <1>6, <1>7, ConcatProperties
<1>9. readBuf \o wire' = (readBuf \o wire) \o l
  <2>1. readBuf \in Seq(Token) /\ wire \in Seq(Token) BY <1>1
  <2>2. wire' = wire \o l BY <1>4
  <2>3. (readBuf \o wire) \o l = readBuf \o (wire \o l) BY <1>6, <2>1, ConcatAssociative
  <2> QED BY <2>2, <2>3
<1>10. Stream' = Stream \o l BY <1>7, <1>9 DEF Stream
<1>11. faults' \in Nat BY <1>4 DEF ReceiveType
<1>12. ReceiveType' BY <1>2, <1>7, <1>8, <1>11 DEF ReceiveType
<1> QED BY <1>2, <1>5, <1>6, <1>7, <1>10, <1>12

LEMMA SendOrder == ASSUME OrderInv, NEW kind \in Kind, Send(kind) PROVE OrderInv'
<1>1. ReceiveType /\ Ordered(Stream) /\ Behind(Stream) /\ InOrder BY DEF OrderInv
<1>2. /\ ReceiveType' /\ sent' = Append(sent, kind) /\ handled' = handled BY <1>1, SendStream
<1>3. PICK l \in Seq(Token) : OneColon(l, kind, Len(sent) + 1) /\ Stream' = Stream \o l
  BY <1>1, SendStream
<1> DEFINE s == Stream
           t == s \o l
<1>4. s \in Seq(Token) BY <1>1, ConcatProperties DEF ReceiveType, Stream
<1> HIDE DEF s
<1>5. /\ t \in Seq(Token) /\ Len(t) = Len(s) + Len(l)
      /\ \A p \in 1 .. Len(s) + Len(l) : t[p] = IF p <= Len(s) THEN s[p] ELSE l[p - Len(s)]
  BY <1>4, ConcatProperties
<1> HIDE DEF t
<1>6. /\ sent \in Seq(Kind) /\ DOMAIN sent = 1 .. Len(sent) /\ DOMAIN sent' = 1 .. Len(sent) + 1
      /\ \A i \in 1 .. Len(sent) : sent'[i] = sent[i]
      /\ sent'[Len(sent) + 1] = kind /\ Len(sent) \in Nat
  BY <1>1, <1>2 DEF ReceiveType
<1>7. At(s, ":") = {p \in 1 .. Len(s) : s[p][1] = ":"} /\ At(t, ":") = {p \in 1 .. Len(t) : t[p][1] = ":"}
  BY <1>4, <1>5 DEF At
<1>8. ASSUME NEW p \in At(t, ":"), p > Len(s)
      PROVE  /\ t[p] = l[p - Len(s)] /\ p - Len(s) \in DOMAIN l /\ kind = "voltage"
             /\ t[p][2] = Len(sent) + 1
  <2>1. p \in 1 .. Len(s) + Len(l) /\ t[p][1] = ":" BY <1>5, <1>7
  <2>2. t[p] = l[p - Len(s)] BY <1>5, <1>8, <2>1
  <2>3. p - Len(s) \in DOMAIN l BY <1>4, <1>8, <2>1
  <2> QED BY <1>3, <2>1, <2>2, <2>3 DEF OneColon
<1>9. ASSUME NEW p \in At(t, ":"), p <= Len(s)
      PROVE  t[p] = s[p] /\ p \in At(s, ":")
  BY <1>5, <1>7, <1>9
<1>10. \A p \in At(s, ":") : s[p][2] \in 1 .. Len(sent) /\ sent[s[p][2]] = "voltage"
  BY <1>1, <1>6 DEF Ordered, s
<1>11. \A p \in At(t, ":") : t[p][2] \in DOMAIN sent' /\ sent'[t[p][2]] = "voltage"
  <2> SUFFICES ASSUME NEW p \in At(t, ":")
               PROVE  t[p][2] \in DOMAIN sent' /\ sent'[t[p][2]] = "voltage"
    OBVIOUS
  <2>1. p \in Nat /\ Len(s) \in Nat BY <1>4, <1>7
  <2>2. CASE p > Len(s) BY <1>6, <1>8, <2>2
  <2>3. CASE p <= Len(s) BY <1>6, <1>9, <1>10, <2>3
  <2> QED BY <2>1, <2>2, <2>3
<1>12. \A p, q \in At(t, ":") : p < q => t[p][2] < t[q][2]
  <2> SUFFICES ASSUME NEW p \in At(t, ":"), NEW q \in At(t, ":"), p < q PROVE t[p][2] < t[q][2]
    OBVIOUS
  <2>1. p \in Nat /\ q \in Nat /\ Len(s) \in Nat BY <1>4, <1>7
  <2>2. CASE p > Len(s)
    <3>1. q > Len(s) BY <2>1, <2>2
    <3>2. l[p - Len(s)][1] = ":" /\ l[q - Len(s)][1] = ":" BY <1>7, <1>8, <2>2, <3>1
    <3>3. p - Len(s) = q - Len(s) BY <1>3, <1>8, <2>2, <3>1, <3>2 DEF OneColon
    <3> QED BY <2>1, <3>3
  <2>3. CASE p <= Len(s) /\ q > Len(s) BY <1>6, <1>8, <1>9, <1>10, <2>3
  <2>4. CASE q <= Len(s)
    <3>1. p <= Len(s) BY <2>1, <2>4
    <3>2. \A x, y \in At(s, ":") : x < y => s[x][2] < s[y][2] BY <1>1 DEF Ordered, s
    <3> QED BY <1>9, <2>4, <3>1, <3>2
  <2> QED BY <2>1, <2>2, <2>3, <2>4
<1>13. \A k \in DOMAIN handled : handled[k] \in 1 .. Len(sent) BY <1>1, <1>6 DEF InOrder
<1>14. \A k \in DOMAIN handled, p \in At(t, ":") : handled[k] < t[p][2]
  <2> SUFFICES ASSUME NEW k \in DOMAIN handled, NEW p \in At(t, ":") PROVE handled[k] < t[p][2]
    OBVIOUS
  <2>1. p \in Nat /\ Len(s) \in Nat BY <1>4, <1>7
  <2>2. CASE p > Len(s) BY <1>6, <1>8, <1>13, <2>2
  <2>3. CASE p <= Len(s) BY <1>1, <1>9, <2>3 DEF Behind, s
  <2> QED BY <2>1, <2>2, <2>3
<1>15. InOrder' BY <1>1, <1>2, <1>6, <1>13 DEF InOrder
<1>16. Stream' = t BY <1>3 DEF s, t
<1> QED BY <1>2, <1>11, <1>12, <1>14, <1>15, <1>16 DEF OrderInv, Ordered, Behind, At

LEMMA ReadOrder == ASSUME OrderInv, ReadData PROVE OrderInv'
<1>1. ReceiveType /\ Ordered(Stream) /\ Behind(Stream) /\ InOrder BY DEF OrderInv
<1>2. ReceiveType' BY <1>1, ReadStream
<1>3. PICK k \in 0 .. Len(Stream) : \E m \in 0 .. k : Stream' = Without(Stream, m, k)
  BY <1>1, ReadStream
<1>4. PICK m \in 0 .. k : Stream' = Without(Stream, m, k) BY <1>3
<1>5. Stream \in Seq(Token) BY <1>1, ConcatProperties DEF ReceiveType, Stream
<1>6. Ordered(Without(Stream, m, k)) /\ Behind(Without(Stream, m, k))
  BY <1>1, <1>5, OrderedWithout
<1>7. sent' = sent /\ handled' = handled BY DEF ReadData
<1> QED BY <1>1, <1>2, <1>4, <1>6, <1>7 DEF OrderInv, Ordered, Behind, InOrder

LEMMA ParseOrder == ASSUME OrderInv, Parse PROVE OrderInv'
<1>1. ReceiveType /\ Ordered(Stream) /\ Behind(Stream) /\ InOrder BY DEF OrderInv
<1>2. sent' = sent /\ wire' = wire BY DEF Parse
<1>3. CASE At(readBuf, "cr") = {}
  <2>1. UNCHANGED <<readBuf, wire, sent, text, handled, faults, junk>> BY <1>3 DEF Parse
  <2> QED BY <1>1, <2>1 DEF OrderInv, ReceiveType, Ordered, Behind, InOrder, Stream
<1>4. CASE At(readBuf, "cr") # {}
  <2>1. /\ LineEnd \in 1 .. Len(readBuf) /\ Front1 \in 0 .. LineEnd - 1
        /\ Stream' = Without(Stream, Front1, LineEnd)
        /\ handled' = IF Took(LineEnd) /\ Colons(LineEnd) # {}
                         THEN Append(handled, readBuf[Min(Colons(LineEnd))][2]) ELSE handled
        /\ Colons(LineEnd) # {} => /\ Min(Colons(LineEnd)) \in At(readBuf, ":")
                                   /\ Min(Colons(LineEnd)) \in Front1 + 1 .. LineEnd - 1
        /\ ReceiveType'
    BY <1>1, <1>4, ParseStream
  <2>2. /\ Stream \in Seq(Token) /\ readBuf \in Seq(Token) /\ Len(readBuf) <= Len(Stream)
        /\ \A p \in 1 .. Len(readBuf) : p \in 1 .. Len(Stream) /\ Stream[p] = readBuf[p]
    BY <1>1, ConcatProperties DEF ReceiveType, Stream
  <2>3. LineEnd \in 0 .. Len(Stream) /\ Front1 \in 0 .. LineEnd BY <2>1, <2>2
  <2> DEFINE t == Without(Stream, Front1, LineEnd)
  <2>4. /\ Ordered(t) /\ Behind(t)
        /\ \A p \in At(t, ":") : \E q \in At(Stream, ":") :
             Stream[q] = t[p] /\ (q <= Front1 \/ q > LineEnd)
    BY <1>1, <2>2, <2>3, OrderedWithout
  <2> HIDE DEF t
  <2>5. CASE handled' = handled
    BY <1>1, <1>2, <2>1, <2>4, <2>5 DEF OrderInv, Ordered, Behind, InOrder, t
  <2>6. CASE Took(LineEnd) /\ Colons(LineEnd) # {}
    <3> DEFINE c == Min(Colons(LineEnd))
               v == Stream[c][2]
    <3>1. c \in At(readBuf, ":") /\ c \in Front1 + 1 .. LineEnd - 1 BY <2>1, <2>6
    <3>2. handled' = Append(handled, readBuf[c][2]) BY <2>1, <2>6
    <3> HIDE DEF c
    <3>3. c \in 1 .. Len(readBuf) /\ readBuf[c][1] = ":" BY <2>2, <3>1 DEF At
    <3>4. c \in At(Stream, ":") /\ handled' = Append(handled, v) BY <2>2, <3>2, <3>3 DEF At
    <3>5. v \in DOMAIN sent /\ sent[v] = "voltage" BY <1>1, <3>4 DEF Ordered
    <3>6. \A k \in DOMAIN handled : handled[k] < v BY <1>1, <3>4 DEF Behind
    <3>7. \A p \in At(t, ":") : v < t[p][2]
      <4> SUFFICES ASSUME NEW p \in At(t, ":") PROVE v < t[p][2] OBVIOUS
      <4>1. PICK q \in At(Stream, ":") : Stream[q] = t[p] /\ (q <= Front1 \/ q > LineEnd)
        BY <2>4
      <4>2. q \in 1 .. Len(Stream) /\ Stream[q][1] = ":" BY <2>2, <4>1 DEF At
      <4>3. q > Front1
        <5>1. CASE q = 1
          <6>1. readBuf[1][1] = ":" BY <2>2, <3>3, <4>2, <5>1
          <6> QED BY <5>1, <6>1 DEF Front1
        <5>2. CASE q > 1 BY <4>2, <5>2 DEF Front1
        <5> QED BY <4>2, <5>1, <5>2
      <4>4. c < q BY <2>1, <3>1, <4>1, <4>2, <4>3
      <4> QED BY <1>1, <3>4, <4>1, <4>4 DEF Ordered
    <3> HIDE DEF v
    <3>8. v \in Nat BY <1>1, <3>5 DEF ReceiveType
    <3>9. /\ handled \in Seq(Nat) /\ Len(handled) \in Nat /\ DOMAIN handled = 1 .. Len(handled)
          /\ handled' \in Seq(Nat) /\ DOMAIN handled' = 1 .. Len(handled) + 1
          /\ \A k \in 1 .. Len(handled) : handled'[k] = handled[k]
          /\ handled'[Len(handled) + 1] = v
      BY <1>1, <3>4, <3>8 DEF ReceiveType
    <3>10. \A k \in DOMAIN handled' : handled'[k] \in DOMAIN sent' /\ sent'[handled'[k]] = "voltage"
      BY <1>1, <1>2, <3>5, <3>9 DEF InOrder
    <3>11. \A j, k \in DOMAIN handled' : j < k => handled'[j] < handled'[k]
      BY <1>1, <3>6, <3>9 DEF InOrder
    <3>12. \A k \in DOMAIN handled', p \in At(t, ":") : handled'[k] < t[p][2]
      <4> SUFFICES ASSUME NEW k \in DOMAIN handled', NEW p \in At(t, ":")
                   PROVE  handled'[k] < t[p][2]
        OBVIOUS
      <4>1. CASE k \in 1 .. Len(handled) BY <2>4, <3>9, <4>1 DEF Behind
      <4>2. CASE k = Len(handled) + 1 BY <3>7, <3>9, <4>2
      <4> QED BY <3>9, <4>1, <4>2
    <3> QED BY <1>2, <2>1, <2>4, <3>10, <3>11, <3>12 DEF OrderInv, Ordered, Behind, InOrder, t
  <2> QED BY <2>1, <2>5, <2>6
<1> QED BY <1>3, <1>4

LEMMA OrderNext == OrderInv /\ [Next]_vars => OrderInv'
<1> SUFFICES ASSUME OrderInv, [Next]_vars PROVE OrderInv' OBVIOUS
<1>1. ASSUME UNCHANGED <<readBuf, wire, sent, text, handled, faults, junk>> PROVE OrderInv'
  BY <1>1 DEF OrderInv, ReceiveType, Ordered, Behind, InOrder, Stream
<1>2. CASE ReadRefused BY <1>1, <1>2 DEF ReadRefused
<1>3. CASE Overwritten BY <1>1, <1>3 DEF Overwritten
<1>4. CASE UNCHANGED vars BY <1>1, <1>4 DEF vars
<1> QED BY <1>2, <1>3, <1>4, SendOrder, ReadOrder, ParseOrder DEF Next

\* For any size of readBuf, any reads and any number of faults of the line: values
\* arrive in the order they were sent, once each (CmdParse_ProcessString, main).
THEOREM InOrderHolds == Spec => []InOrder
<1>1. OrderInv => InOrder BY DEF OrderInv
<1> QED BY <1>1, OrderInit, OrderNext, PTL DEF Spec

-----------------------------------------------------------------------------
\* What may stand in the text a unit sends, beside one another.
TextInv ==
  /\ \A p \in DOMAIN text :
       /\ text[p][1] \in Name \ {"nul"} /\ text[p][2] \in DOMAIN sent
       /\ text[p][1] = "Voltage" => p + 1 \in DOMAIN text /\ text[p + 1][1] = ":"
       /\ text[p][1] \in {":", "text"} => p + 1 \in DOMAIN text /\ text[p + 1][1] = "cr"
       /\ text[p][1] = ":" => p - 1 \in DOMAIN text /\ text[p - 1][1] = "Voltage"
       /\ text[p][1] = "nl" =>
            \/ sent[text[p][2]] = "nothing"
            \/ p - 1 \in DOMAIN text /\ text[p - 1][1] = "cr"
            \/ p + 1 \in DOMAIN text /\ text[p + 1][1] \in {"Voltage", "text"}
  /\ \A p, q \in DOMAIN text : p < q => text[p][2] <= text[q][2]
  /\ \A i \in DOMAIN sent :
       /\ sent[i] = "voltage" => \E p \in DOMAIN text : text[p] = <<":", i>>
       /\ sent[i] # "nothing" => \E p \in DOMAIN text : text[p] = <<"cr", i>>

\* The daemon has the text from place m + 1 still before it, behind d tokens that
\* are left over: the newline in front of the last line, or of the text readBuf held
\* at first what no CR has ended yet.
Left(d, m) ==
  /\ m \in 0 .. Len(text) /\ d \in 0 .. Len(readBuf)
  /\ Len(Stream) = d + (Len(text) - m)
  /\ \A j \in 1 .. Len(text) - m : Stream[d + j] = text[m + j]
  /\ \/ /\ m = 0 /\ \A p \in 1 .. d : readBuf[p][1] \in {"text", "cr"}
        /\ d > 0 => junk # <<>> /\ readBuf[d] = Last(junk)
     \/ /\ m > 0 /\ text[m][1] = "cr"
        /\ d <= 1 /\ \A p \in 1 .. d : readBuf[p][1] = "nl"

\* The voltages before that were handled, but for one that the first text spoilt.
Consumed(m) ==
  \A q \in 1 .. m : text[q][1] = ":" =>
    \/ \E k \in DOMAIN handled : handled[k] = text[q][2]
    \/ Unended /\ \A j \in 1 .. text[q][2] - 1 : sent[j] = "nothing"

Clean == faults = 0 => \E d \in 0 .. Len(readBuf), m \in 0 .. Len(text) : Left(d, m) /\ Consumed(m)

\* Where the daemon waits, a full buffer has no end of a line.
Full ==
  /\ Len(readBuf) <= Capacity
  /\ pc = "select" /\ Len(readBuf) = Capacity => Len(junk) = Capacity \/ At(readBuf, "cr") = {}

SkipInv == ReceiveType /\ TextInv /\ Clean /\ Full

\* The same of one line.
LineText(l, kind, i) ==
  /\ l \in Seq(Token)
  /\ \A p \in DOMAIN l :
       /\ l[p][1] \in Name \ {"nul"} /\ l[p][2] = i
       /\ l[p][1] = "Voltage" => p + 1 \in DOMAIN l /\ l[p + 1][1] = ":"
       /\ l[p][1] \in {":", "text"} => p + 1 \in DOMAIN l /\ l[p + 1][1] = "cr"
       /\ l[p][1] = ":" => p - 1 \in DOMAIN l /\ l[p - 1][1] = "Voltage"
       /\ l[p][1] = "nl" =>
            \/ kind = "nothing"
            \/ p - 1 \in DOMAIN l /\ l[p - 1][1] = "cr"
            \/ p + 1 \in DOMAIN l /\ l[p + 1][1] \in {"Voltage", "text"}
  /\ kind = "voltage" => \E p \in DOMAIN l : l[p] = <<":", i>>
  /\ kind # "nothing" => \E p \in DOMAIN l : l[p] = <<"cr", i>>

LEMMA LineTextProps ==
  ASSUME NEW kind \in Kind, NEW i \in Nat
  PROVE  LineText(LineOf(kind, i), kind, i)
<1> DEFINE l == LineOf(kind, i)
<1>1. l = LineOf(kind, i) OBVIOUS
<1> HIDE DEF l
<1>2. l \in Seq(Token) /\ DOMAIN l = 1 .. Len(l) BY <1>1, Shapes
<1>3. CASE kind = "voltage"
  <2>1. /\ Len(l) = 5 /\ l[1] = <<"nl", i>> /\ l[2] = <<"Voltage", i>> /\ l[3] = <<":", i>>
        /\ l[4] = <<"cr", i>> /\ l[5] = <<"nl", i>>
    BY <1>1, <1>3, Shapes
  <2>2. \A p \in DOMAIN l : p = 1 \/ p = 2 \/ p = 3 \/ p = 4 \/ p = 5 BY <1>2, <2>1
  <2> DEFINE Local(p) ==
        /\ l[p][1] \in Name \ {"nul"} /\ l[p][2] = i
        /\ l[p][1] = "Voltage" => p + 1 \in DOMAIN l /\ l[p + 1][1] = ":"
        /\ l[p][1] \in {":", "text"} => p + 1 \in DOMAIN l /\ l[p + 1][1] = "cr"
        /\ l[p][1] = ":" => p - 1 \in DOMAIN l /\ l[p - 1][1] = "Voltage"
        /\ l[p][1] = "nl" => \/ kind = "nothing"
                             \/ p - 1 \in DOMAIN l /\ l[p - 1][1] = "cr"
                             \/ p + 1 \in DOMAIN l /\ l[p + 1][1] \in {"Voltage", "text"}
  <2>3. Local(1) /\ Local(2) BY <1>2, <2>1 DEF Name
  <2>4. Local(3) /\ Local(4) BY <1>2, <2>1 DEF Name
  <2>5. Local(5) BY <1>2, <2>1 DEF Name
  <2>6. \A p \in DOMAIN l : Local(p) BY <2>2, <2>3, <2>4, <2>5
  <2>7. l[3] = <<":", i>> /\ 3 \in DOMAIN l /\ l[4] = <<"cr", i>> /\ 4 \in DOMAIN l BY <1>2, <2>1
  <2> QED BY <1>2, <1>3, <2>6, <2>7 DEF l, LineText
<1>4. CASE kind = "text"
  <2>1. /\ Len(l) = 4 /\ l[1] = <<"nl", i>> /\ l[2] = <<"text", i>>
        /\ l[3] = <<"cr", i>> /\ l[4] = <<"nl", i>>
    BY <1>1, <1>4, Shapes
  <2>2. \A p \in DOMAIN l : p = 1 \/ p = 2 \/ p = 3 \/ p = 4 BY <1>2, <2>1
  <2> DEFINE Local(p) ==
        /\ l[p][1] \in Name \ {"nul"} /\ l[p][2] = i
        /\ l[p][1] = "Voltage" => p + 1 \in DOMAIN l /\ l[p + 1][1] = ":"
        /\ l[p][1] \in {":", "text"} => p + 1 \in DOMAIN l /\ l[p + 1][1] = "cr"
        /\ l[p][1] = ":" => p - 1 \in DOMAIN l /\ l[p - 1][1] = "Voltage"
        /\ l[p][1] = "nl" => \/ kind = "nothing"
                             \/ p - 1 \in DOMAIN l /\ l[p - 1][1] = "cr"
                             \/ p + 1 \in DOMAIN l /\ l[p + 1][1] \in {"Voltage", "text"}
  <2>3. Local(1) /\ Local(2) BY <1>2, <2>1 DEF Name
  <2>4. Local(3) /\ Local(4) BY <1>2, <2>1 DEF Name
  <2>6. \A p \in DOMAIN l : Local(p) BY <2>2, <2>3, <2>4
  <2>7. l[3] = <<"cr", i>> /\ 3 \in DOMAIN l BY <1>2, <2>1
  <2> QED BY <1>2, <1>4, <2>6, <2>7 DEF l, LineText
<1>5. CASE kind = "startup"
  <2>1. /\ Len(l) = 5 /\ l[1] = <<"cr", i>> /\ l[2] = <<"nl", i>> /\ l[3] = <<"text", i>>
        /\ l[4] = <<"cr", i>> /\ l[5] = <<"nl", i>>
    BY <1>1, <1>5, Shapes
  <2>2. \A p \in DOMAIN l : p = 1 \/ p = 2 \/ p = 3 \/ p = 4 \/ p = 5 BY <1>2, <2>1
  <2> DEFINE Local(p) ==
        /\ l[p][1] \in Name \ {"nul"} /\ l[p][2] = i
        /\ l[p][1] = "Voltage" => p + 1 \in DOMAIN l /\ l[p + 1][1] = ":"
        /\ l[p][1] \in {":", "text"} => p + 1 \in DOMAIN l /\ l[p + 1][1] = "cr"
        /\ l[p][1] = ":" => p - 1 \in DOMAIN l /\ l[p - 1][1] = "Voltage"
        /\ l[p][1] = "nl" => \/ kind = "nothing"
                             \/ p - 1 \in DOMAIN l /\ l[p - 1][1] = "cr"
                             \/ p + 1 \in DOMAIN l /\ l[p + 1][1] \in {"Voltage", "text"}
  <2>3. Local(1) /\ Local(2) BY <1>2, <2>1 DEF Name
  <2>4. Local(3) /\ Local(4) BY <1>2, <2>1 DEF Name
  <2>5. Local(5) BY <1>2, <2>1 DEF Name
  <2>6. \A p \in DOMAIN l : Local(p) BY <2>2, <2>3, <2>4, <2>5
  <2>7. l[4] = <<"cr", i>> /\ 4 \in DOMAIN l BY <1>2, <2>1
  <2> QED BY <1>2, <1>5, <2>6, <2>7 DEF l, LineText
<1>6. CASE kind = "nothing"
  <2>1. Len(l) = 1 /\ l[1] = <<"nl", i>> BY <1>1, <1>6, Shapes
  <2>2. \A p \in DOMAIN l : p = 1 BY <1>2, <2>1
  <2> QED BY <1>2, <1>6, <2>1, <2>2 DEF l, LineText, Name
<1> QED BY <1>3, <1>4, <1>5, <1>6 DEF Kind

\* Without a fault, what is sent is a line as it was meant, behind all others.
LEMMA SendClean ==
  ASSUME ReceiveType, NEW kind \in Kind, Send(kind)
  PROVE  /\ text' = text \o LineOf(kind, Len(sent) + 1)
         /\ faults' = 0 => faults = 0 /\ Stream' = Stream \o LineOf(kind, Len(sent) + 1)
<1>1. /\ readBuf \in Seq(Token) /\ wire \in Seq(Token) /\ Len(sent') = Len(sent) + 1 /\ faults \in Nat
      /\ Len(sent) + 1 \in Nat
  BY DEF ReceiveType, Send
<1> DEFINE line == LineOf(kind, Len(sent) + 1)
<1>2. /\ text' = text \o line
      /\ (wire' = wire \o line /\ faults' = faults) \/ faults' = faults + 1
      /\ readBuf' = readBuf
  BY <1>1 DEF Send
<1>3. line \in Seq(Token) BY <1>1, LineProps DEF OneColon
<1> HIDE DEF line
<1>4. (readBuf \o wire) \o line = readBuf \o (wire \o line) BY <1>1, <1>3, ConcatAssociative
<1>5. ASSUME faults' = 0 PROVE faults = 0 /\ wire' = wire \o line
  BY <1>1, <1>2, <1>5
<1> QED BY <1>2, <1>4, <1>5 DEF Stream, line

LEMMA SendText == ASSUME ReceiveType, TextInv, NEW kind \in Kind, Send(kind) PROVE TextInv'
<1> DEFINE n == Len(sent) + 1
           l == LineOf(kind, n)
           N == Len(text)
<1>1. /\ sent \in Seq(Kind) /\ text \in Seq(Token) /\ n \in Nat /\ DOMAIN sent = 1 .. Len(sent)
      /\ Len(sent) \in Nat /\ N \in Nat
  BY DEF ReceiveType
<1>2. /\ sent' = Append(sent, kind) /\ text' = text \o l BY SendStream, SendClean
<1>3. LineText(l, kind, n) /\ l \in Seq(Token) BY <1>1, LineTextProps DEF LineText
<1> HIDE DEF l
<1> DEFINE t == text \o l
<1>4. /\ t \in Seq(Token) /\ DOMAIN t = 1 .. N + Len(l) /\ Len(l) \in Nat
      /\ \A p \in 1 .. N + Len(l) : t[p] = IF p <= N THEN text[p] ELSE l[p - N]
  BY <1>1, <1>3, ConcatProperties
<1> HIDE DEF t
<1>5. /\ DOMAIN sent' = 1 .. n /\ \A i \in 1 .. Len(sent) : sent'[i] = sent[i]
      /\ sent'[n] = kind
  BY <1>1, <1>2
<1> HIDE DEF n
<1>6. n = Len(sent) + 1 BY DEF n
<1>7. \A p \in DOMAIN text : p \in DOMAIN t /\ t[p] = text[p] BY <1>1, <1>4
<1>8. \A x \in DOMAIN l : N + x \in DOMAIN t /\ t[N + x] = l[x] /\ (N + x) + 1 = N + (x + 1)
                          /\ (N + x) - 1 = N + (x - 1)
  <2> SUFFICES ASSUME NEW x \in DOMAIN l
               PROVE  N + x \in DOMAIN t /\ t[N + x] = l[x] /\ (N + x) + 1 = N + (x + 1)
                      /\ (N + x) - 1 = N + (x - 1)
    OBVIOUS
  <2>1. x \in 1 .. Len(l) BY <1>3
  <2>2. N + x \in 1 .. N + Len(l) /\ N + x > N /\ (N + x) - N = x BY <1>1, <2>1
  <2> QED BY <1>1, <1>4, <2>1, <2>2
<1>9. \A p \in DOMAIN t : p \in DOMAIN text \/ \E x \in DOMAIN l : p = N + x
  <2> SUFFICES ASSUME NEW p \in DOMAIN t, p \notin DOMAIN text PROVE \E x \in DOMAIN l : p = N + x
    OBVIOUS
  <2>1. p \in 1 .. N + Len(l) /\ p > N BY <1>1, <1>4
  <2>2. p - N \in DOMAIN l /\ p = N + (p - N) BY <1>1, <1>3, <2>1
  <2> QED BY <2>2
<1> HIDE DEF N
<1> DEFINE Local(p) ==
      /\ t[p][1] \in Name \ {"nul"} /\ t[p][2] \in DOMAIN sent'
      /\ t[p][1] = "Voltage" => p + 1 \in DOMAIN t /\ t[p + 1][1] = ":"
      /\ t[p][1] \in {":", "text"} => p + 1 \in DOMAIN t /\ t[p + 1][1] = "cr"
      /\ t[p][1] = ":" => p - 1 \in DOMAIN t /\ t[p - 1][1] = "Voltage"
      /\ t[p][1] = "nl" =>
            \/ sent'[t[p][2]] = "nothing"
            \/ p - 1 \in DOMAIN t /\ t[p - 1][1] = "cr"
            \/ p + 1 \in DOMAIN t /\ t[p + 1][1] \in {"Voltage", "text"}
<1>10. ASSUME NEW p \in DOMAIN text PROVE Local(p)
  BY <1>1, <1>5, <1>6, <1>7 DEF TextInv
<1>11. ASSUME NEW x \in DOMAIN l PROVE Local(N + x)
  <2>1. /\ l[x][1] \in Name \ {"nul"} /\ l[x][2] = n
        /\ l[x][1] = "Voltage" => x + 1 \in DOMAIN l /\ l[x + 1][1] = ":"
        /\ l[x][1] \in {":", "text"} => x + 1 \in DOMAIN l /\ l[x + 1][1] = "cr"
        /\ l[x][1] = ":" => x - 1 \in DOMAIN l /\ l[x - 1][1] = "Voltage"
        /\ l[x][1] = "nl" =>
              \/ kind = "nothing"
              \/ x - 1 \in DOMAIN l /\ l[x - 1][1] = "cr"
              \/ x + 1 \in DOMAIN l /\ l[x + 1][1] \in {"Voltage", "text"}
    BY <1>3 DEF LineText
  <2> DEFINE p == N + x
  <2>2. p \in DOMAIN t /\ t[p] = l[x] /\ p + 1 = N + (x + 1) /\ p - 1 = N + (x - 1) BY <1>8
  <2> HIDE DEF p
  <2>3. x + 1 \in DOMAIN l => p + 1 \in DOMAIN t /\ t[p + 1] = l[x + 1] BY <1>8, <2>2
  <2>4. x - 1 \in DOMAIN l => p - 1 \in DOMAIN t /\ t[p - 1] = l[x - 1] BY <1>8, <2>2
  <2>5. t[p][2] \in DOMAIN sent' /\ sent'[t[p][2]] = kind BY <1>1, <1>5, <1>6, <2>1, <2>2
  <2>6. Local(p) BY <2>1, <2>2, <2>3, <2>4, <2>5
  <2> QED BY <2>6 DEF p
<1>12. \A p \in DOMAIN t : Local(p) BY <1>9, <1>10, <1>11
<1>13. \A p, q \in DOMAIN t : p < q => t[p][2] <= t[q][2]
  <2> SUFFICES ASSUME NEW p \in DOMAIN t, NEW q \in DOMAIN t, p < q PROVE t[p][2] <= t[q][2]
    OBVIOUS
  <2>1. \A r \in DOMAIN text : text[r][2] \in 1 .. Len(sent) BY <1>1 DEF TextInv
  <2>2. \A x \in DOMAIN l : l[x][2] = n BY <1>3 DEF LineText
  <2>3. p \in Nat /\ q \in Nat /\ N \in Nat /\ DOMAIN text = 1 .. N BY <1>1, <1>4 DEF N
  <2>4. CASE q \in DOMAIN text
    <3>1. p \in DOMAIN text BY <1>4, <2>3, <2>4
    <3> QED BY <1>7, <2>4, <3>1 DEF TextInv
  <2>5. CASE q \notin DOMAIN text
    <3>1. t[q][2] = n BY <1>8, <1>9, <2>2, <2>5
    <3>2. t[p][2] <= n
      <4>1. CASE p \in DOMAIN text BY <1>1, <1>6, <1>7, <2>1, <4>1
      <4>2. CASE p \notin DOMAIN text
        <5>1. t[p][2] = n BY <1>8, <1>9, <2>2, <4>2
        <5> QED BY <1>1, <1>6, <5>1
      <4> QED BY <4>1, <4>2
    <3> QED BY <3>1, <3>2
  <2> QED BY <2>4, <2>5
<1>14. ASSUME NEW i \in DOMAIN sent'
       PROVE  /\ sent'[i] = "voltage" => \E p \in DOMAIN t : t[p] = <<":", i>>
              /\ sent'[i] # "nothing" => \E p \in DOMAIN t : t[p] = <<"cr", i>>
  <2>1. CASE i \in DOMAIN sent BY <1>1, <1>5, <1>7, <2>1 DEF TextInv
  <2>2. CASE i = n BY <1>3, <1>5, <1>8, <2>2 DEF LineText
  <2> QED BY <1>1, <1>5, <1>6, <2>1, <2>2
<1>15. text' = t BY <1>2 DEF t
<1> QED BY <1>12, <1>13, <1>14, <1>15 DEF TextInv

LEMMA SkipInit == Init => SkipInv
<1> SUFFICES ASSUME Init PROVE SkipInv OBVIOUS
<1>1. ReceiveType BY OrderInit DEF OrderInv
<1>2. /\ junk = readBuf /\ wire = <<>> /\ sent = <<>> /\ text = <<>> /\ handled = <<>> /\ faults = 0
  BY DEF Init
<1>3. /\ Len(readBuf) <= Capacity /\ \A p \in DOMAIN readBuf : readBuf[p][1] \in {"text", "cr"}
  <2> DEFINE J == {<<"text", 0>>, <<"cr", 0>>}
  <2>1. \A x \in J : x[1] \in {"text", "cr"} OBVIOUS
  <2>2. CASE readBuf \in UNION {[1 .. n -> J] : n \in 0 .. MaxJunk}
    <3>1. PICK n \in 0 .. MaxJunk : readBuf \in [1 .. n -> J] BY <2>2
    <3>2. n \in Nat /\ n <= Capacity BY ReceiveAssumption
    <3> HIDE DEF J
    <3>3. DOMAIN readBuf = 1 .. n /\ \A p \in 1 .. n : readBuf[p] \in J BY <3>1
    <3>4. Len(readBuf) = n BY <3>2, <3>3
    <3> QED BY <2>1, <3>2, <3>3, <3>4
  <2>3. CASE \E last \in {"text", "cr"} :
               readBuf = [i \in 1 .. Capacity |-> <<IF i = Capacity THEN last ELSE "text", 0>>]
    <3>1. PICK last \in {"text", "cr"} :
             readBuf = [i \in 1 .. Capacity |-> <<IF i = Capacity THEN last ELSE "text", 0>>]
      BY <2>3
    <3>2. \A i \in 1 .. Capacity : readBuf[i] \in J BY <3>1
    <3>3. Capacity \in Nat /\ DOMAIN readBuf = 1 .. Capacity BY <3>1, ReceiveAssumption
    <3> HIDE DEF J
    <3>4. Len(readBuf) = Capacity BY <3>3
    <3> QED BY <2>1, <3>2, <3>3, <3>4
  <2> QED BY <2>2, <2>3 DEF Init
<1>4. TextInv BY <1>2 DEF TextInv
<1>5. Stream = readBuf /\ readBuf \in Seq(Token)
  BY <1>1, <1>2, ConcatEmptySeq DEF Stream, ReceiveType
<1>6. Left(Len(readBuf), 0) BY <1>2, <1>3, <1>5 DEF Left, Last
<1>7. Consumed(0) BY DEF Consumed
<1>8. Clean BY <1>2, <1>5, <1>6, <1>7 DEF Clean
<1>9. Full BY <1>2, <1>3 DEF Full
<1> QED BY <1>1, <1>4, <1>8, <1>9 DEF SkipInv

LEMMA SendSkip == ASSUME SkipInv, NEW kind \in Kind, Send(kind) PROVE SkipInv'
<1>1. ReceiveType /\ TextInv /\ Clean /\ Full BY DEF SkipInv
<1>2. ReceiveType' /\ TextInv' /\ sent' = Append(sent, kind) /\ handled' = handled
  BY <1>1, SendStream, SendText
<1>3. UNCHANGED <<readBuf, pc, junk>> BY DEF Send
<1>4. Full' BY <1>1, <1>3 DEF Full, At
<1>5. Clean'
  <2> DEFINE l == LineOf(kind, Len(sent) + 1)
  <2> SUFFICES ASSUME faults' = 0
               PROVE  \E d \in 0 .. Len(readBuf'), m \in 0 .. Len(text') : Left(d, m)' /\ Consumed(m)'
    BY DEF Clean
  <2>1. faults = 0 /\ text' = text \o l /\ Stream' = Stream \o l BY <1>1, SendClean
  <2>2. PICK d \in 0 .. Len(readBuf), m \in 0 .. Len(text) : Left(d, m) /\ Consumed(m)
    BY <1>1, <2>1 DEF Clean
  <2>3. /\ sent \in Seq(Kind) /\ Len(sent) + 1 \in Nat /\ text \in Seq(Token)
        /\ readBuf \in Seq(Token) /\ wire \in Seq(Token)
    BY <1>1 DEF ReceiveType
  <2>4. l \in Seq(Token) BY <2>3, LineProps DEF OneColon
  <2>5. Stream \in Seq(Token) BY <2>3, ConcatProperties DEF Stream
  <2> HIDE DEF l
  <2> DEFINE s == Stream
             t == text \o l
             u == s \o l
  <2>6. /\ t \in Seq(Token) /\ Len(t) = Len(text) + Len(l)
        /\ \A p \in 1 .. Len(text) + Len(l) :
             t[p] = IF p <= Len(text) THEN text[p] ELSE l[p - Len(text)]
    BY <2>3, <2>4, ConcatProperties
  <2>7. /\ u \in Seq(Token) /\ Len(u) = Len(s) + Len(l)
        /\ \A p \in 1 .. Len(s) + Len(l) : u[p] = IF p <= Len(s) THEN s[p] ELSE l[p - Len(s)]
    BY <2>4, <2>5, ConcatProperties
  <2>8. /\ Len(s) = d + (Len(text) - m)
        /\ \A j \in 1 .. Len(text) - m : s[d + j] = text[m + j]
        /\ \/ /\ m = 0 /\ \A p \in 1 .. d : readBuf[p][1] \in {"text", "cr"}
              /\ d > 0 => junk # <<>> /\ readBuf[d] = Last(junk)
           \/ /\ m > 0 /\ text[m][1] = "cr"
              /\ d <= 1 /\ \A p \in 1 .. d : readBuf[p][1] = "nl"
    BY <2>2 DEF Left
  <2>9. /\ Len(l) \in Nat /\ Len(text) \in Nat /\ Len(s) \in Nat /\ d \in Nat /\ m \in Nat
        /\ m <= Len(text)
    BY <2>3, <2>4, <2>5
  <2> HIDE DEF s, t, u
  <2>10. Len(u) = d + (Len(t) - m) BY <2>6, <2>7, <2>8, <2>9
  <2>11. ASSUME NEW j \in 1 .. Len(t) - m PROVE u[d + j] = t[m + j]
    <3>1. d + j \in 1 .. Len(s) + Len(l) /\ m + j \in 1 .. Len(text) + Len(l) BY <2>6, <2>8, <2>9
    <3>2. CASE m + j <= Len(text)
      <4>1. j \in 1 .. Len(text) - m /\ d + j <= Len(s) BY <2>8, <2>9, <3>2
      <4>2. u[d + j] = s[d + j] BY <2>7, <3>1, <4>1
      <4>3. t[m + j] = text[m + j] BY <2>6, <3>1, <3>2
      <4> QED BY <2>8, <4>1, <4>2, <4>3
    <3>3. CASE m + j > Len(text)
      <4>1. d + j > Len(s) /\ (d + j) - Len(s) = (m + j) - Len(text) BY <2>8, <2>9, <3>3
      <4>2. u[d + j] = l[(d + j) - Len(s)] BY <2>7, <3>1, <4>1
      <4>3. t[m + j] = l[(m + j) - Len(text)] BY <2>6, <3>1, <3>3
      <4> QED BY <4>1, <4>2, <4>3
    <3> QED BY <2>9, <3>2, <3>3
  <2>12. m > 0 => t[m] = text[m] BY <2>6, <2>9
  <2>13. text' = t /\ Stream' = u BY <2>1 DEF t, u, s
  <2>14. m \in 0 .. Len(t) BY <2>6, <2>9
  <2>15. Left(d, m)'
    BY <1>3, <2>8, <2>10, <2>11, <2>12, <2>13, <2>14 DEF Left
  <2>16. Consumed(m)'
    <3> SUFFICES ASSUME NEW q \in 1 .. m, t[q][1] = ":"
                 PROVE  \/ \E k \in DOMAIN handled : handled[k] = t[q][2]
                        \/ Unended /\ \A j \in 1 .. t[q][2] - 1 : sent'[j] = "nothing"
      BY <1>2, <1>3, <2>13 DEF Consumed, Unended
    <3>1. t[q] = text[q] /\ q \in DOMAIN text BY <2>3, <2>6, <2>9
    <3>2. text[q][2] \in 1 .. Len(sent) BY <1>1, <2>3, <3>1 DEF TextInv
    <3>3. \A j \in 1 .. text[q][2] - 1 : sent'[j] = sent[j] BY <1>2, <2>3, <3>2
    <3> QED BY <2>2, <3>1, <3>2, <3>3 DEF Consumed
  <2> QED BY <1>3, <2>13, <2>14, <2>15, <2>16
<1> QED BY <1>2, <1>4, <1>5 DEF SkipInv

LEMMA ReadSkip == ASSUME SkipInv, ReadData PROVE SkipInv'
<1>1. ReceiveType /\ TextInv /\ Clean /\ Full BY DEF SkipInv
<1>2. ReceiveType' BY <1>1, ReadStream
<1>3. UNCHANGED <<sent, text, handled, faults, junk>> /\ pc' = "parse" BY DEF ReadData
<1>4. TextInv' BY <1>1, <1>3 DEF TextInv
<1>5. PICK n \in 1 .. Len(wire) :
        /\ n <= Room /\ readBuf' = UpToNul(readBuf \o SubSeq(wire, 1, n))
        /\ wire' = SubSeq(wire, n + 1, Len(wire))
  BY DEF ReadData
<1>6. readBuf \in Seq(Token) /\ wire \in Seq(Token) BY <1>1 DEF ReceiveType
<1> DEFINE a == SubSeq(wire, 1, n)
           b == SubSeq(wire, n + 1, Len(wire))
           u == readBuf \o a
<1>7. a \in Seq(Token) /\ Len(a) = n /\ b \in Seq(Token) BY <1>6, Piece
<1>8. wire = a \o b BY <1>6, InTwo
<1>9. readBuf' = UpToNul(u) /\ wire' = b BY <1>5
<1> HIDE DEF a, b
<1>10. /\ u \in Seq(Token) /\ Len(u) = Len(readBuf) + n
       /\ \A p \in 1 .. Len(readBuf) : u[p] = readBuf[p]
  <2>1. a \in Seq(Token) BY <1>7
  <2>2. /\ u \in Seq(Token) /\ Len(u) = Len(readBuf) + Len(a)
        /\ \A p \in 1 .. Len(readBuf) + Len(a) :
             u[p] = IF p <= Len(readBuf) THEN readBuf[p] ELSE a[p - Len(readBuf)]
    BY <1>6, <2>1, ConcatProperties
  <2> HIDE DEF u
  <2>3. Len(a) = n /\ n \in Nat BY <1>7
  <2> QED BY <1>6, <2>2, <2>3
<1>11. Stream = u \o b
  <2>1. a \in Seq(Token) /\ b \in Seq(Token) BY <1>7
  <2> QED BY <1>6, <1>8, <2>1, Regroup DEF Stream
<1> HIDE DEF u
<1>12. Full'
  <2>1. PICK m \in 0 .. Len(u) : UpToNul(u) = SubSeq(u, 1, m) BY <1>10, UpToNulProps
  <2>2. Len(SubSeq(u, 1, m)) = m BY <1>10
  <2>3. Len(u) <= Capacity BY <1>5, <1>6, <1>10, ReceiveAssumption DEF Room
  <2>4. Len(readBuf') <= Capacity BY <1>9, <1>10, <2>1, <2>2, <2>3, ReceiveAssumption
  <2> QED BY <1>3, <2>4 DEF Full
<1>13. Clean'
  <2> SUFFICES ASSUME faults = 0
               PROVE  \E d \in 0 .. Len(readBuf'), m \in 0 .. Len(text) : Left(d, m)' /\ Consumed(m)
    BY <1>3 DEF Clean, Consumed, Unended
  <2>1. PICK d \in 0 .. Len(readBuf), m \in 0 .. Len(text) : Left(d, m) /\ Consumed(m)
    BY <1>1 DEF Clean
  <2>2. /\ Stream \in Seq(Token) /\ Len(readBuf) <= Len(Stream)
        /\ \A p \in 1 .. Len(readBuf) : Stream[p] = readBuf[p]
    BY <1>6, ConcatProperties DEF Stream
  <2>3. \A p \in DOMAIN Stream : Stream[p][1] # "nul"
    <3> SUFFICES ASSUME NEW p \in 1 .. Len(Stream) PROVE Stream[p][1] # "nul" BY <2>2
    <3>1. CASE p <= d
      <4>1. p \in 1 .. d /\ p \in 1 .. Len(readBuf) BY <1>6, <3>1
      <4> QED BY <2>1, <2>2, <4>1 DEF Left
    <3>2. CASE p > d
      <4>1. text \in Seq(Token) /\ Len(text) \in Nat BY <1>1 DEF ReceiveType
      <4>2. p - d \in 1 .. Len(text) - m /\ d + (p - d) = p BY <2>1, <2>2, <3>2, <4>1 DEF Left
      <4>3. Stream[p] = text[m + (p - d)] BY <2>1, <4>2 DEF Left
      <4>4. m + (p - d) \in DOMAIN text BY <4>1, <4>2
      <4> QED BY <1>1, <4>3, <4>4 DEF TextInv
    <3> QED BY <3>1, <3>2
  <2>4. \A p \in 1 .. Len(u) : p \in DOMAIN Stream /\ Stream[p] = u[p]
    BY <1>7, <1>10, <1>11, ConcatProperties
  <2>5. At(u, "nul") = {} BY <1>10, <2>3, <2>4 DEF At
  <2>6. readBuf' = u BY <1>9, <2>5 DEF UpToNul
  <2>7. Stream' = Stream BY <1>9, <1>11, <2>6 DEF Stream
  <2>8. d \in 0 .. Len(u) /\ \A p \in 1 .. d : u[p] = readBuf[p] BY <1>6, <1>10
  <2>9. Left(d, m)'
    <3>1. /\ Len(Stream) = d + (Len(text) - m) /\ m \in 0 .. Len(text)
          /\ \A j \in 1 .. Len(text) - m : Stream[d + j] = text[m + j]
      BY <2>1 DEF Left
    <3>2. \/ /\ m = 0 /\ \A p \in 1 .. d : u[p][1] \in {"text", "cr"}
             /\ d > 0 => junk # <<>> /\ u[d] = Last(junk)
          \/ /\ m > 0 /\ text[m][1] = "cr"
             /\ d <= 1 /\ \A p \in 1 .. d : u[p][1] = "nl"
      BY <2>1, <2>8 DEF Left
    <3> QED BY <1>3, <2>6, <2>7, <2>8, <3>1, <3>2 DEF Left
  <2> QED BY <2>1, <2>6, <2>8, <2>9
<1> QED BY <1>2, <1>4, <1>12, <1>13 DEF SkipInv

\* What the line ending at place e of readBuf holds, if d of its tokens are left over
\* and the text behind them begins at m + 1.
LEMMA LineOfText ==
  ASSUME ReceiveType, TextInv, NEW d \in 0 .. Len(readBuf), NEW m \in 0 .. Len(text), Left(d, m),
         NEW e \in d + 1 .. Len(readBuf), readBuf[e][1] = "cr",
         \A p \in 1 .. e - 1 : readBuf[p][1] # "cr"
  PROVE  /\ m + (e - d) \in DOMAIN text /\ text[m + (e - d)][1] = "cr"
         /\ \A x \in m + 1 .. m + (e - d) :
              /\ x \in DOMAIN text /\ (x - m) + d \in DOMAIN readBuf
              /\ text[x] = readBuf[(x - m) + d]
              /\ text[x][1] = "cr" => x = m + (e - d)
              /\ text[x][1] \in {":", "text"} => x + 1 = m + (e - d)
              /\ text[x][1] = "Voltage" => x + 2 = m + (e - d)
<1> DEFINE z == m + (e - d)
<1>1. /\ readBuf \in Seq(Token) /\ wire \in Seq(Token) /\ text \in Seq(Token)
      /\ DOMAIN text = 1 .. Len(text) /\ Len(text) \in Nat /\ Len(readBuf) \in Nat
  BY DEF ReceiveType
<1>2. /\ Len(readBuf) <= Len(Stream) /\ \A p \in 1 .. Len(readBuf) : Stream[p] = readBuf[p]
  BY <1>1, ConcatProperties DEF Stream
<1>3. /\ Len(Stream) = d + (Len(text) - m)
      /\ \A j \in 1 .. Len(text) - m : Stream[d + j] = text[m + j]
  BY DEF Left
<1>4. \A x \in m + 1 .. z : /\ x \in DOMAIN text /\ (x - m) + d \in 1 .. e
                            /\ text[x] = readBuf[(x - m) + d]
  <2> SUFFICES ASSUME NEW x \in m + 1 .. z
               PROVE  x \in DOMAIN text /\ (x - m) + d \in 1 .. e /\ text[x] = readBuf[(x - m) + d]
    OBVIOUS
  <2>4. Len(readBuf) <= d + (Len(text) - m) BY <1>2, <1>3
  <2>5. d \in Nat /\ m \in Nat /\ e \in Nat /\ e <= Len(readBuf) /\ d < e /\ x \in Int
        /\ m + 1 <= x /\ x <= m + (e - d)
    BY <1>1
  <2>1. x - m \in 1 .. Len(text) - m /\ m + (x - m) = x /\ d + (x - m) \in 1 .. e
        /\ d + (x - m) = (x - m) + d
    BY <1>1, <2>4, <2>5
  <2>2. Stream[d + (x - m)] = text[m + (x - m)] BY <1>3, <2>1
  <2>3. d + (x - m) \in 1 .. Len(readBuf) BY <1>1, <2>1
  <2> QED BY <1>1, <1>2, <2>1, <2>2, <2>3
<1>5. z \in m + 1 .. z /\ (z - m) + d = e BY <1>1
<1>6. z \in DOMAIN text /\ text[z][1] = "cr" BY <1>4, <1>5
<1>7. \A x \in m + 1 .. z : text[x][1] = "cr" => x = z
  <2> SUFFICES ASSUME NEW x \in m + 1 .. z, text[x][1] = "cr", x # z PROVE FALSE OBVIOUS
  <2>1. (x - m) + d \in 1 .. e - 1 BY <1>1
  <2>2. readBuf[(x - m) + d][1] = "cr" BY <1>4
  <2> QED BY <2>1, <2>2
<1> HIDE DEF z
<1>8. z \in Nat /\ m \in Nat BY <1>1, <1>6
<1>9. ASSUME NEW x \in m + 1 .. z, text[x][1] \in {":", "text"} PROVE x + 1 = z
  <2>1. x \in DOMAIN text BY <1>4
  <2>2. text[x + 1][1] = "cr" BY <1>9, <2>1 DEF TextInv
  <2>3. x # z BY <1>6, <1>9
  <2>4. x + 1 \in m + 1 .. z BY <1>8, <2>3
  <2> QED BY <1>7, <2>2, <2>4
<1>10. ASSUME NEW x \in m + 1 .. z, text[x][1] = "Voltage" PROVE x + 2 = z
  <2>1. x \in DOMAIN text BY <1>4
  <2>2. x + 1 \in DOMAIN text /\ text[x + 1][1] = ":" BY <1>10, <2>1 DEF TextInv
  <2>3. x # z BY <1>6, <1>10
  <2>4. x + 1 \in m + 1 .. z BY <1>8, <2>3
  <2>5. (x + 1) + 1 = z BY <1>9, <2>2, <2>4
  <2> QED BY <1>8, <2>5
<1>11. \A x \in m + 1 .. z : (x - m) + d \in DOMAIN readBuf BY <1>1, <1>4
<1>12. /\ z \in DOMAIN text /\ text[z][1] = "cr"
       /\ \A x \in m + 1 .. z :
              /\ x \in DOMAIN text /\ (x - m) + d \in DOMAIN readBuf
              /\ text[x] = readBuf[(x - m) + d]
              /\ text[x][1] = "cr" => x = z
              /\ text[x][1] \in {":", "text"} => x + 1 = z
              /\ text[x][1] = "Voltage" => x + 2 = z
  BY <1>4, <1>6, <1>7, <1>9, <1>10, <1>11
<1> QED BY <1>12 DEF z

LEMMA WithoutTokens ==
  \A s \in Seq(Token) : \A k \in 0 .. Len(s) : \A m \in 0 .. k :
    /\ Without(s, m, k) \in Seq(Token)
    /\ Len(Without(s, m, k)) = Len(s) - (k - m)
    /\ \A p \in 1 .. Len(s) - (k - m) :
         Without(s, m, k)[p] = IF p <= m THEN s[p] ELSE s[p + (k - m)]
BY WithoutProps

LEMMA FrontRemoved ==
  \A s \in Seq(Token) : \A e \in 0 .. Len(s) :
    /\ Without(s, 0, e) \in Seq(Token) /\ Len(Without(s, 0, e)) = Len(s) - e
    /\ \A p \in 1 .. Len(s) - e : Without(s, 0, e)[p] = s[p + e]
<1> SUFFICES ASSUME NEW s \in Seq(Token), NEW e \in 0 .. Len(s)
             PROVE  /\ Without(s, 0, e) \in Seq(Token) /\ Len(Without(s, 0, e)) = Len(s) - e
                    /\ \A p \in 1 .. Len(s) - e : Without(s, 0, e)[p] = s[p + e]
  OBVIOUS
<1> DEFINE w == Without(s, 0, e)
<1>1. /\ w \in Seq(Token) /\ Len(w) = Len(s) - (e - 0)
      /\ \A p \in 1 .. Len(s) - (e - 0) : w[p] = IF p <= 0 THEN s[p] ELSE s[p + (e - 0)]
  <2>1. 0 \in 0 .. e OBVIOUS
  <2> QED BY <2>1, WithoutTokens
<1> HIDE DEF w
<1>2. e - 0 = e OBVIOUS
<1>3. \A p \in 1 .. Len(s) - e : w[p] = s[p + e] BY <1>1, <1>2
<1> QED BY <1>1, <1>2, <1>3 DEF w

\* A line of the text that readBuf held at first is removed.
LEMMA JunkRemoved ==
  ASSUME ReceiveType, Parse, At(readBuf, "cr") # {}, NEW d \in 0 .. Len(readBuf), Left(d, 0),
         LineEnd <= d
  PROVE  \E c \in 0 .. Len(readBuf') : Left(c, 0)'
<1>0. PICK e \in 1 .. Len(readBuf) : e = LineEnd BY ParseStream
<1> DEFINE t == Without(Stream, 0, e)
           r == Without(readBuf, 0, e)
<1>1. /\ e \in 1 .. Len(readBuf) /\ readBuf' = Without(readBuf, Front1, e)
      /\ Stream' = Without(Stream, Front1, e)
  BY <1>0, ParseStream
<1>2. /\ readBuf \in Seq(Token) /\ wire \in Seq(Token) /\ UNCHANGED <<text, junk>>
  BY DEF ReceiveType, Parse
<1>3. Stream \in Seq(Token) /\ Len(readBuf) <= Len(Stream)
  BY <1>2, ConcatProperties DEF Stream
<1>4. e <= d /\ d \in Nat /\ e \in 1 .. d BY <1>0, <1>1, <1>2
<1>5. \A p \in 1 .. d : readBuf[p][1] \in {"text", "cr"} BY DEF Left
<1>6. Front1 = 0 BY <1>4, <1>5 DEF Front1
<1>7. e \in 0 .. Len(readBuf) /\ e \in 0 .. Len(Stream) BY <1>1, <1>3, <1>4
<1>8. Len(t) = Len(Stream) - e /\ \A p \in 1 .. Len(Stream) - e : t[p] = Stream[p + e]
  BY <1>3, <1>7, FrontRemoved
<1>9. Len(r) = Len(readBuf) - e /\ \A p \in 1 .. Len(readBuf) - e : r[p] = readBuf[p + e]
  BY <1>2, <1>7, FrontRemoved
<1> HIDE DEF t, r
<1>10. Len(t) \in Nat /\ Len(t) = Len(Stream) - e /\ Len(r) = Len(readBuf) - e BY <1>3, <1>7, <1>8, <1>9
<1>11. readBuf' = r /\ Stream' = t BY <1>1, <1>6 DEF r, t
<1>12. /\ Len(Stream) = d + Len(text) /\ Len(text) \in Nat
       /\ \A j \in 1 .. Len(text) : Stream[d + j] = text[j]
       /\ d > 0 => junk # <<>> /\ readBuf[d] = Last(junk)
  BY DEF Left, ReceiveType
<1>13. d - e \in 0 .. Len(r) BY <1>2, <1>4, <1>10
<1>14. Len(t) = (d - e) + (Len(text) - 0) BY <1>4, <1>10, <1>12
<1>15. \A j \in 1 .. Len(text) - 0 : t[(d - e) + j] = text[0 + j]
  <2> SUFFICES ASSUME NEW j \in 1 .. Len(text) PROVE t[(d - e) + j] = text[j]
    BY <1>12
  <2>1. (d - e) + j \in 1 .. Len(Stream) - e /\ ((d - e) + j) + e = d + j BY <1>4, <1>12
  <2> QED BY <1>8, <1>12, <2>1
<1>16. \A p \in 1 .. d - e : r[p] = readBuf[p + e] /\ p + e \in 1 .. d
  <2> SUFFICES ASSUME NEW p \in 1 .. d - e PROVE r[p] = readBuf[p + e] /\ p + e \in 1 .. d
    OBVIOUS
  <2>1. p \in 1 .. Len(readBuf) - e BY <1>2, <1>4
  <2> QED BY <1>4, <1>9, <2>1
<1>17. d - e > 0 => junk # <<>> /\ r[d - e] = Last(junk)
  <2> SUFFICES ASSUME d - e > 0 PROVE junk # <<>> /\ r[d - e] = Last(junk) OBVIOUS
  <2>1. d - e \in 1 .. d - e /\ (d - e) + e = d /\ d > 0 BY <1>4
  <2> QED BY <1>12, <1>16, <2>1
<1>18. \A p \in 1 .. d - e : r[p][1] \in {"text", "cr"} BY <1>5, <1>16
<1>25. \/ /\ 0 = 0 /\ \A p \in 1 .. d - e : r[p][1] \in {"text", "cr"}
          /\ d - e > 0 => junk # <<>> /\ r[d - e] = Last(junk)
       \/ /\ 0 > 0 /\ text[0][1] = "cr"
          /\ d - e <= 1 /\ \A p \in 1 .. d - e : r[p][1] = "nl"
  BY <1>17, <1>18
<1>26. 0 \in 0 .. Len(text) BY <1>12
<1>19. Left(d - e, 0)'
  BY <1>2, <1>11, <1>13, <1>14, <1>15, <1>25, <1>26 DEF Left
<1> QED BY <1>11, <1>13, <1>19

\* So is a line of the unit.
LEMMA LineRemoved ==
  ASSUME ReceiveType, TextInv, Parse, At(readBuf, "cr") # {},
         NEW d \in 0 .. Len(readBuf), NEW m \in 0 .. Len(text), Left(d, m), d < LineEnd
  PROVE  \E c \in 0 .. Len(readBuf'), n \in 0 .. Len(text) :
           n = m + (LineEnd - d) /\ Left(c, n)'
<1>0. PICK e \in 1 .. Len(readBuf) : e = LineEnd BY ParseStream
<1>30. PICK f \in 0 .. e - 1 : f = Front1 BY <1>0, ParseStream
<1> DEFINE z == m + (e - d)
           t == Without(Stream, f, e)
           r == Without(readBuf, f, e)
<1>1. /\ e \in 1 .. Len(readBuf) /\ readBuf[e][1] = "cr" /\ f \in 0 .. e - 1
      /\ readBuf' = r /\ Stream' = t
      /\ \A p \in 1 .. e - 1 : readBuf[p][1] # "cr"
  BY <1>0, <1>30, ParseStream
<1>2. /\ readBuf \in Seq(Token) /\ wire \in Seq(Token) /\ UNCHANGED <<text, junk>>
      /\ Len(text) \in Nat /\ Len(readBuf) \in Nat /\ DOMAIN text = 1 .. Len(text)
  BY DEF ReceiveType, Parse
<1>3. Stream \in Seq(Token) /\ Len(readBuf) <= Len(Stream)
  BY <1>2, ConcatProperties DEF Stream
<1>4. f \in {0, 1} /\ (f = 1 => readBuf[1][1] = "nl") BY <1>30 DEF Front1
<1>5. e \in d + 1 .. Len(readBuf) BY <1>0, <1>1, <1>2
<1>6. z \in DOMAIN text /\ text[z][1] = "cr" BY <1>1, <1>5, LineOfText
<1>7. e \in 0 .. Len(readBuf) /\ e \in 0 .. Len(Stream) /\ f \in 0 .. e BY <1>1, <1>2, <1>3
<1>20. Stream \in Seq(Token) BY <1>3
<1>21. readBuf \in Seq(Token) BY <1>2
<1>22. e \in 0 .. Len(Stream) BY <1>7
<1>23. e \in 0 .. Len(readBuf) BY <1>7
<1>24. f \in 0 .. e BY <1>7
<1>8. /\ t \in Seq(Token) /\ Len(t) = Len(Stream) - (e - f)
      /\ \A p \in 1 .. Len(Stream) - (e - f) : t[p] = IF p <= f THEN Stream[p] ELSE Stream[p + (e - f)]
  BY <1>20, <1>22, <1>24, WithoutTokens
<1>9. /\ r \in Seq(Token) /\ Len(r) = Len(readBuf) - (e - f)
      /\ \A p \in 1 .. Len(readBuf) - (e - f) : r[p] = IF p <= f THEN readBuf[p] ELSE readBuf[p + (e - f)]
  BY <1>21, <1>23, <1>24, WithoutTokens
<1> HIDE DEF t, r
<1>10. /\ Len(Stream) = d + (Len(text) - m) /\ m \in Nat /\ d \in Nat
       /\ \A j \in 1 .. Len(text) - m : Stream[d + j] = text[m + j]
  BY <1>2 DEF Left
<1>11. /\ z \in 1 .. Len(text) /\ z = m + (e - d) /\ f \in Nat /\ e \in Nat /\ d < e /\ f < e
  BY <1>1, <1>2, <1>5, <1>6
<1> HIDE DEF z
<1>12. f \in 0 .. Len(r) BY <1>1, <1>2, <1>7, <1>9
<1>13. Len(t) = f + (Len(text) - z)
  <2>1. Len(t) = (d + (Len(text) - m)) - (e - f) BY <1>8, <1>10
  <2> QED BY <1>2, <1>10, <1>11, <2>1
<1>14. ASSUME NEW j \in 1 .. Len(text) - z PROVE t[f + j] = text[z + j]
  <2>1. f + j \in 1 .. Len(Stream) - (e - f) /\ ~ (f + j <= f) /\ (f + j) + (e - f) = e + j
    BY <1>2, <1>10, <1>11
  <2>2. t[f + j] = Stream[e + j] BY <1>8, <2>1
  <2>3. (e - d) + j \in 1 .. Len(text) - m /\ d + ((e - d) + j) = e + j
        /\ m + ((e - d) + j) = z + j
    BY <1>2, <1>10, <1>11
  <2> QED BY <1>10, <2>2, <2>3
<1>15. \A p \in 1 .. f : r[p][1] = "nl"
  <2> SUFFICES ASSUME NEW p \in 1 .. f PROVE r[p][1] = "nl" OBVIOUS
  <2>1. p = 1 /\ f = 1 BY <1>4
  <2>2. 1 \in 1 .. Len(readBuf) - (e - f) BY <1>1, <1>2, <1>11, <2>1
  <2>3. r[1] = readBuf[1] BY <1>9, <2>1, <2>2
  <2> QED BY <1>4, <2>1, <2>3
<1>25. \/ /\ z = 0 /\ \A p \in 1 .. f : r[p][1] \in {"text", "cr"}
          /\ f > 0 => junk # <<>> /\ r[f] = Last(junk)
       \/ /\ z > 0 /\ text[z][1] = "cr"
          /\ f <= 1 /\ \A p \in 1 .. f : r[p][1] = "nl"
  BY <1>4, <1>6, <1>11, <1>15
<1>26. z \in 0 .. Len(text) BY <1>11
<1>27. UNCHANGED <<text, junk>> /\ readBuf' = r /\ Stream' = t BY <1>1, <1>2
<1>16. Left(f, z)'
  BY <1>12, <1>13, <1>14, <1>25, <1>26, <1>27 DEF Left
<1>28. z = m + (LineEnd - d) BY <1>0, <1>11
<1> QED BY <1>1, <1>12, <1>16, <1>26, <1>28

\* A voltage in the line that is removed is handled now.
LEMMA LineConsumed ==
  ASSUME ReceiveType, TextInv, Parse, At(readBuf, "cr") # {},
         NEW d \in 0 .. Len(readBuf), NEW m \in 0 .. Len(text), Left(d, m), d < LineEnd,
         Consumed(m), NEW z \in 0 .. Len(text), z = m + (LineEnd - d)
  PROVE  Consumed(z)'
<1>0. PICK e \in 1 .. Len(readBuf) : e = LineEnd BY ParseStream
<1>1. /\ readBuf[e][1] = "cr" /\ \A p \in 1 .. e - 1 : readBuf[p][1] # "cr"
      /\ handled' = IF Took(e) /\ Colons(e) # {}
                      THEN Append(handled, readBuf[Min(Colons(e))][2]) ELSE handled
      /\ Colons(e) # {} => Min(Colons(e)) \in At(readBuf, ":")
  BY <1>0, ParseStream
<1>2. /\ readBuf \in Seq(Token) /\ text \in Seq(Token) /\ handled \in Seq(Nat)
      /\ UNCHANGED <<text, junk, sent>> /\ Len(readBuf) \in Nat /\ sent \in Seq(Kind)
      /\ DOMAIN readBuf = 1 .. Len(readBuf) /\ DOMAIN sent = 1 .. Len(sent)
      /\ DOMAIN text = 1 .. Len(text) /\ Len(text) \in Nat /\ Len(sent) \in Nat
  BY DEF ReceiveType, Parse
<1>3. /\ d \in Nat /\ m \in Nat /\ z \in Nat /\ e \in Nat /\ d < e /\ z = m + (e - d)
  BY <1>0, <1>2
<1>4. \A x \in m + 1 .. z :
        /\ x \in DOMAIN text /\ (x - m) + d \in DOMAIN readBuf
        /\ text[x] = readBuf[(x - m) + d]
        /\ text[x][1] = "cr" => x = z
        /\ text[x][1] \in {":", "text"} => x + 1 = z
        /\ text[x][1] = "Voltage" => x + 2 = z
  <2>1. e \in d + 1 .. Len(readBuf) BY <1>3
  <2>2. readBuf[e][1] = "cr" /\ \A p \in 1 .. e - 1 : readBuf[p][1] # "cr" BY <1>1
  <2>3. \A x \in m + 1 .. m + (e - d) :
          /\ x \in DOMAIN text /\ (x - m) + d \in DOMAIN readBuf
          /\ text[x] = readBuf[(x - m) + d]
          /\ text[x][1] = "cr" => x = m + (e - d)
          /\ text[x][1] \in {":", "text"} => x + 1 = m + (e - d)
          /\ text[x][1] = "Voltage" => x + 2 = m + (e - d)
    BY <2>1, <2>2, LineOfText
  <2> QED BY <1>3, <2>3
<1>5. \A k \in DOMAIN handled : k \in DOMAIN handled' /\ handled'[k] = handled[k]
  <2>1. CASE handled' = handled BY <2>1
  <2>2. CASE Took(e) /\ Colons(e) # {}
    <3>1. Min(Colons(e)) \in 1 .. Len(readBuf) BY <1>1, <1>2, <2>2 DEF At
    <3>2. readBuf[Min(Colons(e))][2] \in Nat BY <1>2, <3>1, TokenProps
    <3> QED BY <1>1, <1>2, <2>2, <3>2
  <2> QED BY <1>1, <2>1, <2>2
<1> SUFFICES ASSUME NEW q \in 1 .. z, text[q][1] = ":"
             PROVE  \/ \E k \in DOMAIN handled' : handled'[k] = text[q][2]
                    \/ Unended /\ \A j \in 1 .. text[q][2] - 1 : sent[j] = "nothing"
  BY <1>2 DEF Consumed, Unended
<1>6. CASE q <= m
  <2>1. q \in 1 .. m BY <1>3, <1>6
  <2> QED BY <1>5, <2>1 DEF Consumed
<1>7. CASE q > m
  <2>1. q \in m + 1 .. z BY <1>3, <1>7
  <2>2. q \in DOMAIN text /\ q + 1 = z BY <1>4, <2>1
  <2>3. q - 1 \in DOMAIN text /\ text[q - 1][1] = "Voltage" BY <2>2 DEF TextInv
  <2>4. q - 1 # m BY <1>2, <1>3, <2>3 DEF Left
  <2>5. q - 1 \in m + 1 .. z BY <1>3, <2>1, <2>4
  <2>6. PICK c \in 1 .. Len(readBuf) : c = (q - m) + d /\ readBuf[c] = text[q]
    BY <1>2, <1>4, <2>1
  <2>7. PICK p \in 1 .. Len(readBuf) : p = ((q - 1) - m) + d /\ readBuf[p] = text[q - 1]
    BY <1>2, <1>4, <2>5
  <2>8. c = e - 1 /\ p = c - 1 /\ p > d
    <3>1. c = (q - m) + d /\ p = ((q - 1) - m) + d BY <2>6, <2>7
    <3>2. q + 1 = z /\ q - 1 >= m + 1 /\ q \in Int BY <1>3, <2>2, <2>5
    <3>3. d \in Int /\ m \in Int /\ z \in Int /\ e \in Int BY <1>3
    <3>4. z = m + (e - d) BY <1>3
    <3>5. q = m + (e - d) - 1 BY <3>2, <3>3, <3>4
    <3>6. c = e - 1 BY <3>1, <3>3, <3>5
    <3>7. p = e - 2 BY <3>1, <3>3, <3>5
    <3>8. p > d BY <3>1, <3>2, <3>3
    <3> QED BY <3>3, <3>6, <3>7, <3>8
  <2>9. \A x \in 1 .. d : readBuf[x][1] # ":" BY DEF Left
  <2>10. \A x \in d + 1 .. e : m + (x - d) \in m + 1 .. z /\ text[m + (x - d)] = readBuf[x]
    <3> SUFFICES ASSUME NEW x \in d + 1 .. e
                 PROVE  m + (x - d) \in m + 1 .. z /\ text[m + (x - d)] = readBuf[x]
      OBVIOUS
    <3>1. m + (x - d) \in m + 1 .. z /\ ((m + (x - d)) - m) + d = x BY <1>3
    <3> QED BY <1>4, <3>1
  <2>11. Colons(e) = {c}
    <3>1. Colons(e) = {x \in 1 .. Len(readBuf) : readBuf[x][1] = ":" /\ x < e}
      BY <1>2 DEF Colons, At
    <3>2. c \in Colons(e) BY <1>3, <2>6, <2>8, <3>1
    <3>3. ASSUME NEW x \in Colons(e) PROVE x = c
      <4>1. x \in 1 .. Len(readBuf) /\ readBuf[x][1] = ":" /\ x < e BY <3>1
      <4>2. x \in d + 1 .. e
        <5>1. x > d BY <1>3, <2>9, <4>1
        <5> QED BY <1>3, <4>1, <5>1
      <4>3. (m + (x - d)) + 1 = z BY <1>4, <2>10, <4>1, <4>2
      <4> QED BY <1>3, <2>8, <4>2, <4>3
    <3> QED BY <3>2, <3>3
  <2>12. Min(Colons(e)) = c
    <3>1. Colons(e) \in SUBSET Nat /\ Colons(e) # {} BY <2>11
    <3>2. Min(Colons(e)) \in Colons(e) BY <3>1, MinIsLeast
    <3> QED BY <2>11, <3>2
  <2>13. CASE \A b \in 1 .. p - 1 : readBuf[b][1] = "nl"
    <3>1. p \in At(readBuf, "Voltage") /\ p < e BY <1>2, <1>3, <2>3, <2>7, <2>8 DEF At
    <3>2. Took(e) BY <2>13, <3>1 DEF Took
    <3>3. handled' = Append(handled, text[q][2]) BY <1>1, <2>6, <2>11, <2>12, <3>2
    <3>4. text[q][2] \in Nat BY <1>2, <2>2, TokenProps
    <3>5. Len(handled) + 1 \in DOMAIN handled' /\ handled'[Len(handled) + 1] = text[q][2]
      BY <1>2, <3>3, <3>4
    <3> QED BY <3>5
  <2>14. CASE \E b \in 1 .. p - 1 : readBuf[b][1] # "nl"
    <3>1. PICK b \in 1 .. p - 1 : readBuf[b][1] # "nl" BY <2>14
    <3>2. b <= d
      <4> SUFFICES ASSUME b > d PROVE FALSE BY <1>3
      <4>1. b \in d + 1 .. e BY <1>3, <2>8
      <4> DEFINE y == m + (b - d)
      <4>2. y \in m + 1 .. z /\ text[y] = readBuf[b] BY <2>10, <4>1
      <4>3. y # z /\ y + 1 # z /\ y + 2 # z 
        <5>1. b \in Int /\ b <= p - 1 BY <3>1
        <5>2. b <= e - 3 BY <1>3, <2>8, <5>1
        <5> QED BY <1>3, <5>1, <5>2
      <4> HIDE DEF y
      <4>4. y \in DOMAIN text BY <1>4, <4>2
      <4>5. text[y][1] \in Name \ {"nul"} BY <4>4 DEF TextInv
      <4> QED BY <1>4, <3>1, <4>2, <4>3, <4>5 DEF Name
    <3>3. b \in 1 .. d BY <1>3, <3>2
    <3>4. m = 0 /\ junk # <<>> /\ readBuf[d] = Last(junk)
      <4>1. \/ m = 0 /\ (d > 0 => junk # <<>> /\ readBuf[d] = Last(junk))
            \/ \A x \in 1 .. d : readBuf[x][1] = "nl"
        BY DEF Left
      <4>2. d > 0 BY <1>3, <3>3
      <4> QED BY <3>1, <3>3, <4>1, <4>2
    <3>5. readBuf[d][1] # "cr"
      <4>1. d \in 1 .. e - 1 BY <1>3, <3>3
      <4> QED BY <1>1, <4>1
    <3>6. Unended BY <3>4, <3>5 DEF Unended
    <3>7. ASSUME NEW j \in 1 .. text[q][2] - 1 PROVE sent[j] = "nothing"
      <4>1. text[q][2] \in 1 .. Len(sent) BY <1>2, <2>2 DEF TextInv
      <4>2. j \in DOMAIN sent /\ j < text[q][2] /\ j \in Nat BY <1>2, <4>1
      <4> SUFFICES ASSUME sent[j] # "nothing" PROVE FALSE OBVIOUS
      <4>3. PICK g \in DOMAIN text : text[g] = <<"cr", j>> BY <4>2 DEF TextInv
      <4>4. text[g][1] = "cr" /\ text[g][2] = j BY <4>3
      <4>5. g \in 1 .. Len(text) /\ q \in 1 .. Len(text) BY <1>2, <2>2
      <4>6. g < q
        <5> SUFFICES ASSUME g >= q PROVE FALSE BY <4>5
        <5>1. g # q BY <4>4
        <5>2. q < g BY <4>5, <5>1
        <5>3. text[q][2] <= text[g][2] BY <2>2, <5>2 DEF TextInv
        <5> QED BY <4>1, <4>2, <4>4, <5>3
      <4>7. g \in m + 1 .. z BY <1>3, <2>2, <3>4, <4>5, <4>6
      <4>8. g = z BY <1>4, <4>4, <4>7
      <4> QED BY <1>3, <2>2, <4>5, <4>6, <4>8
    <3> QED BY <3>6, <3>7
  <2> QED BY <2>13, <2>14
<1> QED BY <1>3, <1>6, <1>7

LEMMA CleanKept ==
  ASSUME Clean, UNCHANGED <<readBuf, wire, sent, text, handled, faults, junk>>
  PROVE  Clean'
<1> SUFFICES ASSUME faults = 0
             PROVE  \E d \in 0 .. Len(readBuf), m \in 0 .. Len(text) : Left(d, m)' /\ Consumed(m)'
  BY DEF Clean
<1>1. PICK d \in 0 .. Len(readBuf), m \in 0 .. Len(text) : Left(d, m) /\ Consumed(m) BY DEF Clean
<1>2. Stream' = Stream BY DEF Stream
<1>3. Left(d, m)' BY <1>1, <1>2 DEF Left
<1>4. Consumed(m)' BY <1>1 DEF Consumed, Unended
<1> QED BY <1>3, <1>4

LEMMA ParseSkip == ASSUME SkipInv, Parse PROVE SkipInv'
<1>1. ReceiveType /\ TextInv /\ Clean /\ Full BY DEF SkipInv
<1>2. UNCHANGED <<sent, text, faults, junk, wire>> BY DEF Parse
<1>3. TextInv' BY <1>1, <1>2 DEF TextInv
<1>4. readBuf \in Seq(Token) /\ Len(readBuf) \in Nat /\ Len(text) \in Nat BY <1>1 DEF ReceiveType
<1>5. CASE At(readBuf, "cr") = {}
  <2>1. UNCHANGED <<readBuf, handled>> /\ pc' = "select" BY <1>5 DEF Parse
  <2>2. ReceiveType' BY <1>1, <1>2, <2>1 DEF ReceiveType
  <2>3. Full' BY <1>1, <1>2, <1>5, <2>1 DEF Full, At
  <2>4. Clean' BY <1>1, <1>2, <2>1, CleanKept DEF vars
  <2> QED BY <1>3, <2>2, <2>3, <2>4 DEF SkipInv
<1>6. CASE At(readBuf, "cr") # {}
  <2>1. /\ LineEnd \in 1 .. Len(readBuf) /\ Front1 \in 0 .. LineEnd - 1
        /\ readBuf' = Without(readBuf, Front1, LineEnd) /\ ReceiveType'
        /\ readBuf[LineEnd][1] = "cr"
    BY <1>1, <1>6, ParseStream
  <2>2. Full'
    <3>1. LineEnd \in 0 .. Len(readBuf) /\ Front1 \in 0 .. LineEnd BY <1>4, <2>1
    <3>2. Len(readBuf') = Len(readBuf) - (LineEnd - Front1) BY <1>4, <2>1, <3>1, WithoutTokens
    <3>3. Len(readBuf') < Len(readBuf) BY <1>4, <2>1, <3>2
    <3>4. Len(readBuf) <= Capacity /\ Capacity \in Nat BY <1>1, ReceiveAssumption DEF Full
    <3>5. Len(readBuf') \in Nat BY <2>1 DEF ReceiveType
    <3>6. Len(readBuf') <= Capacity /\ Len(readBuf') # Capacity BY <1>4, <3>3, <3>4, <3>5
    <3> QED BY <3>6 DEF Full
  <2>3. Clean'
    <3> SUFFICES ASSUME faults = 0
                 PROVE  \E d \in 0 .. Len(readBuf'), m \in 0 .. Len(text) : Left(d, m)' /\ Consumed(m)'
      BY <1>2 DEF Clean
    <3>1. PICK d \in 0 .. Len(readBuf), m \in 0 .. Len(text) : Left(d, m) /\ Consumed(m)
      BY <1>1 DEF Clean
    <3>2. CASE LineEnd <= d
      <4>1. m = 0
        <5>1. LineEnd \in 1 .. d BY <1>4, <2>1, <3>2
        <5> QED BY <2>1, <3>1, <5>1 DEF Left
      <4>2. PICK c \in 0 .. Len(readBuf') : Left(c, 0)' BY <1>1, <1>6, <3>1, <3>2, <4>1, JunkRemoved
      <4>3. Consumed(0)' BY DEF Consumed
      <4> QED BY <1>4, <4>2, <4>3
    <3>3. CASE d < LineEnd
      <4>1. PICK c \in 0 .. Len(readBuf'), n \in 0 .. Len(text) :
              n = m + (LineEnd - d) /\ Left(c, n)'
        BY <1>1, <1>6, <3>1, <3>3, LineRemoved
      <4>2. Consumed(n)' BY <1>1, <1>6, <3>1, <3>3, <4>1, LineConsumed
      <4> QED BY <4>1, <4>2
    <3> QED BY <1>4, <2>1, <3>2, <3>3
  <2> QED BY <1>3, <2>1, <2>2, <2>3 DEF SkipInv
<1> QED BY <1>5, <1>6

LEMMA SkipNext == ASSUME SkipInv, [Next]_vars PROVE SkipInv'
<1>1. ASSUME NEW kind \in Kind, Send(kind) PROVE SkipInv' BY <1>1, SendSkip
<1>2. CASE ReadData BY <1>2, ReadSkip
<1>3. CASE Parse BY <1>3, ParseSkip
<1>4. ASSUME UNCHANGED <<readBuf, wire, sent, text, handled, faults, junk>>,
             pc' = "lost" \/ pc' = pc
      PROVE  SkipInv'
  <2>1. ReceiveType' /\ TextInv' BY <1>4 DEF SkipInv, ReceiveType, TextInv
  <2>2. Clean' BY <1>4, CleanKept DEF SkipInv
  <2>3. Full' BY <1>4 DEF SkipInv, Full, At
  <2> QED BY <2>1, <2>2, <2>3 DEF SkipInv
<1>5. CASE ReadRefused BY <1>4, <1>5 DEF ReadRefused
<1>6. CASE Overwritten BY <1>4, <1>6 DEF Overwritten
<1>7. CASE UNCHANGED vars BY <1>4, <1>7 DEF vars
<1> QED BY <1>1, <1>2, <1>3, <1>5, <1>6, <1>7 DEF Next

LEMMA SkipAlways == Spec => []SkipInv
<1>1. Init => SkipInv BY SkipInit
<1>2. SkipInv /\ [Next]_vars => SkipInv' BY SkipNext
<1> QED BY <1>1, <1>2, PTL DEF Spec

LEMMA NoneSkippedFollows == ASSUME SkipInv PROVE NoneSkipped
<1> SUFFICES ASSUME faults = 0, NEW i \in DOMAIN sent, sent[i] = "voltage"
             PROVE  \/ Waiting(i) \/ Contains(handled, i)
                    \/ Unended /\ \A j \in 1 .. i - 1 : sent[j] = "nothing"
  BY DEF NoneSkipped
<1>1. ReceiveType /\ TextInv /\ Clean BY DEF SkipInv
<1>2. PICK q \in DOMAIN text : text[q] = <<":", i>> BY <1>1 DEF TextInv
<1>3. PICK d \in 0 .. Len(readBuf), m \in 0 .. Len(text) : Left(d, m) /\ Consumed(m)
  BY <1>1 DEF Clean
<1>4. /\ readBuf \in Seq(Token) /\ wire \in Seq(Token) /\ text \in Seq(Token) /\ handled \in Seq(Nat)
      /\ Len(text) \in Nat /\ Len(readBuf) \in Nat /\ Len(wire) \in Nat
      /\ q \in 1 .. Len(text) /\ d \in Nat /\ m \in Nat
  BY <1>1 DEF ReceiveType
<1>5. CASE q <= m
  <2>1. q \in 1 .. m /\ text[q][1] = ":" /\ text[q][2] = i BY <1>2, <1>4, <1>5
  <2>2. CASE \E k \in DOMAIN handled : handled[k] = i
    <3>1. Contains(handled, i) BY <1>4, <2>2 DEF Contains
    <3> QED BY <3>1
  <2> QED BY <1>3, <2>1, <2>2 DEF Consumed
<1>6. CASE q > m
  <2> DEFINE g == d + (q - m)
  <2>1. Len(Stream) = d + (Len(text) - m) /\ Stream[d + (q - m)] = text[m + (q - m)]
    <3>1. q - m \in 1 .. Len(text) - m BY <1>4, <1>6
    <3> QED BY <1>3, <3>1 DEF Left
  <2>2. m + (q - m) = q /\ g \in 1 .. Len(Stream) BY <1>4, <1>6, <2>1
  <2>3. Stream[g] = <<":", i>> BY <1>2, <2>1, <2>2
  <2> HIDE DEF g
  <2>4. /\ Len(Stream) = Len(readBuf) + Len(wire)
        /\ \A p \in 1 .. Len(readBuf) + Len(wire) :
             Stream[p] = IF p <= Len(readBuf) THEN readBuf[p] ELSE wire[p - Len(readBuf)]
    BY <1>4, ConcatProperties DEF Stream
  <2>5. CASE g <= Len(readBuf)
    <3>1. g \in 1 .. Len(readBuf) /\ readBuf[g] = <<":", i>> BY <1>4, <2>2, <2>3, <2>4, <2>5
    <3>2. Contains(readBuf, <<":", i>>) BY <3>1 DEF Contains
    <3> QED BY <3>2 DEF Waiting
  <2>6. CASE g > Len(readBuf)
    <3>1. /\ g - Len(readBuf) \in 1 .. Len(wire)
          /\ wire[g - Len(readBuf)] = <<":", i>>
      BY <1>4, <2>2, <2>3, <2>4, <2>6
    <3>2. Contains(wire, <<":", i>>) BY <3>1 DEF Contains
    <3> QED BY <3>2 DEF Waiting
  <2> QED BY <1>4, <2>2, <2>5, <2>6
<1> QED BY <1>4, <1>5, <1>6

\* No voltage is skipped, whatever the size of the buffer and however reads cut
\* the lines (main and CmdParse_ProcessString).
THEOREM NoneSkippedHolds == Spec => []NoneSkipped
BY SkipAlways, NoneSkippedFollows, PTL

LEMMA FullFollows == ASSUME SkipInv PROVE FullOnlyByFault
<1> SUFFICES ASSUME pc = "select", Len(readBuf) = Capacity, ~ Unended, Len(junk) # Capacity,
                    faults = 0
             PROVE  Silence
  <2>1. faults \in Nat BY DEF SkipInv, ReceiveType
  <2> QED BY <2>1 DEF FullOnlyByFault
<1>1. ReceiveType /\ TextInv /\ Clean /\ Full BY DEF SkipInv
<1>2. PICK d \in 0 .. Len(readBuf), m \in 0 .. Len(text) : Left(d, m) BY <1>1 DEF Clean
<1>3. /\ readBuf \in Seq(Token) /\ wire \in Seq(Token) /\ text \in Seq(Token)
      /\ Len(text) \in Nat /\ Capacity \in Nat \ {0} /\ d \in Nat /\ m \in Nat /\ m <= Len(text)
      /\ DOMAIN text = 1 .. Len(text)
  BY <1>1, ReceiveAssumption DEF ReceiveType
<1>4. \A p \in 1 .. Capacity : readBuf[p][1] # "cr"
  <2>1. At(readBuf, "cr") = {} BY <1>1 DEF Full
  <2> QED BY <1>3, <2>1 DEF At
<1>5. (d = 0 \/ (d = 1 /\ m > 0)) /\ d <= Capacity
  <2>1. d <= Capacity BY <1>3
  <2>2. CASE m = 0 /\ (d > 0 => junk # <<>> /\ readBuf[d] = Last(junk))
    <3>1. ASSUME d > 0 PROVE FALSE
      <4>1. d \in 1 .. Capacity /\ readBuf[d][1] = "cr" BY <1>3, <2>1, <2>2, <3>1 DEF Unended
      <4> QED BY <1>4, <4>1
    <3>2. d = 0 BY <1>3, <3>1
    <3> QED BY <2>1, <3>2
  <2>3. CASE m > 0 /\ d <= 1 BY <1>3, <2>1, <2>3
  <2> QED BY <1>2, <2>2, <2>3 DEF Left
<1>6. m + (Capacity - d) <= Len(text)
  <2>1. Len(readBuf) <= Len(Stream) BY <1>3, ConcatProperties DEF Stream
  <2>2. Len(Stream) = d + (Len(text) - m) BY <1>2 DEF Left
  <2> QED BY <1>3, <2>1, <2>2
<1>7. ASSUME NEW p \in m + 1 .. m + (Capacity - d)
      PROVE  p \in DOMAIN text /\ text[p][1] # "cr"
  <2>1. p - m \in 1 .. Len(text) - m /\ m + (p - m) = p /\ d + (p - m) \in 1 .. Capacity
        /\ p \in DOMAIN text
    BY <1>3, <1>5, <1>6
  <2>2. Stream[d + (p - m)] = text[m + (p - m)] BY <1>2, <2>1 DEF Left
  <2>3. Stream[d + (p - m)] = readBuf[d + (p - m)] BY <1>3, <2>1, ConcatProperties DEF Stream
  <2> QED BY <1>4, <2>1, <2>2, <2>3
<1>8. CASE Capacity < 6
  <2>1. 1 \in DOMAIN text
    <3>1. Len(text) >= 1 BY <1>3, <1>5, <1>6
    <3> QED BY <1>3, <3>1
  <2>2. 1 .. 1 + Capacity - 6 = {} BY <1>3, <1>8
  <2> QED BY <2>1, <2>2 DEF Silence
<1>9. CASE Capacity >= 6
  <2>1. m + 2 \in DOMAIN text BY <1>3, <1>5, <1>6, <1>9
  <2>2. ASSUME NEW p \in m + 2 .. (m + 2) + Capacity - 6
        PROVE  p \in DOMAIN text /\ sent[text[p][2]] = "nothing"
    <3>1. /\ p - 1 \in m + 1 .. m + (Capacity - d) /\ p \in m + 1 .. m + (Capacity - d)
          /\ p + 1 \in m + 1 .. m + (Capacity - d) /\ p + 2 \in m + 1 .. m + (Capacity - d)
          /\ p + 3 \in m + 1 .. m + (Capacity - d)
          /\ (p + 1) + 1 = p + 2 /\ (p + 2) + 1 = p + 3
      BY <1>3, <1>5
    <3>2. /\ p \in DOMAIN text /\ p + 1 \in DOMAIN text /\ p + 2 \in DOMAIN text
          /\ text[p - 1][1] # "cr" /\ text[p][1] # "cr" /\ text[p + 1][1] # "cr"
          /\ text[p + 2][1] # "cr" /\ text[p + 3][1] # "cr"
      BY <1>7, <3>1
    <3>3. \A x \in DOMAIN text :
            /\ text[x][1] \in Name \ {"nul"}
            /\ text[x][1] = "Voltage" => text[x + 1][1] = ":"
            /\ text[x][1] \in {":", "text"} => text[x + 1][1] = "cr"
            /\ text[x][1] = "nl" => \/ sent[text[x][2]] = "nothing"
                                    \/ text[x - 1][1] = "cr"
                                    \/ text[x + 1][1] \in {"Voltage", "text"}
      BY <1>1 DEF TextInv
    <3>4. text[p + 2][1] \notin {":", "text"} BY <3>1, <3>2, <3>3
    <3>5. text[p + 1][1] \notin {":", "text", "Voltage"} BY <3>1, <3>2, <3>3, <3>4
    <3>6. text[p][1] = "nl" BY <3>2, <3>3, <3>5 DEF Name
    <3> QED BY <3>2, <3>3, <3>5, <3>6
  <2> QED BY <2>1, <2>2 DEF Silence
<1> QED BY <1>3, <1>8, <1>9

\* What fills the buffer without an end of a line, whatever its size: never what
\* the parser leaves of the lines (main and CmdParse_ProcessString).
THEOREM FullOnlyByFaultHolds == Spec => []FullOnlyByFault
BY SkipAlways, FullFollows, PTL

-----------------------------------------------------------------------------

State == {"none", "boot", "zeroed", "connect", "opened", "running", "leaving", "gone"}

\* Two daemons are alive at once only after one was started beside another.
OneAlive == crossed \/ \A d, e \in Alive : d = e

\* A signal is on its way to daemons that were started.
Started == \A d \in pending : d \in Daemon /\ state[d] # "none"

FlagInv ==
  /\ state \in [Daemon -> State] /\ Started
  /\ OneAlive /\ RunningIsTold /\ FlagHasOwner

LEMMA FlagInit == ScriptInit => FlagInv
BY DEF ScriptInit, FlagInv, State, Started, OneAlive, Alive, RunningIsTold, FlagHasOwner

\* A daemon that ends or moves on leaves at most as many alive.
LEMMA OneAliveKept ==
  ASSUME OneAlive, Alive' \subseteq Alive, crossed' = crossed
  PROVE  OneAlive'
BY DEF OneAlive

LEMMA StartDaemonFlag == FlagInv /\ StartDaemon => FlagInv'
<1> SUFFICES ASSUME FlagInv, StartDaemon PROVE FlagInv' OBVIOUS
<1>1. PICK d \in Daemon : state[d] = "none" /\ state' = [state EXCEPT ![d] = "boot"]
  BY DEF StartDaemon
<1>2. /\ crossed' = (crossed \/ Alive # {}) /\ connected' = connected /\ pending' = pending
      /\ state \in [Daemon -> State]
  BY DEF StartDaemon, FlagInv
<1>3. state' \in [Daemon -> State] BY <1>1, <1>2 DEF State
<1>4. OneAlive'
  <2>1. Alive' \subseteq Alive \cup {d} BY <1>1, <1>2 DEF Alive
  <2>2. CASE Alive = {} BY <2>1, <2>2 DEF OneAlive
  <2>3. CASE Alive # {} BY <1>2, <2>3 DEF OneAlive
  <2> QED BY <2>2, <2>3
<1>5. \A e \in Daemon : state'[e] = "running" => state[e] = "running" BY <1>1, <1>2
<1>6. RunningIsTold' BY <1>2, <1>5 DEF FlagInv, RunningIsTold
<1>7. \A e \in Daemon : state[e] \in {"running", "leaving"} => state'[e] = state[e]
  BY <1>1, <1>2
<1>8. FlagHasOwner' BY <1>2, <1>7 DEF FlagInv, FlagHasOwner
<1>9. Started' BY <1>1, <1>2 DEF FlagInv, Started
<1> QED BY <1>3, <1>4, <1>6, <1>8, <1>9 DEF FlagInv

\* Steps of a daemon before it has the port, and of the port itself.
LEMMA QuietFlag ==
  ASSUME FlagInv, NEW d \in Daemon, NEW old \in State \ {"none", "running", "leaving", "gone"},
         NEW new \in {"zeroed", "connect", "opened"}, Becomes(d, old, new),
         connected' \in {0, connected}, connected' = connected \/ crossed \/ Alive = {d},
         crossed' = crossed, pending' = pending
  PROVE  FlagInv'
<1>1. state \in [Daemon -> State] /\ state[d] = old /\ state' = [state EXCEPT ![d] = new]
  BY DEF FlagInv, Becomes
<1>2. state' \in [Daemon -> State] BY <1>1 DEF State
<1>3. Alive' \subseteq Alive BY <1>1 DEF Alive, State
<1>4. OneAlive' BY <1>3, OneAliveKept DEF FlagInv
<1>5. \A e \in Daemon : e # d => state'[e] = state[e] BY <1>1
<1>6. state'[d] = new BY <1>1
<1>7. RunningIsTold'
  <2> SUFFICES ASSUME NEW e \in Daemon, state'[e] = "running", ~crossed PROVE connected' = 1
    BY DEF RunningIsTold
  <2>1. e # d /\ state[e] = "running" BY <1>5, <1>6
  <2>2. e \in Alive /\ connected = 1 BY <2>1 DEF Alive, FlagInv, RunningIsTold
  <2> QED BY <2>1, <2>2
<1>8. FlagHasOwner'
  <2> SUFFICES ASSUME connected' = 1
               PROVE  \E e \in Daemon : state'[e] \in {"running", "leaving"}
    BY DEF FlagHasOwner
  <2>1. connected = 1 OBVIOUS
  <2>2. PICK e \in Daemon : state[e] \in {"running", "leaving"}
    BY <2>1 DEF FlagInv, FlagHasOwner
  <2> QED BY <1>1, <1>5, <2>2
<1>9. Started' BY <1>1 DEF FlagInv, Started
<1> QED BY <1>2, <1>4, <1>7, <1>8, <1>9 DEF FlagInv

\* Without a second daemon the one at work is the only one alive.
LEMMA Alone ==
  ASSUME FlagInv, NEW d \in Daemon, state[d] \notin {"none", "gone"}
  PROVE  crossed \/ Alive = {d}
<1>1. d \in Alive BY DEF Alive
<1> QED BY <1>1 DEF FlagInv, OneAlive

LEMMA SetConnectedFlag == ASSUME FlagInv, NEW d \in Daemon, SetConnected(d) PROVE FlagInv'
<1>1. /\ state \in [Daemon -> State] /\ state[d] = "opened"
      /\ state' = [state EXCEPT ![d] = "running"] /\ connected' = 1 /\ crossed' = crossed
      /\ pending' = pending
  BY DEF FlagInv, SetConnected, Becomes
<1>2. state' \in [Daemon -> State] /\ state'[d] = "running" BY <1>1 DEF State
<1>3. Alive' \subseteq Alive BY <1>1 DEF Alive
<1>4. OneAlive' BY <1>1, <1>3, OneAliveKept DEF FlagInv
<1>5. RunningIsTold' /\ FlagHasOwner' BY <1>1, <1>2 DEF RunningIsTold, FlagHasOwner
<1>6. Started' BY <1>1 DEF FlagInv, Started
<1> QED BY <1>2, <1>4, <1>5, <1>6 DEF FlagInv

LEMMA SignalFlag == ASSUME FlagInv, NEW d \in Daemon, Signal(d) PROVE FlagInv'
<1>1. /\ state \in [Daemon -> State] /\ connected' = connected /\ crossed' = crossed
      /\ d \in pending /\ pending' = pending \ {d} /\ state[d] # "none"
      /\ state' = IF state[d] \in {"boot", "zeroed"} THEN [state EXCEPT ![d] = "gone"]
                  ELSE IF state[d] = "gone" THEN state
                  ELSE [state EXCEPT ![d] = "leaving"]
  BY DEF FlagInv, Started, Signal
<1>2. CASE state' = state
  BY <1>1, <1>2 DEF FlagInv, Started, OneAlive, Alive, RunningIsTold, FlagHasOwner
<1>3. CASE state[d] \in {"boot", "zeroed"} /\ state' = [state EXCEPT ![d] = "gone"]
  <2>1. state' \in [Daemon -> State] BY <1>1, <1>3 DEF State
  <2>2. Alive' \subseteq Alive BY <1>1, <1>3 DEF Alive
  <2>3. OneAlive' BY <1>1, <2>2, OneAliveKept DEF FlagInv
  <2>4. RunningIsTold' /\ FlagHasOwner' BY <1>1, <1>3 DEF FlagInv, RunningIsTold, FlagHasOwner
  <2>5. Started' BY <1>1, <1>3 DEF FlagInv, Started
  <2> QED BY <2>1, <2>3, <2>4, <2>5 DEF FlagInv
<1>4. CASE state[d] # "gone" /\ state' = [state EXCEPT ![d] = "leaving"]
  <2>1. state' \in [Daemon -> State] BY <1>1, <1>4 DEF State
  <2>2. Alive' \subseteq Alive BY <1>1, <1>4 DEF Alive
  <2>3. OneAlive' BY <1>1, <2>2, OneAliveKept DEF FlagInv
  <2>4. RunningIsTold' /\ FlagHasOwner' BY <1>1, <1>4 DEF FlagInv, RunningIsTold, FlagHasOwner
  <2>5. Started' BY <1>1, <1>4 DEF FlagInv, Started
  <2> QED BY <2>1, <2>3, <2>4, <2>5 DEF FlagInv
<1> QED BY <1>1, <1>2, <1>3, <1>4

\* The exit handler clears the flag, of this daemon and of any other.
LEMMA ShutdownFlag == ASSUME FlagInv, NEW d \in Daemon, Shutdown(d) PROVE FlagInv'
<1>1. /\ state \in [Daemon -> State] /\ state[d] = "leaving"
      /\ state' = [state EXCEPT ![d] = "gone"] /\ connected' = 0 /\ crossed' = crossed
      /\ pending' = pending
  BY DEF FlagInv, Shutdown, Becomes
<1>2. state' \in [Daemon -> State] BY <1>1 DEF State
<1>3. Alive' \subseteq Alive BY <1>1 DEF Alive
<1>4. OneAlive' BY <1>1, <1>3, OneAliveKept DEF FlagInv
<1>5. RunningIsTold'
  <2> SUFFICES ASSUME NEW e \in Daemon, state'[e] = "running", ~crossed PROVE FALSE
    BY <1>1 DEF RunningIsTold
  <2>1. e # d /\ state[e] = "running" BY <1>1
  <2>2. d \in Alive /\ e \in Alive BY <1>1, <2>1 DEF Alive
  <2> QED BY <2>1, <2>2 DEF FlagInv, OneAlive
<1>6. FlagHasOwner' BY <1>1 DEF FlagHasOwner
<1>7. Started' BY <1>1 DEF FlagInv, Started
<1> QED BY <1>2, <1>4, <1>5, <1>6, <1>7 DEF FlagInv

LEMMA FlagNext == FlagInv /\ [ScriptNext]_scriptVars => FlagInv'
<1> SUFFICES ASSUME FlagInv, [ScriptNext]_scriptVars PROVE FlagInv' OBVIOUS
<1>1. ASSUME UNCHANGED <<state, connected, crossed>>, Started' PROVE FlagInv'
  BY <1>1 DEF FlagInv, OneAlive, Alive, RunningIsTold, FlagHasOwner
<1>2. ASSUME UNCHANGED <<state, connected, crossed, pending>> PROVE FlagInv'
  BY <1>1, <1>2 DEF FlagInv, Started
<1>3. CASE Call BY <1>2, <1>3 DEF Call
<1>4. CASE Pkill
  <2>1. UNCHANGED <<state, connected, crossed>> /\ pending' = pending \cup Alive
    BY <1>4 DEF Pkill
  <2>2. Started' BY <2>1 DEF FlagInv, Started, Alive
  <2> QED BY <1>1, <2>1, <2>2
<1>5. CASE Returned BY <1>2, <1>5 DEF Returned
<1>6. CASE UNCHANGED scriptVars BY <1>2, <1>6 DEF scriptVars
<1>7. ASSUME NEW d \in Daemon, Create(d) PROVE FlagInv'
  <2>1. state[d] = "boot" BY <1>7 DEF Create, Becomes
  <2>2. crossed \/ Alive = {d} BY <2>1, Alone
  <2>3. /\ Becomes(d, "boot", "zeroed") /\ connected' = 0 /\ crossed' = crossed
        /\ pending' = pending
    BY <1>7 DEF Create
  <2> QED BY <2>2, <2>3, QuietFlag DEF State
<1>8. ASSUME NEW d \in Daemon, Daemonise(d) PROVE FlagInv'
  BY <1>8, QuietFlag DEF Daemonise, State
<1>9. ASSUME NEW d \in Daemon, OpenPort(d) PROVE FlagInv'
  BY <1>9, QuietFlag DEF OpenPort, State
<1> QED BY <1>3, <1>4, <1>5, <1>6, <1>7, <1>8, <1>9, StartDaemonFlag, SetConnectedFlag,
           SignalFlag, ShutdownFlag DEF ScriptNext, Run

\* For any number of daemons: clients are told of one that runs, unless two ever
\* ran side by side (PMon_SetConnected, PMon_ClearSharedMemory).
THEOREM RunningIsToldHolds == ScriptSpec => []RunningIsTold
<1>1. FlagInv => RunningIsTold BY DEF FlagInv
<1> QED BY <1>1, FlagInit, FlagNext, PTL DEF ScriptSpec

\* And the flag never outlives its daemons, side by side or not.
THEOREM FlagHasOwnerHolds == ScriptSpec => []FlagHasOwner
<1>1. FlagInv => FlagHasOwner BY DEF FlagInv
<1> QED BY <1>1, FlagInit, FlagNext, PTL DEF ScriptSpec
=============================================================================
