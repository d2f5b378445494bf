------------------------- MODULE CalibrationProofs -------------------------
(***************************************************************************)
(* Proofs about Calibration and PowerChannel, for every width of a word,   *)
(* reading, number typed and default: what is written is read back, no     *)
(* command disturbs another word, and the voltage published is the one     *)
(* meant where the 32 bits can hold it.                                    *)
(***************************************************************************)
EXTENDS Calibration, Division, TLAPS

-----------------------------------------------------------------------------
LEMMA WordNat ==
  /\ Word \in Nat \ {0}
  /\ \A u \in UInt32 : u \in Nat
  /\ \A x \in Int32 : x \in Int
  BY NumberAssumption DEF Word, UInt32, Int32

\* Unsigned and Signed undo one another, as two's complement does.
LEMMA SignRoundTrip ==
  ASSUME NEW x \in Int32
  PROVE  Unsigned(x) \in UInt32 /\ Signed(Unsigned(x)) = x
<1>1. CASE x >= 0
  <2>1. x \in 0 .. Word - 1 BY <1>1, NumberAssumption DEF Int32, Word
  <2>2. Unsigned(x) = x BY <2>1, WordNat, ModSmall DEF Unsigned
  <2> QED BY <1>1, <2>1, <2>2, NumberAssumption DEF Signed, Int32, UInt32
<1>2. CASE x < 0
  <2>1. x \in Int /\ -Word <= x BY NumberAssumption DEF Int32, Word
  <2>2. Unsigned(x) = x + Word BY <1>2, <2>1, WordNat, ModNegative DEF Unsigned
  <2> QED BY <1>2, <2>1, <2>2, NumberAssumption DEF Signed, Int32, UInt32, Word
<1> QED BY <1>1, <1>2 DEF Int32

LEMMA SignedRange ==
  ASSUME NEW u \in UInt32
  PROVE  Signed(u) \in Int32 /\ (Signed(u) = u \/ Signed(u) = u - Word)
  BY NumberAssumption DEF Signed, Int32, UInt32, Word

\* The voltage published is the voltage meant, for every reading, calibration
\* and offset that the words can hold: PowerChan_GetVolts and atoi lose nothing
\* as long as the product fits a word and the result a signed one.
THEOREM PublishedExact ==
  ASSUME NEW v \in Nat, NEW c \in UInt32, NEW o \in Int32,
         v * c < Word,
         Exact(v, c, o) \in Int32,
         Exact(v, c, o) >= 0 \/ LongIsWide
  PROVE  Atoi(GetVolts(v, c, o)) = Exact(v, c, o)
<1>1. CASE v < Threshold
  BY <1>1, NumberAssumption DEF Exact, GetVolts, Atoi
<1>2. CASE ~(v < Threshold)
  <2> DEFINE p == v * c
             e == p \div Scale - o
  <2>1. p \in 0 .. Word - 1
    BY ProductNat, WordNat
  <2>2. Unsigned(p) = p
    BY <2>1, WordNat, ModSmall DEF Unsigned
  <2>3. Exact(v, c, o) = e /\ GetVolts(v, c, o) = Unsigned(e)
    BY <1>2, <2>2 DEF Exact, GetVolts
  <2>4. e \in Int32
    BY <2>3
  <2> HIDE DEF e
  <2>5. Signed(Unsigned(e)) = e /\ Unsigned(e) \in UInt32
    BY <2>4, SignRoundTrip
  <2>6. e >= 0 => Unsigned(e) = e
    <3>1. e >= 0 => e \in 0 .. Word - 1
      BY <2>4, NumberAssumption DEF Int32, Word
    <3> QED BY <3>1, WordNat, ModSmall DEF Unsigned
  <2>7. CASE e >= 0
    BY <2>3, <2>4, <2>6, <2>7, NumberAssumption DEF Atoi, Int32
  <2>8. CASE e < 0
    <3>1. LongIsWide BY <2>3, <2>4, <2>8 DEF Int32
    <3>2. Atoi(Unsigned(e)) = Signed(Unsigned(e)) BY <3>1 DEF Atoi, Signed
    <3> QED BY <2>3, <2>5, <3>2
  <2> QED BY <2>4, <2>7, <2>8, NumberAssumption DEF Int32
<1> QED BY <1>1, <1>2

-----------------------------------------------------------------------------
(* Words in the memory: what EE_Write4 stores, EE_Read4 reads.             *)

\* Two digits of base N and M make a number below N * M.
LEMMA Digits ==
  ASSUME NEW N \in Nat \ {0}, NEW M \in Nat \ {0}, NEW r \in 0 .. N - 1, NEW q \in 0 .. M - 1
  PROVE  r + q * N \in 0 .. M * N - 1
<1>1. q * N \in Nat /\ (M - 1) * N \in Nat /\ M * N \in Nat BY ProductNat
<1>2. (M - 1 - q) * N \in Nat BY ProductNat
<1>3. q * N + N <= M * N BY <1>2, SMTT(30)
<1> QED BY <1>1, <1>3

LEMMA DigitsBack ==
  ASSUME NEW N \in Nat \ {0}, NEW M \in Nat \ {0}, NEW u \in Nat, u < M * N
  PROVE  /\ (u % N) \in 0 .. N - 1 /\ u \div N \in 0 .. M - 1
         /\ (u % N) + (u \div N) * N = u
<1>1. u \div N \in 0 .. M - 1 BY DivBelow
<1>2. u \div N \in Nat /\ (u % N) \in 0 .. N - 1 /\ u = (u \div N) * N + (u % N) BY DivMod
<1>3. (u \div N) * N \in Nat BY <1>2, ProductNat
<1> QED BY <1>1, <1>2, <1>3

\* The lower half of u, of two bytes.
LEMMA LowHalf ==
  ASSUME NEW N \in Nat \ {0}, NEW u \in Nat
  PROVE  (u % N) + ((u \div N) % N) * N = u % (N * N)
<1>1. PICK q \in Nat, r \in 0 .. N - 1 : q = u \div N /\ r = (u % N) /\ u = q * N + r
  BY DivMod
<1>2. PICK h \in Nat, k \in 0 .. N - 1 : k = (q % N) /\ q = h * N + k
  BY <1>1, DivMod
<1>3. PICK K \in Nat \ {0} : K = N * N BY SMTT(30)
<1>4. PICK l \in 0 .. K - 1 : l = r + k * N BY <1>3, Digits
<1>5. u = h * K + l
  <2>1. u = (h * N + k) * N + r BY <1>1, <1>2
  <2>2. (h * N + k) * N = h * K + k * N BY <1>3, SMTT(30)
  <2>3. h * K \in Nat /\ k * N \in Nat BY ProductNat
  <2> QED BY <1>4, <2>1, <2>2, <2>3
<1>6. (u % K) = l BY <1>5, DivUnique
<1> QED BY <1>1, <1>2, <1>3, <1>4, <1>6

LEMMA ByteNat == ByteRange \in Nat \ {0} /\ ByteRange * ByteRange \in Nat \ {0}
                 /\ Word = (ByteRange * ByteRange) * (ByteRange * ByteRange)
<1>1. ByteRange \in Nat \ {0} BY CalibrationAssumption
<1>2. ByteRange * ByteRange \in Nat \ {0} BY <1>1, SMTT(30)
<1>3. Word = ByteRange * ByteRange * ByteRange * ByteRange BY CalibrationAssumption
<1> QED BY <1>1, <1>2, <1>3, SMTT(30)

\* Where a word starts.
Start == 2 .. 14
LEMMA AddressStart ==
  ASSUME NEW item \in Item, NEW ch \in Channel
  PROVE  Address(item, ch) \in Start
BY DEF Address, Item, Channel, Start

\* The four bytes of every word of conf_eeprom.h lie in page 0, of EE_PAGE_SIZE
\* bytes: no EE_Write4 of a calibration crosses a page (SplitOnlyAtPageLimit).
LEMMA WordInOnePage ==
  ASSUME NEW item \in Item, NEW ch \in Channel, NEW k \in 0 .. 3
  PROVE  Address(item, ch) + k \in 0 .. 511 /\ Address(item, ch) + k \in Offset
BY AddressStart DEF Start, Offset

LEMMA ReadRange ==
  ASSUME NEW m \in [Offset -> Byte], NEW a \in Start
  PROVE  Read4(m, a) \in UInt32
<1> DEFINE B == ByteRange
           lo == m[a] + m[a + 1] * B
           hi == m[a + 2] + m[a + 3] * B
<1>1. m[a] \in 0 .. B - 1 /\ m[a + 1] \in 0 .. B - 1 /\ m[a + 2] \in 0 .. B - 1 /\ m[a + 3] \in 0 .. B - 1
  BY DEF Start, Offset, Byte
<1>2. lo \in 0 .. B * B - 1 /\ hi \in 0 .. B * B - 1 BY <1>1, ByteNat, Digits
<1> HIDE DEF lo, hi
<1>3. lo + hi * (B * B) \in 0 .. (B * B) * (B * B) - 1 BY <1>2, ByteNat, Digits
<1>4. hi * B * B = hi * (B * B) BY <1>2, ByteNat, SMTT(30)
<1>5. Read4(m, a) = lo + hi * B * B BY DEF Read4, lo, hi
<1> QED BY <1>3, <1>4, <1>5, ByteNat DEF UInt32

\* EE_Write4 writes four bytes, and EE_Read4 finds the number in them.
LEMMA WriteRead ==
  ASSUME NEW m \in [Offset -> Byte], NEW a \in Start, NEW u \in UInt32
  PROVE  Write4(m, a, u) \in [Offset -> Byte] /\ Read4(Write4(m, a, u), a) = u
<1> DEFINE B == ByteRange
           h == u \div (B * B)
           b0 == u % B
           b1 == (u \div B) % B
           b2 == h % B
           b3 == (h \div B) % B
           w == Write4(m, a, u)
<1>1. u \in Nat /\ u < (B * B) * (B * B) BY ByteNat, WordNat DEF UInt32
<1>2. (u % (B * B)) \in 0 .. B * B - 1 /\ h \in 0 .. B * B - 1 /\ (u % (B * B)) + h * (B * B) = u
  BY <1>1, ByteNat, DigitsBack
<1>3. u \div B \in Nat BY <1>1, ByteNat, DivMod
<1>4. h \div B \in Nat BY <1>2, ByteNat, DivMod
<1>5. b0 \in 0 .. B - 1 /\ b1 \in 0 .. B - 1 /\ b2 \in 0 .. B - 1 /\ b3 \in 0 .. B - 1
  <2> HIDE DEF h
  <2>1. b0 \in 0 .. B - 1 BY <1>1, ByteNat, ModRange
  <2>2. b1 \in 0 .. B - 1
    <3>1. PICK k \in Nat : k = u \div B BY <1>3
    <3> QED BY <3>1, ByteNat, ModRange
  <2>3. b2 \in 0 .. B - 1 BY <1>2, ByteNat, ModRange
  <2>4. b3 \in 0 .. B - 1
    <3>1. PICK k \in Nat : k = h \div B BY <1>4
    <3> QED BY <3>1, ByteNat, ModRange
  <2> QED BY <2>1, <2>2, <2>3, <2>4
<1>6. w = [m EXCEPT ![a] = b0, ![a + 1] = b1, ![a + 2] = b2, ![a + 3] = b3]
  BY DEF Write4
<1>7. b0 + b1 * B = u % (B * B) BY <1>1, ByteNat, LowHalf
<1>8. b2 + b3 * B = h
  <2>1. b2 + b3 * B = h % (B * B) BY <1>2, ByteNat, LowHalf
  <2>2. h % (B * B) = h BY <1>2, ByteNat, ModSmall
  <2> QED BY <2>1, <2>2
<1> HIDE DEF b0, b1, b2, b3, h, w
<1>9. w \in [Offset -> Byte] /\ w[a] = b0 /\ w[a + 1] = b1 /\ w[a + 2] = b2 /\ w[a + 3] = b3
  BY <1>5, <1>6 DEF Start, Offset, Byte
<1>10. Read4(w, a) = (u % (B * B)) + h * B * B BY <1>7, <1>8, <1>9 DEF Read4
<1>11. h * B * B = h * (B * B) BY <1>2, ByteNat, SMTT(30)
<1> QED BY <1>2, <1>9, <1>10, <1>11 DEF w

\* A word is not touched by writing another.
LEMMA WriteOther ==
  ASSUME NEW m \in [Offset -> Byte], NEW u \in UInt32,
         NEW i \in Item, NEW c \in Channel, NEW j \in Item, NEW d \in Channel, <<i, c>> # <<j, d>>
  PROVE  Read4(Write4(m, Address(i, c), u), Address(j, d)) = Read4(m, Address(j, d))
<1> DEFINE a == Address(i, c)
           b == Address(j, d)
           w == Write4(m, a, u)
<1>1. a \in Start /\ b \in Start BY AddressStart
<1>2. b \notin a - 3 .. a + 3
  BY DEF Address, Item, Channel
<1> HIDE DEF a, b
<1>3. \A k \in {b, b + 1, b + 2, b + 3} : w[k] = m[k]
  BY <1>1, <1>2 DEF Write4, Start, Offset
<1> QED BY <1>3 DEF Read4, a, b

-----------------------------------------------------------------------------
(* The channels.                                                           *)

LEMMA ConstantsOK ==
  /\ \A r \in Raw : r \in Nat
  /\ \A v \in Typed : v \in Int32
  /\ \A item \in Item : Default[item] \in UInt32
  /\ ByteRange \in Nat \ {0}
BY CalibrationAssumption

\* A number typed fits both kinds of word, and comes back as it was typed.
LEMMA TypedOK ==
  ASSUME NEW v \in Typed
  PROVE  v \in Int32 /\ Unsigned(v) \in UInt32 /\ Signed(Unsigned(v)) = v
BY ConstantsOK, SignRoundTrip

LEMMA StoredRange ==
  ASSUME NEW m \in [Offset -> Byte], NEW item \in Item, NEW ch \in Channel
  PROVE  /\ item = "offset" => Stored(m, item, ch) \in Int32
         /\ item # "offset" => Stored(m, item, ch) \in UInt32
         /\ Stored(m, item, ch) \in Int
<1>1. Read4(m, Address(item, ch)) \in UInt32 BY AddressStart, ReadRange
<1>2. Default[item] \in UInt32 BY ConstantsOK
<1> QED BY <1>1, <1>2, SignedRange, WordNat DEF Stored

\* The shapes of the variables, the range of each copy, and what the last
\* answer was computed from.
MemoryOK ==
  /\ val \in [{0} -> [Offset -> Byte]]
  /\ kept \in [{0} -> [Offset -> Byte]]
RamOK ==
  /\ ram \in [Item -> [Channel -> Int]]
  /\ \A ch \in Channel : ram["calib"][ch] \in UInt32 /\ ram["offset"][ch] \in Int32
AnswerOK ==
  answer \in [to : {"none", "calib", "offset", "volt"}, channel : Channel, number : Int]
VoltIs ==
  answer.to = "volt" =>
    LET ch == answer.channel
    IN  answer.number = Atoi(GetVolts(volts[ch], ram["calib"][ch], ram["offset"][ch]))
Inv ==
  /\ MemoryOK /\ RamOK /\ AnswerOK /\ VoltIs
  /\ volts \in [Channel -> Nat]
  /\ UsesStored

LEMMA LoadedOK ==
  ASSUME NEW m \in [Offset -> Byte], ram = Loaded(m)
  PROVE  RamOK /\ \A item \in Item, ch \in Channel : ram[item][ch] = Stored(m, item, ch)
<1>1. \A item \in Item, ch \in Channel : ram[item][ch] = Stored(m, item, ch)
  BY DEF Loaded
<1>2. \A item \in Item, ch \in Channel : Stored(m, item, ch) \in Int
  BY StoredRange, WordNat
<1>3. ram \in [Item -> [Channel -> Int]]
  BY <1>2 DEF Loaded
<1>4. "calib" \in Item /\ "offset" \in Item BY DEF Item
<1> QED BY <1>1, <1>3, <1>4, StoredRange DEF RamOK

LEMMA AtoiInt ==
  ASSUME NEW v \in Nat, NEW c \in UInt32, NEW o \in Int32
  PROVE  Atoi(GetVolts(v, c, o)) \in Int
<1>1. v * c \in Nat BY ProductNat, WordNat
<1>2. Unsigned(v * c) \in Nat BY <1>1, WordNat, ModRange DEF Unsigned
<1>3. Unsigned(v * c) \div Scale \in Nat BY <1>2, NumberAssumption, DivMod
<1>4. Unsigned(v * c) \div Scale - o \in Int BY <1>3, WordNat
<1>5. GetVolts(v, c, o) \in Nat
  <2>1. PICK e \in Int : e = Unsigned(v * c) \div Scale - o BY <1>4
  <2>2. Unsigned(e) \in Nat BY WordNat, ModRange DEF Unsigned
  <2> QED BY <2>1, <2>2 DEF GetVolts
<1> QED BY <1>5, WordNat, NumberAssumption DEF Atoi, Word

LEMMA InitInv == Init => Inv
<1> SUFFICES ASSUME Init PROVE Inv OBVIOUS
<1>1. MemoryOK
  <2>1. ByteRange - 1 \in Byte BY ConstantsOK DEF Byte
  <2> QED BY <2>1 DEF Init, MemoryOK
<1>2. RamOK /\ \A item \in Item, ch \in Channel : ram[item][ch] = Stored(val[0], item, ch)
  BY <1>1, LoadedOK DEF Init, MemoryOK
<1>3. UsesStored BY <1>2 DEF UsesStored
<1>4. AnswerOK /\ VoltIs /\ volts \in [Channel -> Nat]
  BY DEF Init, AnswerOK, VoltIs, Channel
<1> QED BY <1>1, <1>2, <1>3, <1>4 DEF Inv

LEMMA ShowKeeps ==
  ASSUME Inv, NEW item \in Item, NEW ch \in Channel, Show(item, ch)
  PROVE  Inv'
<1>1. Stored(val[0], item, ch) \in Int BY StoredRange, WordNat DEF Inv, MemoryOK
<1>2. AnswerOK' BY <1>1 DEF Show, AnswerOK, Item
<1>3. VoltIs' BY DEF Show, VoltIs, Item
<1>4. MemoryOK' /\ RamOK' /\ UsesStored' /\ volts' \in [Channel -> Nat]
  BY DEF Show, Inv, MemoryOK, RamOK, UsesStored, store, Word4
<1> QED BY <1>2, <1>3, <1>4 DEF Inv

LEMMA VoltKeeps ==
  ASSUME Inv, NEW ch \in Channel, Volt(ch)
  PROVE  Inv'
<1>1. Atoi(GetVolts(volts[ch], ram["calib"][ch], ram["offset"][ch])) \in Int
  BY AtoiInt DEF Inv, RamOK
<1>2. AnswerOK' BY <1>1 DEF Volt, AnswerOK
<1>3. VoltIs' BY DEF Volt, VoltIs
<1>4. MemoryOK' /\ RamOK' /\ UsesStored' /\ volts' \in [Channel -> Nat]
  BY DEF Volt, Inv, MemoryOK, RamOK, UsesStored, store, Word4
<1> QED BY <1>2, <1>3, <1>4 DEF Inv

LEMMA ConvertKeeps ==
  ASSUME Inv, NEW ch \in Channel, Convert(ch)
  PROVE  Inv'
<1>1. volts' \in [Channel -> Nat] BY ConstantsOK DEF Convert, Inv
<1>2. AnswerOK' /\ VoltIs' BY DEF Convert, Inv, AnswerOK, VoltIs
<1>3. MemoryOK' /\ RamOK' /\ UsesStored'
  BY DEF Convert, Inv, MemoryOK, RamOK, UsesStored, store, Word4
<1> QED BY <1>1, <1>2, <1>3 DEF Inv

LEMMA RestartKeepsInv ==
  ASSUME Inv, Restart
  PROVE  Inv'
<1>1. MemoryOK' /\ val' = kept /\ kept' = kept BY DEF Restart, Inv, MemoryOK, EE!Forget
<1>2. kept[0] \in [Offset -> Byte] BY DEF Inv, MemoryOK
<1>3. ram' = Loaded(kept[0]) BY DEF Restart
<1>4. \A item \in Item, ch \in Channel : ram'[item][ch] = Stored(kept[0], item, ch)
  BY <1>3 DEF Loaded
<1>5. RamOK'
  <2>1. \A item \in Item, ch \in Channel : Stored(kept[0], item, ch) \in Int
    BY <1>2, StoredRange, WordNat
  <2>2. ram' \in [Item -> [Channel -> Int]] BY <1>3, <2>1 DEF Loaded
  <2>3. "calib" \in Item /\ "offset" \in Item BY DEF Item
  <2> QED BY <1>2, <1>4, <2>2, <2>3, StoredRange DEF RamOK
<1>6. UsesStored' BY <1>1, <1>4 DEF UsesStored
<1>7. AnswerOK' /\ VoltIs' /\ volts' \in [Channel -> Nat] BY DEF Restart, Inv, AnswerOK, VoltIs
<1> QED BY <1>1, <1>5, <1>6, <1>7 DEF Inv

LEMMA CheckKeeps ==
  ASSUME Inv, Check \/ ChipDone
  PROVE  Inv'
<1>1. UNCHANGED <<ram, volts, answer>> /\ val' = val BY DEF Check, ChipDone, EE!Save, EE!Settle
<1>2. MemoryOK' BY DEF Check, ChipDone, EE!Save, EE!Settle, Inv, MemoryOK
<1> QED BY <1>1, <1>2 DEF Inv, RamOK, AnswerOK, VoltIs, UsesStored, Word4

\* The calibration commands: their word reads back as typed, or like erased
\* flash, and the other words as before.
LEMMA SetKeeps ==
  ASSUME Inv, NEW item \in Item, NEW ch \in Channel, NEW v \in Typed, Set(item, ch, v)
  PROVE  Inv'
<1> DEFINE m == val[0]
           w == Write4(m, Address(item, ch), Unsigned(v))
           x == IF item = "calib" THEN Unsigned(v) ELSE v
<1>1. m \in [Offset -> Byte] BY DEF Inv, MemoryOK
<1>2. v \in Int32 /\ Unsigned(v) \in UInt32 /\ Signed(Unsigned(v)) = v BY TypedOK
<1>3. w \in [Offset -> Byte] /\ Read4(w, Address(item, ch)) = Unsigned(v)
  BY <1>1, <1>2, AddressStart, WriteRead
<1>4. val' = [val EXCEPT ![0] = w] BY DEF Set
<1>5. ram' = [ram EXCEPT ![item][ch] = x] BY DEF Set
<1> HIDE DEF w
<1>6. val'[0] = w /\ MemoryOK' BY <1>3, <1>4 DEF Inv, MemoryOK, Set
<1>7. ram'[item][ch] = x BY <1>5 DEF Inv, RamOK
<1>8. \A j \in Item, d \in Channel : <<item, ch>> # <<j, d>> => ram'[j][d] = ram[j][d]
  BY <1>5 DEF Inv, RamOK
<1>9. RamOK'
  <2>1. x \in Int
    <3>1. Unsigned(v) \in Int /\ v \in Int BY <1>2, WordNat
    <3> QED BY <3>1
  <2>2. ram' \in [Item -> [Channel -> Int]] BY <1>5, <2>1 DEF Inv, RamOK
  <2>3. ASSUME NEW d \in Channel PROVE ram'["calib"][d] \in UInt32 /\ ram'["offset"][d] \in Int32
    BY <1>2, <1>7, <1>8 DEF Inv, RamOK, Item
  <2> QED BY <2>2, <2>3 DEF RamOK
<1>10. UsesStored'
  <2> SUFFICES ASSUME NEW j \in Item, NEW d \in Channel
               PROVE  \/ ram'[j][d] = Stored(w, j, d)
                      \/ Word4(w, j, d) = Blank /\ Unsigned(ram'[j][d]) = Blank
    BY <1>6 DEF UsesStored, Word4
  <2>1. CASE <<item, ch>> # <<j, d>>
    <3>1. Read4(w, Address(j, d)) = Read4(m, Address(j, d))
      BY <1>1, <1>2, <2>1, WriteOther DEF w
    <3>2. Stored(w, j, d) = Stored(m, j, d) /\ Word4(w, j, d) = Word4(m, j, d)
      BY <3>1 DEF Stored, Word4
    <3>3. ram'[j][d] = ram[j][d] BY <1>8, <2>1
    <3> QED BY <3>2, <3>3 DEF Inv, UsesStored
  <2>2. CASE item = j /\ ch = d
    <3>1. Word4(w, j, d) = Unsigned(v) BY <1>3, <2>2 DEF Word4
    <3>2. CASE Unsigned(v) # Blank
      BY <1>2, <1>3, <1>7, <2>2, <3>2 DEF Stored, Item
    <3>3. CASE Unsigned(v) = Blank
      <4>1. Unsigned(v) \in 0 .. Word - 1 BY <1>2 DEF UInt32
      <4>2. Unsigned(Unsigned(v)) = Unsigned(v) BY <4>1, WordNat, ModSmall DEF Unsigned
      <4>3. Unsigned(x) = Unsigned(v) BY <4>2
      <4> QED BY <1>7, <2>2, <3>1, <3>3, <4>3
    <3> QED BY <3>2, <3>3
  <2> QED BY <2>1, <2>2
<1>11. AnswerOK' /\ VoltIs' /\ volts' \in [Channel -> Nat]
  <2>1. Stored(w, item, ch) \in Int BY <1>3, StoredRange, WordNat
  <2>2. answer' = [to |-> item, channel |-> ch, number |-> Stored(w, item, ch)]
    BY <1>6 DEF Set
  <2> QED BY <2>1, <2>2 DEF Set, Inv, AnswerOK, VoltIs, Item
<1> QED BY <1>6, <1>9, <1>10, <1>11 DEF Inv

LEMMA NextKeeps == Inv /\ [Next]_vars => Inv'
<1> SUFFICES ASSUME Inv, [Next]_vars PROVE Inv' OBVIOUS
<1>1. CASE \E item \in Item, ch \in Channel : Show(item, ch) \/ \E v \in Typed : Set(item, ch, v)
  BY <1>1, ShowKeeps, SetKeeps
<1>2. CASE \E ch \in Channel : Volt(ch) \/ Convert(ch)
  BY <1>2, VoltKeeps, ConvertKeeps
<1>3. CASE Check \/ ChipDone BY <1>3, CheckKeeps
<1>4. CASE Restart BY <1>4, RestartKeepsInv
<1>5. CASE UNCHANGED vars
  BY <1>5 DEF vars, store, Inv, MemoryOK, RamOK, AnswerOK, VoltIs, UsesStored, Word4
<1> QED BY <1>1, <1>2, <1>3, <1>4, <1>5 DEF Next

LEMMA InvHolds == Spec => []Inv
  BY InitInv, NextKeeps, PTL DEF Spec

\* What a channel computes with is always what its own word in the memory
\* says, but for a number that reads like erased flash.
THEOREM UsesStoredHolds == Spec => []UsesStored
<1>1. Inv => UsesStored BY DEF Inv
<1> QED BY <1>1, InvHolds, PTL

\* The daemon publishes the voltage meant, wherever the words can hold it.
THEOREM VoltsExactHolds == Spec => []VoltsExact
<1>1. Inv => VoltsExact
  <2> SUFFICES ASSUME Inv PROVE VoltsExact OBVIOUS
  <2> SUFFICES ASSUME answer.to = "volt",
                      NEW ch \in Channel, ch = answer.channel,
                      NEW v, v = volts[ch], NEW c, c = ram["calib"][ch],
                      NEW o, o = ram["offset"][ch],
                      v * c < Word, Exact(v, c, o) \in Int32,
                      Exact(v, c, o) >= 0 \/ LongIsWide
               PROVE  answer.number = Exact(v, c, o)
    <3>1. AnswerOK BY DEF Inv
    <3>2. answer.channel \in Channel BY <3>1 DEF AnswerOK
    <3>3. volts[answer.channel] \in Nat /\ ram["calib"][answer.channel] \in Nat
      BY <3>2, WordNat DEF Inv, RamOK
    <3>4. volts[answer.channel] * ram["calib"][answer.channel] \in Nat BY <3>3, ProductNat
    <3> QED BY <3>2, <3>4, WordNat DEF VoltsExact
  <2>1. v \in Nat /\ c \in UInt32 /\ o \in Int32 BY DEF Inv, RamOK
  <2>2. answer.number = Atoi(GetVolts(v, c, o)) BY DEF Inv, VoltIs
  <2> QED BY <2>1, <2>2, PublishedExact
<1> QED BY <1>1, InvHolds, PTL

\* An answer tells the value in use.
THEOREM AnswerIsUsedHolds == Spec => []AnswerIsUsed
<1>1. Init => AnswerIsUsed BY DEF Init, AnswerIsUsed, Item
<1>2. Inv /\ Inv' /\ AnswerIsUsed /\ [Next]_vars => AnswerIsUsed'
  <2> SUFFICES ASSUME Inv, Inv', AnswerIsUsed, [Next]_vars PROVE AnswerIsUsed' OBVIOUS
  <2>1. ASSUME NEW item \in Item, NEW ch \in Channel, Show(item, ch) PROVE AnswerIsUsed'
    BY <2>1 DEF Show, store, Inv, UsesStored, AnswerIsUsed
  <2>2. ASSUME NEW item \in Item, NEW ch \in Channel, NEW v \in Typed, Set(item, ch, v)
        PROVE  AnswerIsUsed'
    <3>1. /\ answer'.to = item /\ answer'.channel = ch
          /\ answer'.number = Stored(val'[0], item, ch)
      BY <2>2 DEF Set
    <3>2. ram'[item][ch] = Stored(val'[0], item, ch) \/ Word4(val'[0], item, ch) = Blank
      BY DEF Inv, UsesStored
    <3> QED BY <3>1, <3>2 DEF AnswerIsUsed
  <2>3. ASSUME NEW ch \in Channel, Volt(ch) PROVE AnswerIsUsed'
    BY <2>3 DEF Volt, AnswerIsUsed, Item
  <2>4. ASSUME NEW ch \in Channel, Convert(ch) PROVE AnswerIsUsed'
    BY <2>4 DEF Convert, AnswerIsUsed, Item, Inv, AnswerOK
  <2>5. ASSUME Check \/ ChipDone PROVE AnswerIsUsed'
    <3>1. UNCHANGED <<ram, answer, val>> BY <2>5 DEF Check, ChipDone, EE!Save, EE!Settle
    <3> QED BY <3>1 DEF AnswerIsUsed, Word4
  <2>6. ASSUME Restart PROVE AnswerIsUsed'
    BY <2>6 DEF Restart, AnswerIsUsed, Item, Inv, AnswerOK
  <2>7. CASE UNCHANGED vars BY <2>7 DEF vars, store, AnswerIsUsed, Word4
  <2> QED BY <2>1, <2>2, <2>3, <2>4, <2>5, <2>6, <2>7 DEF Next
<1> QED BY <1>1, <1>2, InvHolds, PTL DEF Spec

\* A restart changes no calibration but one not written back, and one that
\* reads like erased flash.
THEOREM RestartKeepsHolds == Spec => RestartKeeps
<1> DEFINE Unchanged == \A item \in Item, ch \in Channel :
             \/ ram'[item][ch] = ram[item][ch]
             \/ Word4(kept[0], item, ch) # Word4(val[0], item, ch)
             \/ Word4(kept[0], item, ch) = Blank
<1>1. Inv /\ Restart => Unchanged
  <2> SUFFICES ASSUME Inv, Restart, NEW item \in Item, NEW ch \in Channel,
                      Word4(kept[0], item, ch) = Word4(val[0], item, ch),
                      Word4(kept[0], item, ch) # Blank
               PROVE  ram'[item][ch] = ram[item][ch]
    OBVIOUS
  <2>1. ram'[item][ch] = Stored(kept[0], item, ch) BY DEF Restart, Loaded
  <2>2. Stored(kept[0], item, ch) = Stored(val[0], item, ch) BY DEF Stored, Word4
  <2>3. ram[item][ch] = Stored(val[0], item, ch) BY DEF Inv, UsesStored
  <2> QED BY <2>1, <2>2, <2>3
<1>2. Inv /\ [Next]_vars => [Restart => Unchanged]_vars BY <1>1
<1> QED BY <1>2, InvHolds, PTL DEF Spec, RestartKeeps

\* Words keep to their 32 bits and to their signs.
THEOREM TypeCorrect == Spec => []TypeOK
<1> DEFINE Rest == busy \in {0, NoPage} /\ volts \in [Channel -> Raw \cup {0}] /\ sets \in 0 .. MaxSets
<1>1. Init => Rest BY CalibrationAssumption DEF Init
<1>2. Rest /\ [Next]_vars => Rest'
  <2> SUFFICES ASSUME Rest, [Next]_vars PROVE Rest' OBVIOUS
  <2>1. ASSUME NEW item \in Item, NEW ch \in Channel, Show(item, ch) PROVE Rest'
    BY <2>1 DEF Show, store
  <2>2. ASSUME NEW item \in Item, NEW ch \in Channel, NEW v \in Typed, Set(item, ch, v)
        PROVE  Rest'
    BY <2>2, CalibrationAssumption DEF Set
  <2>3. ASSUME NEW ch \in Channel, Volt(ch) PROVE Rest' BY <2>3 DEF Volt, store
  <2>4. ASSUME NEW ch \in Channel, Convert(ch) PROVE Rest' BY <2>4 DEF Convert, store
  <2>5. ASSUME Check \/ ChipDone PROVE Rest' BY <2>5 DEF Check, ChipDone, EE!Save, EE!Settle
  <2>6. ASSUME Restart PROVE Rest' BY <2>6 DEF Restart, EE!Forget
  <2>7. CASE UNCHANGED vars BY <2>7 DEF vars, store
  <2> QED BY <2>1, <2>2, <2>3, <2>4, <2>5, <2>6, <2>7 DEF Next
<1>3. Inv /\ Rest => TypeOK
  <2> SUFFICES ASSUME Inv, Rest PROVE TypeOK OBVIOUS
  <2>1. answer.number \in Int BY DEF Inv, AnswerOK
  <2>2. ram["calib"] \in [Channel -> UInt32] /\ ram["offset"] \in [Channel -> Int32]
    BY DEF Inv, RamOK, Item
  <2> QED BY <2>1, <2>2 DEF Inv, MemoryOK, TypeOK
<1> QED BY <1>1, <1>2, <1>3, InvHolds, PTL DEF Spec
=============================================================================
