--------------------------- MODULE FlashBusProofs --------------------------
(***************************************************************************)
(* Proofs about FlashBus, for every set of pages and offsets, every token  *)
(* and every number of resets.                                             *)
(***************************************************************************)
EXTENDS FlashBus, Division, FiniteSetTheorems, SequenceTheorems, TLAPS

-----------------------------------------------------------------------------
(* Addresses.  Page and offset share the second address byte, and each     *)
(* byte is cut to 8 bits by spi_transfer: nothing of either is lost.       *)

\* What 13 and 10 bits hold.
PageNumber == 0 .. 8191
Position == 0 .. 1023

\* A command byte and the three bytes of an address.
Addressed(x, p, o) == <<x, PageByte1(p), PageByte2(p, o), OffsetByte(o)>>

THEOREM AddressBytes ==
  ASSUME NEW p \in PageNumber, NEW o \in Position, NEW x
  PROVE  /\ \A i \in 2 .. 4 : Addressed(x, p, o)[i] \in 0 .. 255
         /\ PageAt(Addressed(x, p, o)) = p
         /\ OffsetAt(Addressed(x, p, o)) = o
<1> USE DEF PageNumber, Position
<1> DEFINE a == p \div 64
           r == p % 64
           q == o \div 256
           s == o % 256
<1>1. a \in 0 .. 127 /\ r \in 0 .. 63 /\ p = a * 64 + r
  <2>1. p < 128 * 64 OBVIOUS
  <2> QED BY <2>1, DivMod, DivBelow
<1>2. q \in 0 .. 3 /\ s \in 0 .. 255 /\ o = q * 256 + s
  <2>1. o < 4 * 256 OBVIOUS
  <2> QED BY <2>1, DivMod, DivBelow
<1>3. PageByte1(p) = a % 256 /\ PageByte2(p, o) = (p * 4 + q) % 256 /\ OffsetByte(o) = s
  BY DEF PageByte1, PageByte2, OffsetByte
<1> HIDE DEF a, r, q, s
<1>4. PICK k \in 0 .. 255 : k = 4 * r + q BY <1>1, <1>2
<1>5. (a % 256) = a BY <1>1, ModSmall
<1>6. ((p * 4 + q) % 256) = k
  <2>1. p * 4 + q = a * 256 + k BY <1>1, <1>2, <1>4
  <2>2. ((a * 256 + k) % 256) = k BY <1>1, DivUnique
  <2> QED BY <2>1, <2>2
<1>7. k \div 4 = r /\ (k % 4) = q
  <2>1. k = r * 4 + q BY <1>1, <1>2, <1>4
  <2>2. (r * 4 + q) \div 4 = r /\ ((r * 4 + q) % 4) = q BY <1>1, <1>2, DivUnique
  <2> QED BY <2>1, <2>2
<1> DEFINE f == Addressed(x, p, o)
<1>8. f[2] = a /\ f[3] = k /\ f[4] = s BY <1>3, <1>5, <1>6 DEF Addressed
<1> HIDE DEF f
<1>9. PageAt(f) = p
  <2>1. PageAt(f) = ((a * 64 + r) % 8192) BY <1>7, <1>8 DEF PageAt
  <2>2. (p % 8192) = p
    <3>1. p \in 0 .. 8192 - 1 OBVIOUS
    <3> QED BY <3>1, ModSmall
  <2> QED BY <1>1, <2>1, <2>2
<1>10. OffsetAt(f) = o
  <2>1. OffsetAt(f) = (f[3] % 4) * 256 + f[4] BY DEF OffsetAt
  <2>2. (f[3] % 4) = q BY <1>7, <1>8
  <2>3. OffsetAt(f) = q * 256 + s BY <1>8, <2>1, <2>2
  <2> QED BY <1>2, <2>3
<1>11. \A i \in 2 .. 4 : f[i] \in 0 .. 255
  <2>1. f[2] \in 0 .. 255 /\ f[3] \in 0 .. 255 /\ f[4] \in 0 .. 255 BY <1>1, <1>2, <1>4, <1>8
  <2>2. \A i \in 2 .. 4 : i = 2 \/ i = 3 \/ i = 4 OBVIOUS
  <2> QED BY <2>1, <2>2
<1> QED BY <1>9, <1>10, <1>11 DEF f

-----------------------------------------------------------------------------
(* Chip selects.                                                           *)

Boot4 == <<"flash", "pri", "sec", "id">>
Boot3 == <<"pri", "sec", "id">>
Boot2 == <<"sec", "id">>
Boot1 == <<"id">>

LEMMA BootTails ==
  /\ StartOrder = Boot4 /\ Boot4 # <<>> /\ Boot3 # <<>> /\ Boot2 # <<>> /\ Boot1 # <<>>
  /\ Tail(Boot4) = Boot3 /\ Tail(Boot3) = Boot2 /\ Tail(Boot2) = Boot1 /\ Tail(Boot1) = <<>>
  /\ Boot4[1] = "flash" /\ Boot3[1] = "pri" /\ Boot2[1] = "sec" /\ Boot1[1] = "id"
  /\ Boot4 # Boot3 /\ Boot4 # Boot2 /\ Boot4 # Boot1
  /\ Boot3 # Boot2 /\ Boot3 # Boot1 /\ Boot2 # Boot1
BY DEF StartOrder, Boot4, Boot3, Boot2, Boot1

BootOK == boot \in {Boot4, Boot3, Boot2, Boot1, <<>>}

\* Between the driver functions, a pin is low only if the start-up code has
\* still to raise it, and the flash's only alone.
IdlePins ==
  call = None =>
    /\ "flash" \in cs => boot = Boot4 /\ cs = {"flash"}
    /\ "pri" \in cs => boot \in {Boot4, Boot3}
    /\ "sec" \in cs => boot \in {Boot4, Boot3, Boot2}

\* Within one, the only other pin that may be low is that of the second
\* converter, while the start-up code clears the first.
CallPins ==
  call # None =>
    /\ boot # Boot4
    /\ boot = Boot3 => Pin = "pri"
    /\ boot = Boot2 => Pin = "sec"
    /\ boot = Boot1 => Pin = "flash"
    /\ Pin \in {"flash", "pri", "sec"}
    /\ "flash" \in cs => Pin = "flash"
    /\ "pri" \in cs => Pin = "pri"
    /\ "sec" \in cs => Pin = "sec" \/ boot = Boot3

PinInv == cs \subseteq {"flash", "pri", "sec"} /\ BootOK /\ IdlePins /\ CallPins

LEMMA PinInit == Init => PinInv
BY BootTails DEF Init, PinInv, BootOK, IdlePins, CallPins

LEMMA DataFlashInitPins == PinInv /\ DataFlashInit => PinInv'
BY BootTails DEF PinInv, BootOK, IdlePins, CallPins, DataFlashInit

LEMMA ConverterInitPins == PinInv /\ ConverterInit => PinInv'
<1> SUFFICES ASSUME PinInv, ConverterInit PROVE PinInv' OBVIOUS
<1>1. PICK ch \in Channel : boot[1] = ch BY DEF ConverterInit
<1>2. boot' = boot /\ cs' = cs \ {ch} /\ call' = [op |-> "clear", channel |-> ch]
  BY <1>1 DEF ConverterInit, Start
<1>3. Pin' = ch BY <1>2 DEF Pin
<1>4. (ch = "pri" /\ boot = Boot3) \/ (ch = "sec" /\ boot = Boot2)
  BY <1>1, BootTails DEF PinInv, BootOK, Channel, ConverterInit
<1>5. call = None BY DEF ConverterInit
<1>6. IdlePins' BY <1>2, <1>4, <1>5, BootTails DEF PinInv, IdlePins
<1>7. CallPins' BY <1>2, <1>3, <1>4, <1>5, BootTails DEF PinInv, IdlePins, CallPins
<1> QED BY <1>2, <1>6, <1>7 DEF PinInv, BootOK

LEMMA StartFlashPins ==
  ASSUME PinInv, call = None, boot \in {Boot1, <<>>}, NEW c, c.op \notin {"clear", "convert"},
         Start(c), UNCHANGED <<cs, boot>>
  PROVE  PinInv'
<1>1. cs = {} BY BootTails DEF PinInv, IdlePins
<1>2. call' = c BY DEF Start
<1>3. Pin' = "flash" BY <1>2 DEF Pin
<1> QED BY <1>1, <1>3, BootTails DEF PinInv, BootOK, IdlePins, CallPins

LEMMA ReadChipIDPins == PinInv /\ ReadChipID => PinInv'
<1> SUFFICES ASSUME PinInv, ReadChipID PROVE PinInv' OBVIOUS
<1>1. boot = Boot1 BY BootTails DEF PinInv, BootOK, ReadChipID
<1> QED BY <1>1, StartFlashPins DEF ReadChipID

LEMMA CallFlashPins == ASSUME NEW op \in FlashOps, PinInv, CallFlash(op) PROVE PinInv'
<1>1. PICK c \in FlashCall(op) : Start(c) BY DEF CallFlash
<1>2. c.op \notin {"clear", "convert"} BY DEF FlashCall, FlashOps
<1> QED BY <1>1, <1>2, StartFlashPins DEF CallFlash

LEMMA CallConvertPins == ASSUME NEW ch \in Channel, PinInv, CallConvert(ch) PROVE PinInv'
<1>1. cs = {} BY BootTails DEF PinInv, IdlePins, CallConvert
<1>2. call' = [op |-> "convert", channel |-> ch] /\ boot' = <<>> /\ cs' = cs
  BY DEF CallConvert, Start
<1>3. Pin' = ch BY <1>2 DEF Pin
<1> QED BY <1>1, <1>2, <1>3, BootTails DEF PinInv, BootOK, IdlePins, CallPins, Channel

LEMMA SelectPins == PinInv /\ Select => PinInv'
<1> SUFFICES ASSUME PinInv, Select PROVE PinInv' OBVIOUS
<1>1. call # None /\ call' = call /\ boot' = boot /\ cs' = cs \cup {Pin} BY DEF Select
<1>2. Pin' = Pin BY <1>1 DEF Pin
<1>3. CallPins /\ BootOK /\ cs \subseteq {"flash", "pri", "sec"} BY DEF PinInv
<1>4. CallPins' BY <1>1, <1>2, <1>3 DEF CallPins
<1>5. cs' \subseteq {"flash", "pri", "sec"} BY <1>1, <1>3 DEF CallPins
<1> QED BY <1>1, <1>3, <1>4, <1>5 DEF PinInv, BootOK, IdlePins

LEMMA StatusPins == PinInv /\ ReleaseStatus => PinInv'
<1> SUFFICES ASSUME PinInv, ReleaseStatus PROVE PinInv' OBVIOUS
<1>1. call # None /\ call' = call /\ boot' = boot /\ cs' = cs \ {Pin}
  BY DEF ReleaseStatus, CloseFrame, Raise
<1>2. Pin' = Pin BY <1>1 DEF Pin
<1> QED BY <1>1, <1>2 DEF PinInv, BootOK, IdlePins, CallPins

LEMMA ReleasePins == PinInv /\ Release => PinInv'
<1> SUFFICES ASSUME PinInv, Release PROVE PinInv' OBVIOUS
<1>1. /\ call # None /\ call' = None /\ cs' = cs \ {Pin}
      /\ boot' = IF boot = <<>> THEN boot ELSE Tail(boot)
  BY DEF Release, CloseFrame, Raise
<1>2. BootOK' BY <1>1, BootTails DEF PinInv, BootOK
<1>3. IdlePins' BY <1>1, BootTails DEF PinInv, BootOK, CallPins, IdlePins
<1> QED BY <1>1, <1>2, <1>3 DEF PinInv, CallPins

LEMMA ResetPins == PinInv /\ Reset => PinInv'
<1> SUFFICES ASSUME PinInv, Reset PROVE PinInv' OBVIOUS
<1>1. call' = None /\ cs' = cs /\ boot' = Boot4 BY BootTails DEF Reset
<1>2. "flash" \in cs => cs = {"flash"}
  BY BootTails DEF PinInv, BootOK, IdlePins, CallPins
<1> QED BY <1>1, <1>2 DEF PinInv, BootOK, IdlePins, CallPins

LEMMA PinNext == PinInv /\ [Next]_vars => PinInv'
<1> SUFFICES ASSUME PinInv, [Next]_vars PROVE PinInv' OBVIOUS
<1>1. ASSUME UNCHANGED <<cs, boot, call>> PROVE PinInv'
  BY <1>1 DEF PinInv, BootOK, IdlePins, CallPins, Pin
<1>2. CASE Transfer BY <1>1, <1>2 DEF Transfer
<1>3. CASE ChipDone BY <1>1, <1>3 DEF ChipDone
<1>4. ASSUME NEW ch \in Channel, ConvDone(ch) PROVE PinInv' BY <1>1, <1>4 DEF ConvDone
<1>5. CASE UNCHANGED vars BY <1>1, <1>5 DEF vars
<1> QED BY <1>2, <1>3, <1>4, <1>5, DataFlashInitPins, ConverterInitPins, ReadChipIDPins,
           CallFlashPins, CallConvertPins, SelectPins, StatusPins, ReleasePins, ResetPins DEF Next

LEMMA PinInvHolds == FairSpec => []PinInv
BY PinInit, PinNext, PTL DEF FairSpec

\* While the flash listens nobody else does, and one device at a time once the
\* start-up code is through, whenever the watchdog strikes.
THEOREM OneSelectedHolds == FairSpec => []OneSelected
<1>1. PinInv => OneSelected
  <2> SUFFICES ASSUME PinInv PROVE OneSelected OBVIOUS
  <2>1. "flash" \in cs => cs = {"flash"}
    BY BootTails DEF PinInv, BootOK, IdlePins, CallPins
  <2>2. boot = <<>> => cs = {} \/ \E x : cs = {x}
    <3> SUFFICES ASSUME boot = <<>> PROVE cs \subseteq {Pin} OBVIOUS
    <3> QED BY BootTails DEF PinInv, IdlePins, CallPins
  <2>3. boot = <<>> => Cardinality(cs) <= 1
    <3>1. cs = {} => Cardinality(cs) = 0 BY FS_EmptySet
    <3>2. (\E x : cs = {x}) => Cardinality(cs) = 1 BY FS_Singleton
    <3>3. Cardinality(cs) \in {0, 1} => Cardinality(cs) <= 1 OBVIOUS
    <3> QED BY <2>2, <3>1, <3>2, <3>3
  <2> QED BY <2>1, <2>3 DEF OneSelected
<1> QED BY <1>1, PinInvHolds, PTL

-----------------------------------------------------------------------------
(* Conversions.                                                            *)

\* The result of a conversion is clocked out only after spi_wait_miso_low.
Waited ==
  call # None /\ call.op = "convert" /\ Pin \in cs /\ Len(sent) > 2
    => conv[call.channel] = "done"

ConvInv ==
  /\ PinInv /\ Waited /\ FreshVolts
  /\ \E S : sent \in Seq(S)
  /\ conv \in [Channel -> {"idle", "running", "done"}]
  /\ DOMAIN volts = Channel /\ volts = [c \in Channel |-> volts[c]]
  /\ call # None /\ call.op \in {"clear", "convert"} => call.channel \in Channel

LEMMA ConvInit == Init => ConvInv
BY PinInit DEF Init, ConvInv, Waited, FreshVolts

\* Steps that leave the converters and their readings alone and start no
\* conversion with its pin low.
LEMMA QuietConv ==
  ASSUME ConvInv, PinInv', Waited', UNCHANGED volts,
         sent' = sent \/ sent' = <<>>,
         conv' \in [Channel -> {"idle", "running", "done"}],
         call' # None /\ call'.op \in {"clear", "convert"} => call'.channel \in Channel
  PROVE  ConvInv'
<1>1. \E S : sent' \in Seq(S)
  <2>1. <<>> \in Seq({}) OBVIOUS
  <2> QED BY <2>1 DEF ConvInv
<1> QED BY <1>1 DEF ConvInv, FreshVolts

LEMMA StartFlashConv ==
  ASSUME ConvInv, PinInv', NEW c, c.op \notin {"clear", "convert"}, Start(c),
         UNCHANGED <<sent, conv, volts>>
  PROVE  ConvInv'
<1>1. call' = c BY DEF Start
<1>2. Waited' BY <1>1 DEF Waited
<1>3. conv' \in [Channel -> {"idle", "running", "done"}] BY DEF ConvInv
<1> QED BY <1>1, <1>2, <1>3, QuietConv

LEMMA TransferConv == ConvInv /\ PinInv' /\ Transfer => ConvInv'
<1> SUFFICES ASSUME ConvInv, PinInv', Transfer PROVE ConvInv' OBVIOUS
<1>1. PICK S : sent \in Seq(S) BY DEF ConvInv
<1>2. PICK b : sent' = Append(sent, b) BY DEF Transfer
<1>3. sent' \in Seq(S \cup {b}) /\ Len(sent') = Len(sent) + 1 /\ Len(sent) \in Nat
  <2>1. sent \in Seq(S \cup {b}) BY <1>1
  <2> QED BY <1>2, <2>1
<1>4. call' = call /\ cs' = cs /\ volts' = volts /\ Pin \in cs /\ call # None /\ MisoLow
  BY DEF Transfer
<1>5. Pin' = Pin BY <1>4 DEF Pin
<1>6. conv' = IF call.op = "convert" /\ Len(sent) = 1
                THEN [conv EXCEPT ![call.channel] = "running"] ELSE conv
  BY DEF Transfer
<1>7. conv' \in [Channel -> {"idle", "running", "done"}] BY <1>6 DEF ConvInv
<1>8. Waited'
  <2> SUFFICES ASSUME call.op = "convert", Len(sent) + 1 > 2 PROVE conv'[call.channel] = "done"
    BY <1>3, <1>4 DEF Waited
  <2>1. Len(sent) \in Nat BY <1>3
  <2>2. Len(sent) # 1 /\ (Len(sent) = 2 \/ Len(sent) > 2)
    <3>1. \A n \in Nat : n + 1 > 2 => n # 1 /\ (n = 2 \/ n > 2) OBVIOUS
    <3> QED BY <2>1, <3>1
  <2>3. conv' = conv BY <1>6, <2>2
  <2>4. CASE Len(sent) = 2 BY <1>4, <2>3, <2>4 DEF MisoLow
  <2>5. CASE Len(sent) > 2 BY <1>4, <2>3, <2>5 DEF ConvInv, Waited
  <2> QED BY <2>2, <2>4, <2>5
<1>9. \E T : sent' \in Seq(T) BY <1>3
<1> QED BY <1>4, <1>7, <1>8, <1>9 DEF ConvInv, FreshVolts

LEMMA ReleaseConv == ConvInv /\ PinInv' /\ Release => ConvInv'
<1> SUFFICES ASSUME ConvInv, PinInv', Release PROVE ConvInv' OBVIOUS
<1>1. call # None /\ Pin \in cs /\ call' = None /\ sent' = sent /\ step = "command"
  BY DEF Release, CloseFrame
<1>2. Waited' BY <1>1 DEF Waited
<1>3. \E S : sent' \in Seq(S) BY <1>1 DEF ConvInv
<1>4. CASE Pin = "flash"
  <2>1. conv' = conv /\ volts' = volts BY <1>4 DEF Release
  <2> QED BY <1>1, <1>2, <1>3, <2>1 DEF ConvInv, FreshVolts
<1>5. CASE Pin # "flash"
  <2>1. /\ call.op \in {"clear", "convert"} /\ Pin = call.channel BY <1>5 DEF Pin
  <2>2. Pin \in Channel BY <1>1, <2>1 DEF ConvInv
  <2>3. /\ volts' = IF call.op = "convert"
                       THEN [volts EXCEPT ![Pin] = Converted(Pin) \div 256] ELSE volts
        /\ conv' = [conv EXCEPT ![Pin] = "idle"]
    BY <1>5 DEF Release
  <2>4. call.op = "convert" => conv[Pin] = "done"
    <3> SUFFICES ASSUME call.op = "convert" PROVE conv[Pin] = "done" OBVIOUS
    <3>1. Len(sent) = Len(Frame(call)) BY <1>1 DEF Release, CloseFrame, Bytes
    <3>2. Frame(call) = <<17, 130, 57, 0, 0, 0>> BY DEF Frame
    <3>3. Len(<<17, 130, 57, 0, 0, 0>>) = 6 OBVIOUS
    <3>4. Len(sent) > 2 BY <3>1, <3>2, <3>3
    <3> QED BY <1>1, <2>1, <3>4 DEF ConvInv, Waited
  <2>5. call.op = "convert" => Converted(Pin) = Value(Sample[Pin]) BY <2>4 DEF Converted
  <2>6. conv' \in [Channel -> {"idle", "running", "done"}] BY <2>2, <2>3 DEF ConvInv
  <2>7. DOMAIN volts' = Channel /\ volts' = [c \in Channel |-> volts'[c]]
    BY <2>2, <2>3 DEF ConvInv
  <2>8. ASSUME NEW c \in Channel PROVE volts'[c] \in {0, Value(Sample[c]) \div 256}
    BY <2>2, <2>3, <2>5 DEF ConvInv, FreshVolts
  <2> QED BY <1>1, <1>2, <1>3, <2>6, <2>7, <2>8 DEF ConvInv, FreshVolts
<1> QED BY <1>4, <1>5

LEMMA ConvNext == ConvInv /\ [Next]_vars => ConvInv'
<1> SUFFICES ASSUME ConvInv, [Next]_vars PROVE ConvInv' OBVIOUS
<1>1. PinInv' BY PinNext DEF ConvInv
<1>2. conv \in [Channel -> {"idle", "running", "done"}] BY DEF ConvInv
<1>3. CASE DataFlashInit
  <2>1. call = None /\ call' = call /\ UNCHANGED <<conv, volts>> /\ sent' = <<>>
    BY <1>3 DEF DataFlashInit
  <2> QED BY <1>1, <1>2, <2>1, QuietConv DEF Waited
<1>4. CASE ConverterInit
  <2>1. PICK ch \in Channel : boot[1] = ch BY <1>4 DEF ConverterInit
  <2>2. /\ call' = [op |-> "clear", channel |-> ch] /\ UNCHANGED <<sent, conv>>
        /\ volts' = [volts EXCEPT ![ch] = 0]
    BY <1>4, <2>1 DEF ConverterInit, Start
  <2>3. Waited' BY <2>2 DEF Waited
  <2>4. DOMAIN volts' = Channel /\ volts' = [c \in Channel |-> volts'[c]]
    BY <2>2 DEF ConvInv
  <2>5. FreshVolts' BY <2>2 DEF FreshVolts, ConvInv
  <2> QED BY <1>1, <2>2, <2>3, <2>4, <2>5 DEF ConvInv
<1>5. CASE ReadChipID
  BY <1>1, <1>5, StartFlashConv DEF ReadChipID
<1>6. ASSUME NEW op \in FlashOps, CallFlash(op) PROVE ConvInv'
  <2>1. PICK c \in FlashCall(op) : Start(c) BY <1>6 DEF CallFlash
  <2>2. c.op \notin {"clear", "convert"} BY DEF FlashCall, FlashOps
  <2> QED BY <1>1, <1>6, <2>1, <2>2, StartFlashConv DEF CallFlash
<1>7. ASSUME NEW ch \in Channel, CallConvert(ch) PROVE ConvInv'
  <2>1. cs = {} BY <1>7, BootTails DEF ConvInv, PinInv, IdlePins, CallConvert
  <2>2. call' = [op |-> "convert", channel |-> ch] /\ UNCHANGED <<sent, conv, volts, cs>>
    BY <1>7 DEF CallConvert, Start
  <2>3. Waited' BY <2>1, <2>2 DEF Waited
  <2> QED BY <1>1, <1>2, <2>2, <2>3, QuietConv
<1>8. CASE Select
  <2>1. UNCHANGED <<call, conv, volts>> /\ sent' = <<>> BY <1>8 DEF Select
  <2>2. Waited' BY <2>1 DEF Waited
  <2> QED BY <1>1, <1>2, <2>1, <2>2, QuietConv DEF ConvInv
<1>9. CASE ReleaseStatus
  <2>1. UNCHANGED <<call, conv, volts, sent>> /\ cs' = cs \ {Pin}
    BY <1>9 DEF ReleaseStatus, CloseFrame, Raise
  <2>2. Pin' = Pin BY <2>1 DEF Pin
  <2>3. Waited' BY <2>1, <2>2 DEF Waited
  <2> QED BY <1>1, <1>2, <2>1, <2>3, QuietConv DEF ConvInv
<1>10. CASE Reset
  <2>1. /\ call' = None /\ conv' = conv /\ volts' = [c \in Channel |-> 0]
        /\ sent' = sent \/ sent' = <<>>
    BY <1>10 DEF Reset
  <2>2. \E S : sent' \in Seq(S)
    <3>1. <<>> \in Seq({}) OBVIOUS
    <3> QED BY <2>1, <3>1 DEF ConvInv
  <2> QED BY <1>1, <2>1, <2>2 DEF ConvInv, Waited, FreshVolts
<1>11. CASE ChipDone
  <2>1. UNCHANGED <<call, conv, volts, sent, cs>> BY <1>11 DEF ChipDone
  <2> QED BY <1>1, <1>2, <2>1, QuietConv DEF ConvInv, Waited, Pin
<1>12. ASSUME NEW ch \in Channel, ConvDone(ch) PROVE ConvInv'
  <2>1. UNCHANGED <<call, volts, sent, cs>> /\ conv' = [conv EXCEPT ![ch] = "done"]
    BY <1>12 DEF ConvDone
  <2>2. conv' \in [Channel -> {"idle", "running", "done"}] BY <1>2, <2>1
  <2>3. Pin' = Pin BY <2>1 DEF Pin
  <2>4. Waited' BY <1>2, <2>1, <2>3 DEF ConvInv, Waited
  <2> QED BY <1>1, <2>1, <2>2, <2>4, QuietConv DEF ConvInv
<1>13. CASE UNCHANGED vars
  <2>1. UNCHANGED <<call, conv, volts, sent, cs>> BY <1>13 DEF vars
  <2> QED BY <1>1, <1>2, <2>1, QuietConv DEF ConvInv, Waited, Pin
<1>14. CASE Transfer BY <1>1, <1>14, TransferConv
<1>15. CASE Release BY <1>1, <1>15, ReleaseConv
<1> QED BY <1>3, <1>4, <1>5, <1>6, <1>7, <1>8, <1>9, <1>10, <1>11, <1>12, <1>13, <1>14, <1>15
       DEF Next

\* A channel's reading is nothing, or a finished conversion of its converter.
THEOREM FreshVoltsHolds == FairSpec => []FreshVolts
<1>1. ConvInv => FreshVolts BY DEF ConvInv
<1> QED BY <1>1, ConvInit, ConvNext, PTL DEF FairSpec
-----------------------------------------------------------------------------
(* What a frame says, whole or broken off.                                 *)

LEMMA IntConcat ==
  ASSUME NEW s \in Seq(Int), NEW t \in Seq(Int)
  PROVE  /\ s \o t \in Seq(Int) /\ Len(s \o t) = Len(s) + Len(t)
         /\ Len(s) \in Nat /\ Len(t) \in Nat
         /\ \A i \in 1 .. Len(s) + Len(t) :
              (s \o t)[i] = IF i <= Len(s) THEN s[i] ELSE t[i - Len(s)]
<1>1. /\ s \o t \in Seq(Int) /\ Len(s \o t) = Len(s) + Len(t)
      /\ \A i \in 1 .. Len(s) + Len(t) :
           (s \o t)[i] = IF i <= Len(s) THEN s[i] ELSE t[i - Len(s)]
  BY ConcatProperties, Zenon
<1>2. Len(s) \in Nat /\ Len(t) \in Nat BY LenProperties, Zenon
<1> QED BY <1>1, <1>2

LEMMA ConcatElements ==
  ASSUME NEW s \in Seq(Int), NEW t \in Seq(Int)
  PROVE  /\ \A i \in 1 .. Len(s) : (s \o t)[i] = s[i]
         /\ \A k \in 1 .. Len(t) : (s \o t)[Len(s) + k] = t[k]
<1> DEFINE f == s \o t
           m == Len(s)
           n == Len(t)
<1>1. m \in Nat /\ n \in Nat BY IntConcat
<1>2. \A i \in 1 .. m + n : f[i] = IF i <= m THEN s[i] ELSE t[i - m] BY IntConcat
<1> HIDE DEF f, m, n
<1>3. ASSUME NEW i \in 1 .. m PROVE f[i] = s[i]
  <2>1. i \in 1 .. m + n /\ i <= m BY <1>1
  <2> QED BY <1>2, <2>1
<1>4. ASSUME NEW k \in 1 .. n PROVE f[m + k] = t[k]
  <2>1. PICK j \in 1 .. m + n : j = m + k BY <1>1
  <2>2. j - m = k /\ ~(j <= m) BY <2>1, <1>1
  <2>3. f[j] = t[j - m] BY <1>2, <2>2
  <2> QED BY <2>1, <2>2, <2>3
<1> QED BY <1>3, <1>4 DEF f, m, n

LEMMA CommandAndThree ==
  ASSUME NEW x \in Int, NEW a \in Int, NEW b \in Int, NEW c \in Int
  PROVE  <<x>> \o <<a, b, c>> = <<x, a, b, c>>
<1> DEFINE s == <<x>>
           t == <<a, b, c>>
           r == <<x, a, b, c>>
<1>1. s \in Seq(Int) /\ Len(s) = 1 /\ s[1] = x OBVIOUS
<1>2. t \in Seq(Int) /\ Len(t) = 3 /\ t[1] = a /\ t[2] = b /\ t[3] = c OBVIOUS
<1>3. r \in Seq(Int) /\ Len(r) = 4 /\ r[1] = x /\ r[2] = a /\ r[3] = b /\ r[4] = c OBVIOUS
<1> HIDE DEF s, t, r
<1> DEFINE f == s \o t
<1>4. f \in Seq(Int) /\ Len(f) = Len(s) + Len(t) BY <1>1, <1>2, IntConcat
<1>5. /\ \A i \in 1 .. Len(s) : f[i] = s[i]
      /\ \A k \in 1 .. Len(t) : f[Len(s) + k] = t[k]
  BY <1>1, <1>2, ConcatElements
<1> HIDE DEF f
<1>6. f[1] = x BY <1>1, <1>5
<1>7. f[2] = a /\ f[3] = b /\ f[4] = c
  <2>1. \A k \in 1 .. 3 : f[1 + k] = t[k] BY <1>1, <1>2, <1>5
  <2>2. f[1 + 1] = t[1] /\ f[1 + 2] = t[2] /\ f[1 + 3] = t[3] BY <2>1
  <2>3. 1 + 1 = 2 /\ 1 + 2 = 3 /\ 1 + 3 = 4 OBVIOUS
  <2> QED BY <1>2, <2>2, <2>3
<1>8. Len(f) = Len(r) BY <1>1, <1>2, <1>3, <1>4
<1>9. \A i \in 1 .. Len(f) : f[i] = r[i]
  <2>1. \A i \in 1 .. 4 : i = 1 \/ i = 2 \/ i = 3 \/ i = 4 OBVIOUS
  <2> QED BY <1>3, <1>6, <1>7, <1>8, <2>1
<1>10. f = r BY <1>3, <1>4, <1>8, <1>9, SeqEqual
<1> QED BY <1>10 DEF f, s, t, r

LEMMA AddressedSeq ==
  ASSUME NEW x \in Int, NEW q \in PageNumber, NEW b \in Position
  PROVE  /\ Addressed(x, q, b) \in Seq(Int) /\ Len(Addressed(x, q, b)) = 4
         /\ Addressed(x, q, b)[1] = x
<1> DEFINE f == Addressed(x, q, b)
           y == PageByte1(q)
           z == PageByte2(q, b)
           w == OffsetByte(b)
<1>1. f = <<x, y, z, w>> BY DEF Addressed
<1>2. f[2] \in 0 .. 255 /\ f[3] \in 0 .. 255 /\ f[4] \in 0 .. 255
  <2>1. 2 \in 2 .. 4 /\ 3 \in 2 .. 4 /\ 4 \in 2 .. 4 OBVIOUS
  <2>2. \A i \in 2 .. 4 : f[i] \in 0 .. 255 BY AddressBytes
  <2> HIDE DEF f
  <2> QED BY <2>1, <2>2
<1> HIDE DEF f, y, z, w
<1>3. f[2] = y /\ f[3] = z /\ f[4] = w /\ f[1] = x BY <1>1
<1>4. y \in Int /\ z \in Int /\ w \in Int BY <1>2, <1>3
<1>5. f \in Seq(Int) /\ Len(f) = 4 BY <1>1, <1>4
<1> QED BY <1>3, <1>5 DEF f

\* An address in a buffer, and one of a whole page.
LEMMA InBuffer ==
  ASSUME NEW x \in Int, NEW b \in Position
  PROVE  <<x>> \o <<0, b \div 256, OffsetByte(b)>> = Addressed(x, 0, b)
<1>1. (0 \div 64) = 0 /\ ((0 % 256)) = 0 OBVIOUS
<1>2. b \div 256 \in 0 .. 3
  <2>1. b \in Nat /\ b < 4 * 256 BY DEF Position
  <2> QED BY <2>1, DivBelow
<1>3. ((b \div 256) % 256) = b \div 256
  <2>1. b \div 256 \in 0 .. 256 - 1 BY <1>2
  <2> QED BY <2>1, ModSmall
<1>4. PageByte1(0) = 0 BY <1>1 DEF PageByte1
<1>5. PageByte2(0, b) = b \div 256
  <2>1. 0 * 4 + b \div 256 = b \div 256 BY <1>2
  <2> QED BY <1>3, <2>1 DEF PageByte2
<1>6. b \div 256 \in Int /\ OffsetByte(b) \in Int
  <2>1. b \in Nat BY DEF Position
  <2>2. (b % 256) \in 0 .. 255 BY <2>1, DivMod
  <2> QED BY <1>2, <2>2 DEF OffsetByte
<1>7. <<x>> \o <<0, b \div 256, OffsetByte(b)>> = <<x, 0, b \div 256, OffsetByte(b)>>
  BY <1>6, CommandAndThree
<1> QED BY <1>4, <1>5, <1>7 DEF Addressed

LEMMA InPage ==
  ASSUME NEW x \in Int, NEW q \in PageNumber
  PROVE  <<x>> \o <<PageByte1(q), PageByte2(q, 0), 0>> = Addressed(x, q, 0)
<1>1. OffsetByte(0) = 0 BY SMT DEF OffsetByte
<1>2. PageByte1(q) \in Int /\ PageByte2(q, 0) \in Int
  <2>1. q \div 64 \in Int /\ q * 4 + 0 \div 256 \in Int BY DEF PageNumber
  <2>2. ASSUME NEW u \in Int PROVE (u % 256) \in Int
    <3>1. (u % 256) \in 0 .. 256 - 1 BY ModRange
    <3> QED BY <3>1
  <2> QED BY <2>1, <2>2 DEF PageByte1, PageByte2
<1>3. <<x>> \o <<PageByte1(q), PageByte2(q, 0), 0>> = <<x, PageByte1(q), PageByte2(q, 0), 0>>
  BY <1>2, CommandAndThree
<1> QED BY <1>1, <1>3 DEF Addressed

FlashOK(c) == \E op \in FlashOps : c \in FlashCall(op) /\ TokenCheck(c)

\* The first byte of a frame, as the function has it.
FirstByte(c) == IF c.op = "read" THEN 210 ELSE Code[c.op][c.buffer]

LEMMA CallFields ==
  ASSUME NEW c, FlashOK(c)
  PROVE  /\ c.op \in FlashOps
         /\ c.buffer \in {1, 2} /\ c.offset \in Offset /\ c.offset \in Position
         /\ TokenPage(c) \in Page /\ TokenPage(c) \in PageNumber
         /\ TokenPage(c) = FirstPage + c.page
<1>1. PICK op \in FlashOps : c \in FlashCall(op) /\ c.page < Size BY DEF FlashOK, TokenCheck
<1>2. c.op = op /\ c.page \in 0 .. Size /\ c.offset \in Offset /\ c.buffer \in {1, 2}
  BY <1>1 DEF FlashCall
<1>3. c.offset \in Position
  <2>1. \A o \in Offset : o \in Position BY BusAssumption DEF BusAssumption, Position
  <2> QED BY <1>2, <2>1
<1>4. FirstPage \in Nat /\ Size \in Nat BY BusAssumption DEF BusAssumption
<1>5. TokenPage(c) = FirstPage + c.page BY <1>2, <1>4 DEF TokenPage
<1>6. TokenPage(c) \in FirstPage .. FirstPage + Size - 1 BY <1>1, <1>2, <1>4, <1>5
<1>7. FirstPage .. FirstPage + Size - 1 \subseteq Page BY BusAssumption DEF BusAssumption
<1>8. Page \subseteq PageNumber BY BusAssumption DEF BusAssumption, PageNumber
<1>9. TokenPage(c) \in Page /\ TokenPage(c) \in PageNumber BY <1>6, <1>7, <1>8, Zenon
<1> QED BY <1>1, <1>2, <1>3, <1>5, <1>9

LEMMA CallData ==
  ASSUME NEW c, FlashOK(c)
  PROVE  c.data \in Seq({0, 1}) /\ Len(c.data) \in 1 .. 2 /\ c.n \in {1, 2}
<1>1. PICK op \in FlashOps : c \in FlashCall(op) BY DEF FlashOK
<1>2. c.n \in {1, 2} /\ c.data \in {<<1>>, <<1, 0>>} BY <1>1 DEF FlashCall
<1>3. <<1>> \in Seq({0, 1}) /\ Len(<<1>>) = 1 OBVIOUS
<1>4. <<1, 0>> \in Seq({0, 1}) /\ Len(<<1, 0>>) = 2 OBVIOUS
<1>5. 1 \in 1 .. 2 /\ 2 \in 1 .. 2 OBVIOUS
<1> QED BY <1>2, <1>3, <1>4, <1>5, Zenon

LEMMA Codes ==
  \A b \in {1, 2} : /\ Code["load"][b] \in Int /\ Code["program"][b] \in Int
                    /\ Code["bufread"][b] \in Int /\ Code["bufwrite"][b] \in Int
BY DEF Code

LEMMA ZerosSeq == ASSUME NEW n \in {1, 2, 4} PROVE Zeros(n) \in Seq(Int)
BY DEF Zeros

\* A frame is an address, and what follows it.
Follows(c) ==
  CASE c.op = "read" -> Zeros(4) \o Zeros(c.n)
    [] c.op = "bufread" -> Zeros(1) \o Zeros(c.n)
    [] c.op = "bufwrite" -> c.data
    [] OTHER -> <<>>
AddressOf(c) ==
  Addressed(FirstByte(c), IF c.op \in {"bufread", "bufwrite"} THEN 0 ELSE TokenPage(c),
            IF c.op \in {"load", "program"} THEN 0 ELSE c.offset)

LEMMA FollowsSeq ==
  ASSUME NEW c, FlashOK(c)
  PROVE  Follows(c) \in Seq(Int)
<1>1. c.op \in FlashOps BY CallFields
<1>2. c.n \in {1, 2, 4} BY CallData
<1>3. c.data \in Seq(Int)
  <2>1. {0, 1} \subseteq Int OBVIOUS
  <2> QED BY <2>1, CallData, SeqMonotonic
<1>4. Zeros(4) \o Zeros(c.n) \in Seq(Int) BY <1>2, ZerosSeq, IntConcat
<1>5. Zeros(1) \o Zeros(c.n) \in Seq(Int) BY <1>2, ZerosSeq, IntConcat
<1>6. <<>> \in Seq(Int) OBVIOUS
<1> QED BY <1>3, <1>4, <1>5, <1>6 DEF Follows

LEMMA AddressOfSeq ==
  ASSUME NEW c, FlashOK(c)
  PROVE  /\ AddressOf(c) \in Seq(Int) /\ Len(AddressOf(c)) = 4
         /\ AddressOf(c)[1] = FirstByte(c) /\ FirstByte(c) \in Int
         /\ c.op \in {"read", "load", "program"} => PageAt(AddressOf(c)) = TokenPage(c)
         /\ c.op \in {"read", "bufread", "bufwrite"} => OffsetAt(AddressOf(c)) = c.offset
<1> DEFINE q == IF c.op \in {"bufread", "bufwrite"} THEN 0 ELSE TokenPage(c)
           o == IF c.op \in {"load", "program"} THEN 0 ELSE c.offset
           x == FirstByte(c)
<1>1. q \in PageNumber /\ o \in Position
  <2>1. 0 \in PageNumber /\ 0 \in Position BY DEF PageNumber, Position
  <2> QED BY <2>1, CallFields
<1>2. x \in Int
  <2>1. c.op = "read" \/ c.op = "load" \/ c.op = "program" \/ c.op = "bufread" \/ c.op = "bufwrite"
    BY CallFields DEF FlashOps
  <2>2. c.buffer \in {1, 2} BY CallFields
  <2> QED BY <2>1, <2>2, Codes DEF FirstByte
<1>3. AddressOf(c) = Addressed(x, q, o) BY DEF AddressOf
<1>4. c.op \in {"read", "load", "program"} => q = TokenPage(c) OBVIOUS
<1>5. c.op \in {"read", "bufread", "bufwrite"} => o = c.offset OBVIOUS
<1> HIDE DEF q, o
<1>6. PageAt(AddressOf(c)) = q /\ OffsetAt(AddressOf(c)) = o BY <1>1, <1>3, AddressBytes
<1> QED BY <1>1, <1>2, <1>3, <1>4, <1>5, <1>6, AddressedSeq

LEMMA FrameParts == ASSUME NEW c, FlashOK(c) PROVE Frame(c) = AddressOf(c) \o Follows(c)
<1>1. AddressOf(c) \in Seq(Int) /\ FirstByte(c) \in Int /\ Follows(c) \in Seq(Int)
  BY AddressOfSeq, FollowsSeq
<1>2. TokenPage(c) \in PageNumber /\ c.offset \in Position /\ c.op \in FlashOps BY CallFields
<1>3. c.n \in {1, 2, 4} BY CallData
<1> DEFINE p == TokenPage(c)
           o == c.offset
           x == FirstByte(c)
<1>4. CASE c.op = "read"
  <2> DEFINE h == Addressed(210, p, o)
             s == Zeros(4)
             t == Zeros(c.n)
  <2>1. AddressOf(c) = h /\ Follows(c) = s \o t BY <1>4 DEF AddressOf, Follows, FirstByte
  <2>2. Frame(c) = h \o s \o t BY <1>4 DEF Frame, Addressed
  <2>3. h \in Seq(Int) /\ s \in Seq(Int) /\ t \in Seq(Int) BY <1>1, <1>3, <2>1, ZerosSeq
  <2> HIDE DEF h, s, t
  <2>4. (h \o s) \o t = h \o (s \o t) BY <2>3, ConcatAssociative
  <2> QED BY <2>1, <2>2, <2>4
<1>5. CASE c.op \in {"load", "program"}
  <2>1. Follows(c) = <<>> /\ AddressOf(c) = Addressed(x, p, 0) BY <1>5 DEF Follows, AddressOf
  <2>2. Frame(c) = <<x>> \o <<PageByte1(p), PageByte2(p, 0), 0>> BY <1>5 DEF Frame, FirstByte
  <2>3. Frame(c) = AddressOf(c) BY <1>1, <1>2, <2>1, <2>2, InPage
  <2>4. AddressOf(c) \o <<>> = AddressOf(c) BY <1>1, ConcatEmptySeq
  <2> QED BY <2>1, <2>3, <2>4
<1>6. CASE c.op = "bufread"
  <2> DEFINE s == Zeros(1)
             t == Zeros(c.n)
             h == <<x>> \o <<0, o \div 256, OffsetByte(o)>>
  <2>1. Follows(c) = s \o t /\ AddressOf(c) = Addressed(x, 0, o) BY <1>6 DEF Follows, AddressOf
  <2>2. Frame(c) = h \o s \o t BY <1>6 DEF Frame, FirstByte
  <2>3. h = AddressOf(c) BY <1>1, <1>2, <2>1, InBuffer
  <2>4. s \in Seq(Int) /\ t \in Seq(Int) BY <1>3, ZerosSeq
  <2> HIDE DEF h, s, t
  <2>5. h \in Seq(Int) BY <1>1, <2>3
  <2>6. (h \o s) \o t = h \o (s \o t) BY <2>4, <2>5, ConcatAssociative
  <2> QED BY <2>1, <2>2, <2>3, <2>6
<1>7. CASE c.op = "bufwrite"
  <2>1. Follows(c) = c.data /\ AddressOf(c) = Addressed(x, 0, o) BY <1>7 DEF Follows, AddressOf
  <2>2. Frame(c) = <<x>> \o <<0, o \div 256, OffsetByte(o)>> \o c.data BY <1>7 DEF Frame, FirstByte
  <2> QED BY <1>1, <1>2, <2>1, <2>2, InBuffer
<1> QED BY <1>2, <1>4, <1>5, <1>6, <1>7 DEF FlashOps

\* Four bytes of command and address, then zeros or the data.
LEMMA FrameShape ==
  ASSUME NEW c, FlashOK(c)
  PROVE  /\ Frame(c) \in Seq(Int) /\ Len(Frame(c)) \in Nat /\ Len(Frame(c)) >= 4
         /\ Frame(c)[1] = FirstByte(c)
         /\ c.op \in {"read", "load", "program"} => PageAt(Frame(c)) = TokenPage(c)
         /\ c.op \in {"read", "bufread", "bufwrite"} => OffsetAt(Frame(c)) = c.offset
         /\ c.op \in {"load", "program"} => Len(Frame(c)) = 4
         /\ c.op = "bufwrite" =>
              /\ Len(Frame(c)) = 4 + Len(c.data)
              /\ \A k \in 1 .. Len(c.data) : Frame(c)[4 + k] = c.data[k]
<1> DEFINE h == AddressOf(c)
           t == Follows(c)
           f == Frame(c)
<1>1. f = h \o t BY FrameParts
<1>2. /\ h \in Seq(Int) /\ Len(h) = 4 /\ h[1] = FirstByte(c)
      /\ c.op \in {"read", "load", "program"} => PageAt(h) = TokenPage(c)
      /\ c.op \in {"read", "bufread", "bufwrite"} => OffsetAt(h) = c.offset
  BY AddressOfSeq
<1>3. t \in Seq(Int) BY FollowsSeq
<1>4. /\ c.op \in {"load", "program"} => t = <<>>
      /\ c.op = "bufwrite" => t = c.data
  BY DEF Follows
<1> HIDE DEF h, t, f
<1>5. /\ f \in Seq(Int) /\ Len(f) = 4 + Len(t) /\ Len(t) \in Nat
      /\ \A i \in 1 .. 4 : f[i] = h[i]
      /\ \A k \in 1 .. Len(t) : f[4 + k] = t[k]
  <2>1. f \in Seq(Int) /\ Len(f) = Len(h) + Len(t) /\ Len(t) \in Nat
    BY <1>1, <1>2, <1>3, IntConcat
  <2>2. /\ \A i \in 1 .. Len(h) : f[i] = h[i]
        /\ \A k \in 1 .. Len(t) : f[Len(h) + k] = t[k]
    BY <1>1, <1>2, <1>3, ConcatElements
  <2> QED BY <1>2, <2>1, <2>2
<1>6. f[1] = h[1] /\ f[2] = h[2] /\ f[3] = h[3] /\ f[4] = h[4]
  <2>1. 1 \in 1 .. 4 /\ 2 \in 1 .. 4 /\ 3 \in 1 .. 4 /\ 4 \in 1 .. 4 OBVIOUS
  <2> QED BY <1>5, <2>1
<1>7. PageAt(f) = PageAt(h) /\ OffsetAt(f) = OffsetAt(h) BY <1>6 DEF PageAt, OffsetAt
<1>8. Len(f) \in Nat /\ Len(f) >= 4 BY <1>5
<1>9. c.op \in {"load", "program"} => Len(f) = 4
  <2>1. Len(<<>>) = 0 OBVIOUS
  <2> QED BY <1>4, <1>5, <2>1
<1> QED BY <1>2, <1>4, <1>5, <1>6, <1>7, <1>8, <1>9 DEF f

\* The first byte tells the function and the buffer.
LEMMA CodeValues ==
  /\ Code["load"][1] = 83 /\ Code["load"][2] = 85
  /\ Code["program"][1] = 131 /\ Code["program"][2] = 134
  /\ Code["bufread"][1] = 212 /\ Code["bufread"][2] = 214
  /\ Code["bufwrite"][1] = 132 /\ Code["bufwrite"][2] = 135
BY DEF Code

LEMMA Decode ==
  ASSUME NEW c, FlashOK(c), NEW f, f[1] = FirstByte(c),
         NEW op \in {"load", "program", "bufread", "bufwrite"}
  PROVE  /\ (\E b \in {1, 2} : Code[op][b] = f[1]) <=> c.op = op
         /\ c.op = op => BufferOf(f, op) = c.buffer
<1>1. c.buffer \in {1, 2} /\ c.op \in {"read", "load", "program", "bufread", "bufwrite"}
  BY CallFields DEF FlashOps
<1>2. f[1] = IF c.op = "read" THEN 210 ELSE Code[c.op][c.buffer] BY DEF FirstByte
<1>3. (\E b \in {1, 2} : Code[op][b] = f[1]) => c.op = op BY <1>1, <1>2, CodeValues
<1>4. c.op = op => Code[op][c.buffer] = f[1]
  <2>1. op # "read" OBVIOUS
  <2> QED BY <1>2, <2>1
<1>5. c.op = op => \A b \in {1, 2} : Code[op][b] = f[1] => b = c.buffer
  <2>1. Code[op][1] # Code[op][2] BY CodeValues
  <2> QED BY <1>1, <1>4, <2>1
<1> QED BY <1>1, <1>3, <1>4, <1>5 DEF BufferOf

Agrees(s, f) == Len(s) <= Len(f) /\ \A i \in 1 .. Len(s) : s[i] = f[i]

\* What the flash makes of the bytes s of the frame of c, four of them or more.
Read(s, c) ==
  /\ s[1] = FirstByte(c)
  /\ c.op \in {"read", "load", "program"} => PageAt(s) = TokenPage(c)
  /\ c.op \in {"read", "bufread", "bufwrite"} => OffsetAt(s) = c.offset
  /\ c.op \in {"load", "program"} => Len(s) = 4
  /\ c.op = "bufwrite" =>
       /\ Len(s) - 4 \in 0 .. Len(c.data)
       /\ \A k \in 1 .. Len(s) - 4 : s[4 + k] = c.data[k]

LEMMA ReadsFrame ==
  ASSUME NEW c, FlashOK(c), NEW s, Len(s) \in Nat, Len(s) >= 4, Agrees(s, Frame(c))
  PROVE  Read(s, c)
<1> DEFINE f == Frame(c)
<1>1. Len(s) <= Len(f) /\ \A i \in 1 .. Len(s) : s[i] = f[i] BY DEF Agrees
<1>2. /\ Len(f) \in Nat /\ f[1] = FirstByte(c)
      /\ c.op \in {"read", "load", "program"} => PageAt(f) = TokenPage(c)
      /\ c.op \in {"read", "bufread", "bufwrite"} => OffsetAt(f) = c.offset
      /\ c.op \in {"load", "program"} => Len(f) = 4
      /\ c.op = "bufwrite" => /\ Len(f) = 4 + Len(c.data)
                              /\ \A k \in 1 .. Len(c.data) : f[4 + k] = c.data[k]
  BY FrameShape
<1> HIDE DEF f
<1>3. s[1] = f[1] /\ s[2] = f[2] /\ s[3] = f[3] /\ s[4] = f[4] BY <1>1
<1>4. PageAt(s) = PageAt(f) /\ OffsetAt(s) = OffsetAt(f) BY <1>3 DEF PageAt, OffsetAt
<1>5. c.op \in {"load", "program"} => Len(s) = 4 BY <1>1, <1>2
<1>6. ASSUME c.op = "bufwrite"
      PROVE  /\ Len(s) - 4 \in 0 .. Len(c.data)
             /\ \A k \in 1 .. Len(s) - 4 : s[4 + k] = c.data[k]
  <2> DEFINE n == Len(c.data)
             l == Len(s)
  <2>1. n \in Nat /\ l \in Nat /\ l >= 4 /\ l <= 4 + n BY <1>1, <1>2, <1>6, CallData
  <2>2. \A i \in 1 .. l : s[i] = f[i] BY <1>1
  <2>3. \A k \in 1 .. n : f[4 + k] = c.data[k] BY <1>2, <1>6
  <2> HIDE DEF n, l
  <2>4. ASSUME NEW k \in 1 .. l - 4 PROVE s[4 + k] = c.data[k]
    <3>1. k \in 1 .. n /\ 4 + k \in 1 .. l BY <2>1
    <3> QED BY <2>2, <2>3, <3>1
  <2> QED BY <2>1, <2>4 DEF n, l
<1> QED BY <1>2, <1>3, <1>4, <1>5, <1>6 DEF Read

Cell == Byte \cup {0, 1}
Stored == mem \in [Page -> [Offset -> Cell]] /\ buf \in [{1, 2} -> [Offset -> Cell]]


\* What comes of it: the operation, or the first n bytes of a write.
Effected(c, n) ==
  \/ c.op \in {"read", "bufread"} /\ UNCHANGED flashVars
  \/ c.op = "load" /\ FP!Load(FirstPage + c.page, c.buffer)
  \/ c.op = "program" /\ FP!Program(FirstPage + c.page, c.buffer)
  \/ c.op = "bufwrite" /\ n = 0 /\ UNCHANGED flashVars
  \/ /\ c.op = "bufwrite" /\ n \in 1 .. Len(c.data)
     /\ FP!WriteBuffer(c.buffer, c.offset, SubSeq(c.data, 1, n))

LEMMA Written ==
  ASSUME Stored, NEW b \in {1, 2}, NEW w \in Position, NEW s, NEW d \in Seq({0, 1}),
         Len(s) - 4 \in 0 .. Len(d), Len(s) \in Nat,
         \A k \in 1 .. Len(s) - 4 : s[4 + k] = d[k],
         buf' = [buf EXCEPT ![b] =
                   [o \in Offset |-> IF o - w \in 0 .. Len(s) - 5 THEN s[5 + o - w] ELSE @[o]]],
         UNCHANGED <<mem, prog>>
  PROVE  /\ Len(s) - 4 = 0 => UNCHANGED flashVars
         /\ Len(s) - 4 > 0 => FP!WriteBuffer(b, w, SubSeq(d, 1, Len(s) - 4))
<1> DEFINE n == Len(s) - 4
           e == SubSeq(d, 1, n)
<1>1. n \in Nat /\ n <= Len(d) /\ Len(d) \in Nat BY LenProperties
<1>2. \A k \in 1 .. n : s[4 + k] = d[k] OBVIOUS
<1>4. buf' = [buf EXCEPT ![b] =
                [o \in Offset |-> IF o - w \in 0 .. n - 1 THEN s[5 + o - w] ELSE buf[b][o]]]
  <2>1. n - 1 = Len(s) - 5 OBVIOUS
  <2> QED BY <2>1
<1> HIDE DEF n
<1>3. DOMAIN e = 1 .. n /\ \A k \in 1 .. n : e[k] = d[k]
  <2>1. n > 0 \/ n = 0 BY <1>1
  <2> QED BY <1>1, <2>1
<1> HIDE DEF e
<1>5. Offset \subseteq Int BY BusAssumption DEF BusAssumption
<1>6. ASSUME NEW o \in Offset
      PROVE  (IF o - w \in 0 .. n - 1 THEN s[5 + o - w] ELSE buf[b][o])
               = (IF o - w + 1 \in DOMAIN e THEN e[o - w + 1] ELSE buf[b][o])
  <2>1. PICK k \in Int : k = o - w + 1 BY <1>5 DEF Position
  <2>2. o - w \in 0 .. n - 1 <=> k \in 1 .. n BY <1>1, <1>5, <2>1 DEF Position
  <2>3. 5 + o - w = 4 + k BY <1>5, <2>1 DEF Position
  <2>4. k \in 1 .. n => s[4 + k] = e[k] BY <1>2, <1>3
  <2> QED BY <1>3, <2>1, <2>2, <2>3, <2>4
<1>7. FP!WriteBuffer(b, w, e) BY <1>4, <1>6 DEF FP!WriteBuffer
<1>8. n = 0 => UNCHANGED flashVars
  <2> SUFFICES ASSUME n = 0 PROVE buf' = buf BY DEF flashVars
  <2>1. ASSUME NEW o \in Offset PROVE ~(o - w \in 0 .. n - 1)
    BY <1>5 DEF Position
  <2>2. buf[b] = [o \in Offset |-> buf[b][o]] BY DEF Stored
  <2>3. buf' = [buf EXCEPT ![b] = buf[b]] BY <1>4, <2>1, <2>2
  <2> QED BY <2>3 DEF Stored
<1> QED BY <1>7, <1>8 DEF n, e

LEMMA Executed ==
  ASSUME NEW c, FlashOK(c), NEW s, Len(s) \in Nat, Len(s) >= 4, Read(s, c), Stored, Execute(s)
  PROVE  /\ prog # NoPage => UNCHANGED flashVars
         /\ prog = NoPage => Effected(c, Len(s) - 4)
<1>1. /\ c.op \in {"read", "load", "program", "bufread", "bufwrite"} /\ c.buffer \in {1, 2}
      /\ TokenPage(c) \in Page /\ TokenPage(c) = FirstPage + c.page /\ c.offset \in Position
  BY CallFields DEF FlashOps
<1>2. s[1] = FirstByte(c) BY DEF Read
<1>3. \A op \in {"load", "program", "bufread", "bufwrite"} :
        /\ (\E b \in {1, 2} : Code[op][b] = s[1]) <=> c.op = op
        /\ c.op = op => BufferOf(s, op) = c.buffer
  BY <1>2, Decode
<1>4. \A op \in {"load", "program", "bufread", "bufwrite"} :
        Means(s, op) <=> prog = NoPage /\ c.op = op
  BY <1>3 DEF Means
<1>5. CASE prog # NoPage BY <1>4, <1>5 DEF Execute
<1>6. CASE prog = NoPage /\ c.op \in {"read", "bufread"}
  <2>1. UNCHANGED flashVars BY <1>4, <1>6 DEF Execute
  <2> QED BY <1>6, <2>1 DEF Effected
<1>7. CASE prog = NoPage /\ c.op = "load"
  <2>1. PageAt(s) = FirstPage + c.page /\ PageAt(s) \in Page BY <1>1, <1>7 DEF Read
  <2>2. /\ buf' = [buf EXCEPT ![BufferOf(s, "load")] = mem[PageAt(s)]]
        /\ UNCHANGED <<mem, prog>>
    BY <1>4, <1>7, <2>1 DEF Execute
  <2>3. FP!Load(FirstPage + c.page, c.buffer) BY <1>3, <1>7, <2>1, <2>2 DEF FP!Load
  <2> QED BY <1>7, <2>3 DEF Effected
<1>8. CASE prog = NoPage /\ c.op = "program"
  <2>1. PageAt(s) = FirstPage + c.page /\ PageAt(s) \in Page BY <1>1, <1>8 DEF Read
  <2>2. /\ mem' = [mem EXCEPT ![PageAt(s)] = buf[BufferOf(s, "program")]]
        /\ prog' = PageAt(s) /\ UNCHANGED buf
    BY <1>4, <1>8, <2>1 DEF Execute
  <2>3. FP!Program(FirstPage + c.page, c.buffer) BY <1>3, <1>8, <2>1, <2>2 DEF FP!Program
  <2> QED BY <1>8, <2>3 DEF Effected
<1>9. CASE prog = NoPage /\ c.op = "bufwrite"
  <2> DEFINE n == Len(s) - 4
  <2>1. OffsetAt(s) = c.offset /\ BufferOf(s, "bufwrite") = c.buffer BY <1>3, <1>9 DEF Read
  <2>2. n \in 0 .. Len(c.data) /\ \A k \in 1 .. n : s[4 + k] = c.data[k] BY <1>9 DEF Read
  <2>3. /\ buf' = [buf EXCEPT ![c.buffer] =
             [o \in Offset |-> IF o - c.offset \in 0 .. Len(s) - 5
                                 THEN s[5 + o - c.offset] ELSE @[o]]]
        /\ UNCHANGED <<mem, prog>>
    BY <1>4, <1>9, <2>1 DEF Execute
  <2>4. /\ n = 0 => UNCHANGED flashVars
        /\ n > 0 => FP!WriteBuffer(c.buffer, c.offset, SubSeq(c.data, 1, n))
    BY <1>1, <2>2, <2>3, CallData, Written
  <2> HIDE DEF n
  <2>5. n = 0 \/ (n > 0 /\ n \in 1 .. Len(c.data))
    <3> DEFINE l == Len(c.data)
    <3>1. l \in Nat /\ n \in 0 .. l BY <2>2, CallData
    <3> HIDE DEF l
    <3>2. n = 0 \/ (n > 0 /\ n \in 1 .. l) BY <3>1
    <3> QED BY <3>2 DEF l
  <2>6. Effected(c, n) BY <1>9, <2>4, <2>5 DEF Effected
  <2> QED BY <1>9, <2>6 DEF n
<1> QED BY <1>1, <1>5, <1>6, <1>7, <1>8, <1>9

LEMMA StoredEffect ==
  ASSUME NEW c, FlashOK(c), NEW n, Stored, Effected(c, n)
  PROVE  Stored'
<1>1. c.buffer \in {1, 2} /\ FirstPage + c.page \in Page BY CallFields
<1>2. CASE UNCHANGED flashVars BY <1>2 DEF Stored, flashVars
<1>3. CASE FP!Load(FirstPage + c.page, c.buffer) BY <1>1, <1>3 DEF FP!Load, Stored
<1>4. CASE FP!Program(FirstPage + c.page, c.buffer) BY <1>1, <1>4 DEF FP!Program, Stored
<1>5. CASE n \in 1 .. Len(c.data) /\ FP!WriteBuffer(c.buffer, c.offset, SubSeq(c.data, 1, n))
  <2> DEFINE d == SubSeq(c.data, 1, n)
             w == c.offset
  <2>1. d \in Seq({0, 1}) BY <1>5, CallData
  <2>2. \A i \in DOMAIN d : d[i] \in Cell BY <2>1 DEF Cell
  <2>3. /\ buf' = [buf EXCEPT ![c.buffer] =
             [i \in Offset |-> IF i - w + 1 \in DOMAIN d THEN d[i - w + 1] ELSE buf[c.buffer][i]]]
        /\ mem' = mem
    BY <1>5 DEF FP!WriteBuffer
  <2> HIDE DEF d, w
  <2>4. [i \in Offset |-> IF i - w + 1 \in DOMAIN d THEN d[i - w + 1] ELSE buf[c.buffer][i]]
          \in [Offset -> Cell]
    BY <1>1, <2>2 DEF Stored
  <2> QED BY <1>1, <2>3, <2>4 DEF Stored
<1> QED BY <1>2, <1>3, <1>4, <1>5 DEF Effected

LEMMA Returned ==
  ASSUME NEW c, FlashOK(c), NEW s, Len(s) >= 4, Read(s, c), prog = NoPage
  PROVE  (IF c.op \in {"read", "bufread"} THEN Clocked(s, c.n) ELSE <<>>) = FP!Result(c)
<1>1. /\ c.op \in {"read", "load", "program", "bufread", "bufwrite"} /\ c.buffer \in {1, 2}
      /\ TokenPage(c) \in Page /\ TokenPage(c) = FirstPage + c.page
  BY CallFields DEF FlashOps
<1>2. s[1] = FirstByte(c) BY DEF Read
<1>3. CASE c.op = "read"
  <2>1. s[1] = 210 BY <1>2, <1>3 DEF FirstByte
  <2>2. PageAt(s) = FirstPage + c.page /\ PageAt(s) \in Page /\ OffsetAt(s) = c.offset
    BY <1>1, <1>3 DEF Read
  <2>3. Clocked(s, c.n) = [i \in 1 .. c.n |-> mem[PageAt(s)][OffsetAt(s) + i - 1]]
    <3>1. ~Means(s, "bufread") BY <1>2, <1>3, Decode DEF Means
    <3> QED BY <2>1, <2>2, <3>1 DEF Clocked
  <2> QED BY <1>3, <2>2, <2>3 DEF FP!Result
<1>4. CASE c.op = "bufread"
  <2>1. s[1] # 210
    <3>1. s[1] = Code["bufread"][c.buffer] BY <1>2, <1>4 DEF FirstByte
    <3> QED BY <1>1, <3>1, CodeValues
  <2>2. Means(s, "bufread") /\ BufferOf(s, "bufread") = c.buffer
    <3>1. /\ (\E b \in {1, 2} : Code["bufread"][b] = s[1]) <=> c.op = "bufread"
          /\ c.op = "bufread" => BufferOf(s, "bufread") = c.buffer
      BY <1>2, Decode
    <3> QED BY <1>4, <3>1 DEF Means
  <2>3. OffsetAt(s) = c.offset BY <1>4 DEF Read
  <2>4. Clocked(s, c.n) = [i \in 1 .. c.n |-> buf[c.buffer][c.offset + i - 1]]
    BY <2>1, <2>2, <2>3 DEF Clocked
  <2> QED BY <1>4, <2>4 DEF FP!Result
<1>5. CASE c.op \in {"load", "program", "bufwrite"} BY <1>5 DEF FP!Result
<1> QED BY <1>1, <1>3, <1>4, <1>5

\* The whole frame has the whole effect.
LEMMA WholeFrame ==
  ASSUME NEW c, FlashOK(c), NEW s, Len(s) = Len(Frame(c)), Agrees(s, Frame(c)),
         Stored, Execute(s), prog = NoPage
  PROVE  Stored' /\ FP!Effect(c) /\ Read(s, c) /\ Len(s) >= 4
<1>1. Len(s) \in Nat /\ Len(s) >= 4 /\ (c.op = "bufwrite" => Len(s) = 4 + Len(c.data))
  BY FrameShape
<1>2. Read(s, c) BY <1>1, ReadsFrame
<1>3. Effected(c, Len(s) - 4) BY <1>1, <1>2, Executed
<1>4. Stored' BY <1>3, StoredEffect
<1> SUFFICES FP!Effect(c) BY <1>1, <1>2, <1>4
<1>5. CASE c.op = "bufwrite"
  <2> DEFINE n == Len(s) - 4
             l == Len(c.data)
  <2>1. n = l /\ l \in Nat /\ l > 0
    <3>1. l \in 1 .. 2 BY CallData
    <3> HIDE DEF l
    <3>2. l \in Nat /\ l > 0 BY <3>1
    <3>3. Len(s) = 4 + l BY <1>1, <1>5 DEF l
    <3> QED BY <3>2, <3>3
  <2>2. SubSeq(c.data, 1, n) = c.data
    <3>1. SubSeq(c.data, 1, l) = c.data BY CallData
    <3> HIDE DEF n, l
    <3> QED BY <2>1, <3>1
  <2>3. Effected(c, n) BY <1>3
  <2> HIDE DEF n, l
  <2>4. n # 0 BY <2>1
  <2>5. FP!WriteBuffer(c.buffer, c.offset, SubSeq(c.data, 1, n)) BY <1>5, <2>3, <2>4 DEF Effected
  <2>6. FP!WriteBuffer(c.buffer, c.offset, c.data) BY <2>2, <2>5
  <2> QED BY <1>5, <2>6 DEF FP!Effect
<1>6. CASE c.op # "bufwrite"
  <2>1. CASE c.op \in {"read", "bufread"} /\ UNCHANGED flashVars
    BY <2>1 DEF FP!Effect, flashVars, FP!flash
  <2>2. CASE c.op = "load" /\ FP!Load(FirstPage + c.page, c.buffer) BY <2>2 DEF FP!Effect
  <2>3. CASE c.op = "program" /\ FP!Program(FirstPage + c.page, c.buffer) BY <2>3 DEF FP!Effect
  <2> QED BY <1>3, <1>6, <2>1, <2>2, <2>3 DEF Effected
<1> QED BY <1>5, <1>6

\* A frame broken off is one of the ends FlashPages allows.
LEMMA BrokenFrame ==
  ASSUME NEW c, FlashOK(c), NEW s, Len(s) \in Nat, Len(s) >= 4, Agrees(s, Frame(c)),
         Stored, Execute(s)
  PROVE  /\ Stored'
         /\ \/ UNCHANGED flashVars
            \/ FP!Effect(c)
            \/ /\ c.op = "bufwrite"
               /\ \E n \in DOMAIN c.data : FP!Effect([c EXCEPT !.data = SubSeq(c.data, 1, n)])
<1>1. Read(s, c) BY ReadsFrame
<1>2. CASE prog # NoPage BY <1>1, <1>2, Executed DEF Stored, flashVars
<1>3. CASE prog = NoPage
  <2>1. Effected(c, Len(s) - 4) BY <1>1, <1>3, Executed
  <2>2. Stored' BY <2>1, StoredEffect
  <2>3. ASSUME c.op = "bufwrite", NEW n \in 1 .. Len(c.data),
               FP!WriteBuffer(c.buffer, c.offset, SubSeq(c.data, 1, n))
        PROVE  \E m \in DOMAIN c.data : FP!Effect([c EXCEPT !.data = SubSeq(c.data, 1, m)])
    <3> DEFINE d == [c EXCEPT !.data = SubSeq(c.data, 1, n)]
    <3>1. n \in DOMAIN c.data BY CallData
    <3>2. /\ d.op = "bufwrite" /\ d.buffer = c.buffer /\ d.offset = c.offset
          /\ d.data = SubSeq(c.data, 1, n)
      <4>1. PICK op \in FlashOps : c \in FlashCall(op) BY DEF FlashOK
      <4> QED BY <2>3, <4>1 DEF FlashCall
    <3> HIDE DEF d
    <3>3. FP!Effect(d) BY <1>3, <2>3, <3>2 DEF FP!Effect
    <3> QED BY <3>1, <3>3 DEF d
  <2> QED BY <1>3, <2>1, <2>2, <2>3 DEF Effected, FP!Effect
<1> QED BY <1>2, <1>3

LEMMA ShortFrame ==
  ASSUME NEW s, Len(s) \in Nat, Len(s) < 4, Execute(s)
  PROVE  UNCHANGED flashVars
<1>1. ~(Len(s) >= 4) OBVIOUS
<1> QED BY <1>1 DEF Execute, Means

-----------------------------------------------------------------------------
(* The bus implements the pages.                                           *)

\* The function running has sent a part of its frame, and a flash command is
\* begun only when the flash is ready for it.
Commanded ==
  call # None =>
    /\ step \in {"status", "command"}
    /\ FlashOK(call) \/ call.op \in {"id", "clear", "convert"}
    /\ step = "status" => Pin = "flash"
    /\ Pin \in cs => Agrees(sent, Bytes)
    /\ step = "command" /\ Pin = "flash" => prog = NoPage
    /\ step = "status" /\ Pin \in cs /\ Len(sent) = 2 /\ ready => prog = NoPage

\* What a reset left in the flash's shift register is too short to mean
\* anything, or a part of the frame of the call it cut off.
CutOff ==
  /\ broken # None => boot = Boot4 /\ FlashOK(broken)
  /\ call = None /\ "flash" \in cs =>
       Len(sent) < 4 \/ (broken # None /\ Agrees(sent, Frame(broken)))

BusInv == ConvInv /\ Stored /\ Commanded /\ CutOff

LEMMA BusInit == Init => BusInv
<1> SUFFICES ASSUME Init PROVE BusInv OBVIOUS
<1>1. Stored
  <2>1. FirstPage \in Page
    <3>1. FirstPage \in Nat /\ Size \in Nat \ {0} BY BusAssumption DEF BusAssumption
    <3>2. FirstPage \in FirstPage .. FirstPage + Size - 1 BY <3>1
    <3>3. FirstPage .. FirstPage + Size - 1 \subseteq Page BY BusAssumption DEF BusAssumption
    <3> QED BY <3>2, <3>3, Zenon
  <2>2. mem \in [Page -> [Offset -> Cell]] BY DEF Init, Cell
  <2>3. buf = [b \in {1, 2} |-> mem[FirstPage]] BY DEF Init
  <2> QED BY <2>1, <2>2, <2>3 DEF Stored
<1>2. Commanded /\ CutOff BY DEF Init, Commanded, CutOff
<1> QED BY <1>1, <1>2, ConvInit DEF BusInv

LEMMA SentSeq == ASSUME BusInv PROVE Len(sent) \in Nat
<1>1. PICK S : sent \in Seq(S) BY DEF BusInv, ConvInv
<1> QED BY <1>1, LenProperties

\* Calls of the flash have six names of their own.
LEMMA FlashNames ==
  ASSUME NEW c, FlashOK(c)
  PROVE  c.op \in FlashOps /\ c.op \notin {"id", "clear", "convert"}
<1>1. c.op \in FlashOps BY CallFields
<1> QED BY <1>1 DEF FlashOps

LEMMA BytesLen ==
  ASSUME BusInv, call # None
  PROVE  Len(Bytes) \in Nat
<1>1. CASE step = "status" BY <1>1 DEF Bytes, StatusFrame
<1>2. CASE step # "status" /\ FlashOK(call) BY <1>2, FrameShape DEF Bytes
<1>3. CASE step # "status" /\ call.op = "id" BY <1>3 DEF Bytes, Frame
<1>4. CASE step # "status" /\ call.op = "convert" BY <1>4 DEF Bytes, Frame
<1>5. CASE step # "status" /\ call.op = "clear"
  <2>1. Bytes = [i \in 1 .. 8 |-> 255] BY <1>5 DEF Bytes, Frame
  <2> QED BY <2>1
<1> QED BY <1>1, <1>2, <1>3, <1>4, <1>5 DEF BusInv, Commanded

\* Steps of the processor that leave the bus alone, between two calls.
LEMMA CallStarts ==
  ASSUME BusInv, ConvInv', call = None, NEW c, Start(c),
         FlashOK(c) \/ c.op \in {"id", "clear", "convert"},
         "flash" \notin cs', c.op \in {"clear", "convert"} => c.channel \notin cs',
         UNCHANGED <<boot, sent, flashVars, broken>>
  PROVE  BusInv'
<1>1. call' = c /\ step' = IF c.op \in {"clear", "convert"} THEN "command" ELSE "status"
  BY DEF Start
<1>2. Pin' = IF c.op \in {"clear", "convert"} THEN c.channel ELSE "flash" BY <1>1 DEF Pin
<1>3. Stored' BY DEF BusInv, Stored, flashVars
<1>4. Pin' \notin cs' BY <1>2
<1>6. CutOff' BY DEF BusInv, CutOff
<1>5. CASE c = None
  <2>1. Commanded' BY <1>1, <1>5 DEF Commanded
  <2> QED BY <1>3, <1>6, <2>1 DEF BusInv
<1>7. CASE c # None
  <2>1. step' = "command" /\ Pin' = "flash" => FALSE
    <3>1. c.op \in {"clear", "convert"} => c.channel \in Channel
      BY <1>1, <1>7 DEF ConvInv
    <3> QED BY <1>1, <1>2, <3>1 DEF Channel
  <2>2. Commanded' BY <1>1, <1>2, <1>4, <2>1 DEF Commanded
  <2> QED BY <1>3, <1>6, <2>2 DEF BusInv
<1> QED BY <1>5, <1>7

\* The pin of the function running stays its own, and what is cut off is as it was.
LEMMA CallGoesOn ==
  ASSUME BusInv, ConvInv', Commanded', call # None, call' # None,
         UNCHANGED <<boot, flashVars, broken>>
  PROVE  BusInv'
<1>1. Stored' BY DEF BusInv, Stored, flashVars
<1>2. CutOff' BY DEF BusInv, CutOff
<1> QED BY <1>1, <1>2 DEF BusInv

LEMMA SelectBus == ASSUME BusInv, ConvInv', Select PROVE BusInv'
<1>1. /\ call # None /\ UNCHANGED <<call, step, ready, boot, flashVars, broken>>
      /\ sent' = <<>>
  BY DEF Select
<1>2. Pin' = Pin /\ Bytes' = Bytes BY <1>1 DEF Pin, Bytes
<1>3. Len(sent') = 0 BY <1>1
<1>4. Agrees(sent', Bytes')
  <2>1. Len(Bytes) \in Nat BY <1>1, BytesLen
  <2> QED BY <1>2, <1>3, <2>1 DEF Agrees
<1>5. prog' = prog BY <1>1 DEF flashVars
<1>6. Commanded' BY <1>1, <1>2, <1>3, <1>4, <1>5 DEF BusInv, Commanded
<1> QED BY <1>1, <1>6, CallGoesOn

LEMMA TransferBus == ASSUME BusInv, ConvInv', Transfer PROVE BusInv'
<1>1. /\ call # None /\ UNCHANGED <<call, step, cs, boot, flashVars, broken>>
      /\ Pin \in cs /\ Len(sent) < Len(Bytes)
      /\ sent' = Append(sent, Bytes[Len(sent) + 1])
      /\ ready' = IF step = "status" /\ Len(sent) = 1 THEN prog = NoPage ELSE ready
  BY DEF Transfer
<1>2. Pin' = Pin /\ Bytes' = Bytes BY <1>1 DEF Pin, Bytes
<1>3. Len(Bytes) \in Nat /\ Len(sent) \in Nat BY <1>1, BytesLen, SentSeq
<1>4. Agrees(sent, Bytes) BY <1>1 DEF BusInv, Commanded
<1>5. PICK S : sent \in Seq(S) BY DEF BusInv, ConvInv
<1> DEFINE m == Len(sent)
           e == Bytes[m + 1]
<1>6. /\ Len(sent') = m + 1
      /\ \A i \in 1 .. m : sent'[i] = sent[i]
      /\ sent'[m + 1] = e
  <2> DEFINE T == S \cup {e}
  <2>1. sent \in Seq(T) /\ e \in T
    <3>1. S \subseteq T OBVIOUS
    <3> HIDE DEF T
    <3>2. sent \in Seq(T) BY <1>5, <3>1, SeqMonotonic
    <3> QED BY <3>2 DEF T
  <2>2. sent' = Append(sent, e) BY <1>1
  <2> HIDE DEF T, e
  <2> QED BY <2>1, <2>2, AppendProperties, Zenon
<1>7. \A i \in 1 .. m : sent[i] = Bytes[i] BY <1>4 DEF Agrees
<1>8. m \in Nat /\ m + 1 <= Len(Bytes) BY <1>1, <1>3
<1>9. Agrees(sent', Bytes)
  <2> HIDE DEF m
  <2>1. ASSUME NEW i \in 1 .. m + 1 PROVE sent'[i] = Bytes[i]
    <3>1. i \in 1 .. m \/ i = m + 1 BY <1>8
    <3> QED BY <1>6, <1>7, <3>1
  <2> QED BY <1>6, <1>8, <2>1 DEF Agrees
<1>10. prog' = prog BY <1>1 DEF flashVars
<1>11. step = "status" /\ Len(sent') = 2 /\ ready' => prog = NoPage
  <2> HIDE DEF m
  <2>1. Len(sent') = 2 => m = 1
    <3>1. Len(sent') = m + 1 /\ m \in Nat BY <1>6, <1>8
    <3>2. m + 1 = 2 => m = 1 BY <3>1
    <3> QED BY <3>1, <3>2, Zenon
  <2> QED BY <1>1, <2>1 DEF m
<1>12. Commanded' BY <1>1, <1>2, <1>9, <1>10, <1>11 DEF BusInv, Commanded
<1> QED BY <1>1, <1>12, CallGoesOn

LEMMA ReleaseStatusBus == ASSUME BusInv, ConvInv', ReleaseStatus PROVE BusInv'
<1>1. /\ call # None /\ step = "status" /\ Pin \in cs /\ Len(sent) = Len(Bytes)
      /\ step' = IF ready THEN "command" ELSE "status"
      /\ cs' = cs \ {Pin} /\ UNCHANGED <<call, sent, ready, boot, flashVars, broken>>
  BY DEF ReleaseStatus, CloseFrame, Raise
<1>2. Pin' = Pin BY <1>1 DEF Pin
<1>3. Len(sent) = 2 BY <1>1 DEF Bytes, StatusFrame
<1>4. ready => prog = NoPage BY <1>1, <1>3 DEF BusInv, Commanded
<1>5. prog' = prog BY <1>1 DEF flashVars
<1>6. Pin = "flash" BY <1>1 DEF BusInv, Commanded
<1>7. Commanded' BY <1>1, <1>2, <1>4, <1>5, <1>6 DEF BusInv, Commanded
<1> QED BY <1>1, <1>7, CallGoesOn

LEMMA ChipDoneBus == ASSUME BusInv, ConvInv', ChipDone PROVE BusInv'
<1>1. /\ prog' = NoPage /\ UNCHANGED <<mem, buf>>
      /\ UNCHANGED <<call, step, cs, sent, ready, boot, broken>>
  BY DEF ChipDone
<1>2. Pin' = Pin /\ Bytes' = Bytes BY <1>1 DEF Pin, Bytes
<1>3. Commanded' BY <1>1, <1>2 DEF BusInv, Commanded
<1>4. Stored' BY <1>1 DEF BusInv, Stored
<1>5. CutOff' BY <1>1 DEF BusInv, CutOff
<1> QED BY <1>3, <1>4, <1>5 DEF BusInv

LEMMA QuietBus ==
  ASSUME BusInv, ConvInv', UNCHANGED <<call, step, cs, sent, ready, boot, broken, flashVars>>
  PROVE  BusInv'
<1>1. Pin' = Pin /\ Bytes' = Bytes BY DEF Pin, Bytes
<1>2. UNCHANGED <<mem, buf, prog>> BY DEF flashVars
<1>3. Commanded' BY <1>1, <1>2 DEF BusInv, Commanded
<1>4. Stored' BY <1>2 DEF BusInv, Stored
<1>5. CutOff' BY DEF BusInv, CutOff
<1> QED BY <1>3, <1>4, <1>5 DEF BusInv

LEMMA ResetBus == ASSUME BusInv, ConvInv', Reset PROVE BusInv'
<1>1. /\ call' = None /\ boot' = Boot4 /\ cs' = cs /\ UNCHANGED flashVars
      /\ sent' = IF "flash" \in cs THEN sent ELSE <<>>
      /\ broken' = IF OpInHand # None THEN OpInHand ELSE broken
  BY BootTails DEF Reset
<1>2. Stored' BY <1>1 DEF BusInv, Stored, flashVars
<1>3. Commanded' BY <1>1 DEF Commanded
<1>4. broken' # None => FlashOK(broken')
  <2>1. OpInHand # None => FlashOK(OpInHand)
    BY DEF BusInv, Commanded, OpInHand, FlashOps
  <2>2. broken # None => FlashOK(broken) BY DEF BusInv, CutOff
  <2> QED BY <1>1, <2>1, <2>2
<1>5. ASSUME "flash" \in cs
      PROVE  Len(sent) < 4 \/ (broken' # None /\ Agrees(sent, Frame(broken')))
  <2>1. CASE call = None
    <3>1. broken' = broken BY <1>1, <2>1 DEF OpInHand
    <3> QED BY <1>5, <2>1, <3>1 DEF BusInv, CutOff
  <2>2. CASE call # None
    <3>1. Pin = "flash" BY <1>5, <2>2 DEF BusInv, ConvInv, PinInv, CallPins
    <3>2. Agrees(sent, Bytes) BY <1>5, <2>2, <3>1 DEF BusInv, Commanded
    <3>3. Len(sent) \in Nat /\ Len(sent) <= Len(Bytes) BY <3>2, SentSeq DEF Agrees
    <3>4. CASE step = "status"
      <4>1. Len(Bytes) = 2 BY <3>4 DEF Bytes, StatusFrame
      <4> QED BY <3>3, <4>1
    <3>5. CASE step # "status" /\ FlashOK(call)
      <4>1. OpInHand = call BY <2>2, <3>5, FlashNames DEF OpInHand
      <4>2. broken' = call BY <1>1, <2>2, <4>1
      <4> QED BY <2>2, <3>2, <3>5, <4>2 DEF Bytes
    <3>6. CASE step # "status" /\ call.op = "id"
      <4>1. Len(Bytes) = 3 BY <3>6 DEF Bytes, Frame
      <4> QED BY <3>3, <4>1
    <3>7. call.op \in {"clear", "convert"} => FALSE
      <4>1. call.op \in {"clear", "convert"} => call.channel \in Channel /\ Pin = call.channel
        BY <2>2 DEF BusInv, ConvInv, Pin
      <4> QED BY <3>1, <4>1 DEF Channel
    <3> QED BY <2>2, <3>4, <3>5, <3>6, <3>7 DEF BusInv, Commanded
  <2> QED BY <2>1, <2>2
<1>6. CutOff' BY <1>1, <1>4, <1>5 DEF CutOff
<1> QED BY <1>2, <1>3, <1>6 DEF BusInv

Mapped == FP!PagesNext \/ UNCHANGED FP!pageVars

LEMMA StutterStep ==
  ASSUME OpInHand' = OpInHand, UNCHANGED <<flashVars, ret, broken, resets>>
  PROVE  Mapped
BY DEF Mapped, FP!pageVars, FP!flash, flashVars

LEMMA ForgetStep ==
  ASSUME OpInHand = None, OpInHand' = None, ret' = <<>>, UNCHANGED <<flashVars, broken, resets>>
  PROVE  Mapped
BY DEF Mapped, FP!PagesNext, FP!Forget, FP!flash, flashVars

LEMMA DataFlashInitStep == ASSUME BusInv, ConvInv', DataFlashInit PROVE BusInv' /\ Mapped
<1>1. /\ call = None /\ call' = None /\ "flash" \notin cs' /\ broken' = None
      /\ IF "flash" \in cs THEN Execute(sent) ELSE UNCHANGED flashVars
      /\ UNCHANGED <<ret, resets>>
  BY DEF DataFlashInit
<1>2. Commanded' /\ CutOff' BY <1>1 DEF Commanded, CutOff
<1>3. Stored /\ Len(sent) \in Nat BY SentSeq DEF BusInv
<1>4. OpInHand = None /\ OpInHand' = None BY <1>1 DEF OpInHand
<1>5. CASE UNCHANGED flashVars
  <2>1. Stored' BY <1>3, <1>5 DEF Stored, flashVars
  <2>2. BusInv' BY <1>2, <2>1 DEF BusInv
  <2>3. CASE broken = None BY <1>1, <1>4, <1>5, <2>2, <2>3, StutterStep
  <2>4. CASE broken # None
    <3>1. FP!Spill BY <1>1, <1>4, <1>5, <2>4 DEF FP!Spill, FP!flash, flashVars
    <3> QED BY <2>2, <3>1 DEF Mapped, FP!PagesNext
  <2> QED BY <2>3, <2>4
<1>6. CASE ~UNCHANGED flashVars
  <2>1. "flash" \in cs /\ Execute(sent) BY <1>1, <1>6
  <2>2. ~(Len(sent) < 4) BY <1>3, <1>6, <2>1, ShortFrame
  <2>3. broken # None /\ Agrees(sent, Frame(broken)) /\ FlashOK(broken)
    BY <1>1, <2>1, <2>2 DEF BusInv, CutOff
  <2>4. Len(sent) >= 4 BY <1>3, <2>2
  <2>5. /\ Stored'
        /\ \/ FP!Effect(broken)
           \/ /\ broken.op = "bufwrite"
              /\ \E n \in DOMAIN broken.data :
                   FP!Effect([broken EXCEPT !.data = SubSeq(broken.data, 1, n)])
    BY <1>3, <1>6, <2>1, <2>3, <2>4, BrokenFrame
  <2>6. FP!Spill BY <1>1, <1>4, <2>3, <2>5 DEF FP!Spill
  <2>7. BusInv' BY <1>2, <2>5 DEF BusInv
  <2> QED BY <2>6, <2>7 DEF Mapped, FP!PagesNext
<1> QED BY <1>5, <1>6

LEMMA ReleaseStep == ASSUME BusInv, ConvInv', Release PROVE BusInv' /\ Mapped
<1>1. /\ step = "command" /\ call # None /\ Pin \in cs /\ Len(sent) = Len(Bytes)
      /\ call' = None /\ cs' = cs \ {Pin} /\ UNCHANGED <<broken, resets>>
  BY DEF Release, CloseFrame, Raise
<1>2. Bytes = Frame(call) BY <1>1 DEF Bytes
<1>3. Agrees(sent, Frame(call)) BY <1>1, <1>2 DEF BusInv, Commanded
<1>4. OpInHand' = None BY <1>1 DEF OpInHand
<1>5. "flash" \notin cs' BY <1>1 DEF BusInv, ConvInv, PinInv, CallPins
<1>6. broken = None BY <1>1 DEF BusInv, CutOff, ConvInv, PinInv, CallPins
<1>7. Commanded' /\ CutOff' BY <1>1, <1>5, <1>6 DEF Commanded, CutOff
<1>8. Stored BY DEF BusInv
<1>9. CASE Pin # "flash"
  <2>1. UNCHANGED <<flashVars, ret>> BY <1>9 DEF Release
  <2>2. Stored' BY <1>8, <2>1 DEF Stored, flashVars
  <2>3. OpInHand = None BY <1>9 DEF OpInHand, Pin, FlashOps
  <2>4. Mapped BY <1>1, <1>4, <2>1, <2>3, StutterStep
  <2> QED BY <1>7, <2>2, <2>4 DEF BusInv
<1>10. CASE Pin = "flash"
  <2>1. /\ Execute(sent)
        /\ ret' = IF call.op \in {"read", "bufread"} THEN Clocked(sent, call.n) ELSE <<>>
    BY <1>10 DEF Release
  <2>2. prog = NoPage BY <1>1, <1>10 DEF BusInv, Commanded
  <2>3. CASE FlashOK(call)
    <3>1. Stored' /\ FP!Effect(call) /\ Read(sent, call) /\ Len(sent) >= 4
      BY <1>1, <1>2, <1>3, <1>8, <2>1, <2>2, <2>3, WholeFrame
    <3>2. ret' = FP!Result(call) BY <2>1, <2>2, <2>3, <3>1, Returned
    <3>3. OpInHand = call BY <1>1, <2>3, FlashNames DEF OpInHand
    <3>4. FP!Do BY <1>1, <1>4, <3>1, <3>2, <3>3 DEF FP!Do
    <3> QED BY <1>7, <3>1, <3>4 DEF BusInv, Mapped, FP!PagesNext
  <2>4. CASE call.op = "id"
    <3>1. Len(sent) \in Nat /\ Len(sent) < 4
      <4>1. Len(sent) = 3 BY <1>1, <1>2, <2>4 DEF Frame
      <4> QED BY <4>1
    <3>2. UNCHANGED flashVars BY <2>1, <3>1, ShortFrame
    <3>3. Stored' BY <1>8, <3>2 DEF Stored, flashVars
    <3>4. ret' = <<>> /\ OpInHand = None BY <2>1, <2>4 DEF OpInHand, FlashOps
    <3>5. Mapped BY <1>1, <1>4, <3>2, <3>4, ForgetStep
    <3> QED BY <1>7, <3>3, <3>5 DEF BusInv
  <2>5. call.op \in {"clear", "convert"} => FALSE
    <3>1. call.op \in {"clear", "convert"} => call.channel \in Channel /\ Pin = call.channel
      BY <1>1 DEF BusInv, ConvInv, Pin
    <3> QED BY <1>10, <3>1 DEF Channel
  <2> QED BY <1>1, <2>3, <2>4, <2>5 DEF BusInv, Commanded
<1> QED BY <1>9, <1>10

LEMMA CallFlashStep ==
  ASSUME BusInv, ConvInv', NEW op \in FlashOps, CallFlash(op)
  PROVE  BusInv' /\ Mapped
<1>1. PICK c \in FlashCall(op) : TokenCheck(c) /\ Start(c) BY DEF CallFlash
<1>2. /\ call = None /\ boot = <<>>
      /\ UNCHANGED <<cs, boot, sent, flashVars, broken, resets>>
  BY DEF CallFlash
<1>3. FlashOK(c) BY <1>1 DEF FlashOK
<1>4. c.op \in FlashOps /\ c.op \notin {"clear", "convert"} BY <1>3, FlashNames
<1>5. cs = {} BY <1>2, BootTails DEF BusInv, ConvInv, PinInv, IdlePins
<1>6. BusInv' BY <1>1, <1>2, <1>3, <1>4, <1>5, CallStarts
<1>7. call' = c /\ ret' = <<>> BY <1>1 DEF Start
<1>8. OpInHand = None BY <1>2 DEF OpInHand
<1>9. CASE c = None
  <2>1. OpInHand' = None BY <1>7, <1>9 DEF OpInHand
  <2> QED BY <1>2, <1>6, <1>7, <1>8, <2>1, ForgetStep
<1>10. CASE c # None
  <2>1. OpInHand' = c BY <1>4, <1>7, <1>10 DEF OpInHand
  <2>2. broken = None BY <1>2, BootTails DEF BusInv, CutOff
  <2>3. FP!Ask BY <1>2, <1>7, <1>8, <1>10, <2>1, <2>2 DEF FP!Ask, FP!flash, flashVars
  <2> QED BY <1>6, <2>3 DEF Mapped, FP!PagesNext
<1> QED BY <1>9, <1>10

\* The functions that are none of the flash pages' concern.
LEMMA OtherCallStep ==
  ASSUME BusInv, ConvInv', call = None, NEW c, Start(c), c.op \in {"id", "clear", "convert"},
         "flash" \notin cs', c.op \in {"clear", "convert"} => c.channel \notin cs',
         UNCHANGED <<boot, sent, flashVars, broken, resets>>
  PROVE  BusInv' /\ Mapped
<1>1. BusInv' BY CallStarts
<1>2. call' = c /\ ret' = <<>> BY DEF Start
<1>3. OpInHand = None /\ OpInHand' = None BY <1>2 DEF OpInHand, FlashOps
<1> QED BY <1>1, <1>2, <1>3, ForgetStep

LEMMA BusNext == BusInv /\ [Next]_vars => BusInv' /\ Mapped
<1> SUFFICES ASSUME BusInv, [Next]_vars PROVE BusInv' /\ Mapped OBVIOUS
<1>1. ConvInv' BY ConvNext DEF BusInv
<1>2. PinInv BY DEF BusInv, ConvInv
<1>3. CASE DataFlashInit BY <1>1, <1>3, DataFlashInitStep
<1>4. CASE ConverterInit
  <2>1. PICK ch \in Channel : boot[1] = ch BY <1>4 DEF ConverterInit
  <2> DEFINE c == [op |-> "clear", channel |-> ch]
  <2>2. /\ call = None /\ Start(c) /\ cs' = cs \ {ch}
        /\ UNCHANGED <<boot, sent, flashVars, broken, resets>>
    BY <1>4, <2>1 DEF ConverterInit
  <2>3. "flash" \notin cs BY <1>2, <2>1, <2>2, BootTails DEF PinInv, IdlePins, Channel
  <2>4. c.op = "clear" /\ c.channel = ch OBVIOUS
  <2> HIDE DEF c
  <2> QED BY <1>1, <2>2, <2>3, <2>4, OtherCallStep
<1>5. CASE ReadChipID
  <2> DEFINE c == [op |-> "id", page |-> 0, offset |-> 0, buffer |-> 2, n |-> 1]
  <2>1. /\ call = None /\ Start(c) /\ cs' = cs /\ boot[1] = "id" /\ boot # <<>>
        /\ UNCHANGED <<boot, sent, flashVars, broken, resets>>
    BY <1>5 DEF ReadChipID
  <2>2. "flash" \notin cs BY <1>2, <2>1, BootTails DEF PinInv, IdlePins
  <2>3. c.op = "id" OBVIOUS
  <2> HIDE DEF c
  <2> QED BY <1>1, <2>1, <2>2, <2>3, OtherCallStep
<1>6. ASSUME NEW op \in FlashOps, CallFlash(op) PROVE BusInv' /\ Mapped
  BY <1>1, <1>6, CallFlashStep
<1>7. ASSUME NEW ch \in Channel, CallConvert(ch) PROVE BusInv' /\ Mapped
  <2> DEFINE c == [op |-> "convert", channel |-> ch]
  <2>1. /\ call = None /\ Start(c) /\ cs' = cs /\ boot = <<>>
        /\ UNCHANGED <<boot, sent, flashVars, broken, resets>>
    BY <1>7 DEF CallConvert
  <2>2. cs = {} BY <1>2, <2>1, BootTails DEF PinInv, IdlePins
  <2>3. c.op = "convert" OBVIOUS
  <2> HIDE DEF c
  <2> QED BY <1>1, <2>1, <2>2, <2>3, OtherCallStep
<1>8. CASE Select
  <2>1. call' = call /\ UNCHANGED <<flashVars, ret, broken, resets>> BY <1>8 DEF Select
  <2>2. OpInHand' = OpInHand BY <2>1 DEF OpInHand
  <2> QED BY <1>1, <1>8, <2>1, <2>2, SelectBus, StutterStep
<1>9. CASE Transfer
  <2>1. call' = call /\ UNCHANGED <<flashVars, ret, broken, resets>> BY <1>9 DEF Transfer
  <2>2. OpInHand' = OpInHand BY <2>1 DEF OpInHand
  <2> QED BY <1>1, <1>9, <2>1, <2>2, TransferBus, StutterStep
<1>10. CASE ReleaseStatus
  <2>1. call' = call /\ UNCHANGED <<flashVars, ret, broken, resets>> BY <1>10 DEF ReleaseStatus
  <2>2. OpInHand' = OpInHand BY <2>1 DEF OpInHand
  <2> QED BY <1>1, <1>10, <2>1, <2>2, ReleaseStatusBus, StutterStep
<1>11. CASE Release BY <1>1, <1>11, ReleaseStep
<1>12. CASE Reset
  <2>1. /\ call' = None /\ ret' = <<>> /\ resets' = resets + 1 /\ UNCHANGED flashVars
        /\ broken' = IF OpInHand # None THEN OpInHand ELSE broken
    BY <1>12 DEF Reset
  <2>2. OpInHand' = None BY <2>1 DEF OpInHand
  <2>3. FP!Reset BY <2>1, <2>2 DEF FP!Reset, FP!flash, flashVars
  <2> QED BY <1>1, <1>12, <2>3, ResetBus DEF Mapped, FP!PagesNext
<1>13. CASE ChipDone
  <2>1. /\ prog' = NoPage /\ call' = call
        /\ UNCHANGED <<mem, buf, ret, broken, resets>>
    BY <1>13 DEF ChipDone
  <2>2. OpInHand' = OpInHand BY <2>1 DEF OpInHand
  <2>3. FP!Settle BY <2>1, <2>2 DEF FP!Settle
  <2> QED BY <1>1, <1>13, <2>3, ChipDoneBus DEF Mapped, FP!PagesNext
<1>14. ASSUME NEW ch \in Channel, ConvDone(ch) PROVE BusInv' /\ Mapped
  <2>1. UNCHANGED <<call, step, cs, sent, ready, boot, broken, flashVars, ret, resets>>
    BY <1>14 DEF ConvDone
  <2>2. OpInHand' = OpInHand BY <2>1 DEF OpInHand
  <2> QED BY <1>1, <2>1, <2>2, QuietBus, StutterStep
<1>15. CASE UNCHANGED vars
  <2>1. UNCHANGED <<call, step, cs, sent, ready, boot, broken, flashVars, ret, resets>>
    BY <1>15 DEF vars
  <2>2. OpInHand' = OpInHand BY <2>1 DEF OpInHand
  <2> QED BY <1>1, <2>1, <2>2, QuietBus, StutterStep
<1> QED BY <1>3, <1>4, <1>5, <1>6, <1>7, <1>8, <1>9, <1>10, <1>11, <1>12, <1>13, <1>14, <1>15
       DEF Next

LEMMA PagesInitHolds == Init => FP!PagesInit
<1> SUFFICES ASSUME Init PROVE FP!PagesInit OBVIOUS
<1>1. FirstPage \in Page
  <2>1. FirstPage \in Nat /\ Size \in Nat \ {0} BY BusAssumption DEF BusAssumption
  <2>2. FirstPage \in FirstPage .. FirstPage + Size - 1 BY <2>1
  <2>3. FirstPage .. FirstPage + Size - 1 \subseteq Page BY BusAssumption DEF BusAssumption
  <2> QED BY <2>2, <2>3, Zenon
<1>2. mem \in [Page -> [Offset -> Byte]] /\ buf = [b \in {1, 2} |-> mem[FirstPage]]
  BY DEF Init
<1>3. buf \in [{1, 2} -> [Offset -> Byte]] BY <1>1, <1>2
<1>4. prog = NoPage /\ OpInHand = None /\ broken = None /\ ret = <<>> /\ resets \in Nat
  BY DEF Init, OpInHand
<1> QED BY <1>2, <1>3, <1>4 DEF FP!PagesInit

\* Every call of the flash driver is one operation on a page of its token, as
\* FlashPages has them, whichever bytes a reset cuts a frame at.
THEOREM ImplementsPagesHolds == FairSpec => ImplementsPages
<1>1. BusInv /\ [Next]_vars => [FP!PagesNext]_(FP!pageVars) BY BusNext DEF Mapped
<1>2. BusInv /\ [Next]_vars => BusInv' BY BusNext
<1> QED BY <1>1, <1>2, BusInit, PagesInitHolds, PTL
       DEF FairSpec, ImplementsPages, FP!PagesSpec
=============================================================================
