---------------------------- MODULE PowerChannel ---------------------------
(***************************************************************************)
(* The numbers of a voltage on their way from the converter to the reader: *)
(* PowerChan_GetVolts in 32 unsigned bits, "%lu" on the line, and atoi in  *)
(* the daemon's Receive_Voltage.  The millivolts are kept as they are; the *)
(* division by 1000 in a float is left out.                                *)
(***************************************************************************)
EXTENDS Integers

CONSTANTS HalfWord,   \* 2^31; a word has twice as many values
          Threshold,  \* 0x9000, the least reading taken for a voltage
          Scale,      \* 4096
          LongIsWide  \* the daemon's long has 64 bits

ASSUME NumberAssumption ==
  /\ {HalfWord, Threshold, Scale} \subseteq Nat \ {0}
  /\ LongIsWide \in BOOLEAN

Word == 2 * HalfWord
UInt32 == 0 .. Word - 1
Int32 == -HalfWord .. HalfWord - 1

\* Conversions between the two, as assignments and arguments make them.
Unsigned(x) == x % Word
Signed(u) == IF u < HalfWord THEN u ELSE u - Word

\* PowerChan_GetVolts: the product wraps, and so does the difference.
\* slip: the wrapped product is subtracted from, and scaled afterwards
GetVoltsScaledLast(volts, calib, offset) ==
  IF volts < Threshold THEN 0
  ELSE Unsigned(Unsigned(volts * calib) - offset) \div Scale
GetVolts(volts, calib, offset) ==
  IF volts < Threshold THEN 0
  ELSE Unsigned(Unsigned(volts * calib) \div Scale - offset)

\* atoi of what "%lu" printed: a narrow long saturates, a wide one is cut.
Atoi(u) ==
  IF u < HalfWord THEN u ELSE IF LongIsWide THEN u - Word ELSE HalfWord - 1

\* The voltage meant.
Exact(volts, calib, offset) ==
  IF volts < Threshold THEN 0 ELSE (volts * calib) \div Scale - offset
=============================================================================
