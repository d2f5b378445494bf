---------------------------- MODULE Calibration ----------------------------
(***************************************************************************)
(* The calibration of the two channels: the commands calib, offset and     *)
(* volt of main.c, the words of conf_eeprom.h they are kept in, and the    *)
(* copies PowerChanel.c computes with.  The memory is the one EEStore      *)
(* promises.  A command runs to its end before the main loop writes a page *)
(* back, so a word is written as a whole; its bytes are here all the same, *)
(* because the defaults are told from values by them.                      *)
(***************************************************************************)
EXTENDS PowerChannel, FiniteSets

CONSTANTS Raw,        \* readings, the 16 bits PowerChan_Run keeps
          Typed,      \* numbers atol can return for what is typed
          Default,    \* Default.calib is 856, Default.offset 1
          ByteRange,  \* 256
          NoPage,
          MaxSets     \* calibration commands (bound)

Channel == {1, 2}
Item == {"calib", "offset"}

\* conf_eeprom.h
\* slip: the words are two bytes apart
AddressTight(item, ch) == 2 + (IF item = "calib" THEN 0 ELSE 4) + 2 * (ch - 1)
Address(item, ch) == 2 + (IF item = "calib" THEN 0 ELSE 8) + 4 * (ch - 1)

Offset == 0 .. 17
Byte == 0 .. ByteRange - 1

ASSUME CalibrationAssumption ==
  /\ Raw \subseteq Nat /\ Typed \subseteq Int32
  /\ Default \in [Item -> UInt32]
  /\ ByteRange \in Nat \ {0} /\ Word = ByteRange * ByteRange * ByteRange * ByteRange
  /\ MaxSets \in Nat

VARIABLES
  val, kept, busy, ret,  \* the memory, as in EEStore; all of it is in page 0
  ram,     \* ram[item][ch]: v_calib and volt_offset
  volts,   \* volts[ch], the last reading
  answer,  \* the last answer: what was asked, of which channel, and the number
  sets     \* calibration commands so far

store == <<val, kept, busy, ret>>
vars == <<store, ram, volts, answer, sets>>

EE == INSTANCE EEStore WITH Page <- {0}

-----------------------------------------------------------------------------
\* EE_Read4 and EE_Write4: the least byte first.
Read4(m, a) ==
  (m[a] + m[a + 1] * ByteRange) + (m[a + 2] + m[a + 3] * ByteRange) * ByteRange * ByteRange

\* slip: the upper half is written with the lower one's divisor
Write4Halves(m, a, u) ==
  [m EXCEPT ![a] = u % ByteRange, ![a + 1] = (u \div ByteRange) % ByteRange,
            ![a + 2] = (u \div ByteRange) % ByteRange,
            ![a + 3] = (u \div (ByteRange * ByteRange)) % ByteRange]
Write4(m, a, u) ==
  LET high == u \div (ByteRange * ByteRange)
  IN  [m EXCEPT ![a] = u % ByteRange, ![a + 1] = (u \div ByteRange) % ByteRange,
                ![a + 2] = high % ByteRange, ![a + 3] = (high \div ByteRange) % ByteRange]

\* Every byte erased: the word was never written.
Blank == Word - 1

\* EE_Read4_Default; int32_t v of the offset makes it signed.
Stored(m, item, ch) ==
  LET u == Read4(m, Address(item, ch))
      d == IF u = Blank THEN Default[item] ELSE u
  IN  IF item = "offset" THEN Signed(d) ELSE d

Loaded(m) == [item \in Item |-> [ch \in Channel |-> Stored(m, item, ch)]]

\* main, lines 307 to 316; a flash as it left the factory is blank.
Init ==
  /\ val = [p \in {0} |-> [o \in Offset |-> ByteRange - 1]]
  /\ kept = val /\ busy = NoPage /\ ret = 0
  /\ ram = Loaded(val[0]) /\ volts = [ch \in Channel |-> 0]
  /\ answer = [to |-> "none", channel |-> 1, number |-> 0] /\ sets = 0

\* slip: the channel keeps its old value until the next restart
SetMemoryOnly(item, ch, v) ==
  /\ sets < MaxSets /\ sets' = sets + 1
  /\ val' = [val EXCEPT ![0] = Write4(@, Address(item, ch), Unsigned(v))]
  /\ answer' = [to |-> item, channel |-> ch, number |-> Stored(val'[0], item, ch)]
  /\ UNCHANGED <<kept, busy, ret, ram, volts>>

\* Cmd_VoltCalib and Cmd_VoltOffset with a number: it goes to the memory and
\* to the channel, and the answer is read back from the memory.
Set(item, ch, v) ==
  /\ sets < MaxSets /\ sets' = sets + 1
  /\ val' = [val EXCEPT ![0] = Write4(@, Address(item, ch), Unsigned(v))]
  /\ ram' = [ram EXCEPT ![item][ch] = IF item = "calib" THEN Unsigned(v) ELSE v]
  /\ answer' = [to |-> item, channel |-> ch, number |-> Stored(val'[0], item, ch)]
  /\ UNCHANGED <<kept, busy, ret, volts>>

\* The same without a number.
Show(item, ch) ==
  /\ answer' = [to |-> item, channel |-> ch, number |-> Stored(val[0], item, ch)]
  /\ UNCHANGED <<store, ram, volts, sets>>

\* Cmd_Voltage, and Receive_Voltage of the daemon
Volt(ch) ==
  /\ answer' = [to |-> "volt", channel |-> ch,
       number |-> Atoi(GetVolts(volts[ch], ram["calib"][ch], ram["offset"][ch]))]
  /\ UNCHANGED <<store, ram, volts, sets>>

Convert(ch) ==
  /\ volts' \in {[volts EXCEPT ![ch] = r] : r \in Raw}
  /\ answer' = [answer EXCEPT !.to = "none"]
  /\ UNCHANGED <<store, ram, sets>>

\* EE_Cache_Check: a page that differs from the flash goes there.
Check == val # kept /\ EE!Save(0) /\ UNCHANGED <<ram, volts, answer, sets>>

ChipDone == busy # NoPage /\ EE!Settle /\ UNCHANGED <<ram, volts, answer, sets>>

\* slip: the offsets are not loaded
RestartCalibOnly ==
  /\ EE!Forget
  /\ ram' = [Loaded(kept[0]) EXCEPT !["offset"] = [ch \in Channel |-> 0]]
  /\ volts' = [ch \in Channel |-> 0]
  /\ answer' = [answer EXCEPT !.to = "none"] /\ UNCHANGED sets
\* A reset, and the start-up code.
Restart ==
  /\ EE!Forget
  /\ ram' = Loaded(kept[0]) /\ volts' = [ch \in Channel |-> 0]
  /\ answer' = [answer EXCEPT !.to = "none"] /\ UNCHANGED sets

Next ==
  \/ \E item \in Item, ch \in Channel :
       Show(item, ch) \/ \E v \in Typed : Set(item, ch, v)
  \/ \E ch \in Channel : Volt(ch) \/ Convert(ch)
  \/ Check \/ ChipDone \/ Restart

Spec == Init /\ [][Next]_vars

-----------------------------------------------------------------------------
\* Type invariant; words are 32 bits, signed and unsigned as declared.
TypeOK ==
  /\ val \in [{0} -> [Offset -> Byte]] /\ kept \in [{0} -> [Offset -> Byte]]
  /\ busy \in {0, NoPage} /\ volts \in [Channel -> Raw \cup {0}]
  /\ ram["calib"] \in [Channel -> UInt32] /\ ram["offset"] \in [Channel -> Int32]
  /\ answer.number \in Int \* Int32 or UInt32, depending on the question
  /\ sets \in 0 .. MaxSets

Word4(m, item, ch) == Read4(m, Address(item, ch))

\* What a channel computes with is what its own word in the memory says, the
\* words of the other channel and item left alone.  The exception is a word
\* that reads like erased flash: -1 typed is in use until the next restart,
\* the default after it.
UsesStored ==
  \A item \in Item, ch \in Channel :
    \/ ram[item][ch] = Stored(val[0], item, ch)
    \/ /\ Word4(val[0], item, ch) = Blank
       /\ Unsigned(ram[item][ch]) = Blank

\* An answer to calib or offset tells the value in use, with that exception.
AnswerIsUsed ==
  answer.to \in Item =>
    \/ answer.number = ram[answer.to][answer.channel]
    \/ Word4(val[0], answer.to, answer.channel) = Blank

\* The voltage published is the one meant, if the product of reading and
\* calibration fits a word and the voltage a signed word; a voltage below 0
\* needs a long of 64 bits in the daemon.
VoltsExact ==
  answer.to = "volt" =>
    LET ch == answer.channel
        c == ram["calib"][ch]   o == ram["offset"][ch]
        e == Exact(volts[ch], c, o)
    IN  \/ answer.number = e
        \/ volts[ch] * c >= Word
        \/ e \notin Int32
        \/ e < 0 /\ ~LongIsWide

\* A restart changes no calibration but one not yet written back, and one that
\* reads like erased flash.
RestartKeeps ==
  [][Restart =>
       \A item \in Item, ch \in Channel :
         \/ ram'[item][ch] = ram[item][ch]
         \/ Word4(kept[0], item, ch) # Word4(val[0], item, ch)
         \/ Word4(kept[0], item, ch) = Blank]_vars
=============================================================================
