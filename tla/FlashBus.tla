------------------------------ MODULE FlashBus -----------------------------
(***************************************************************************)
(* The SPI bus of the board: DataFlash.c and AD7787_Driver.c, one byte at  *)
(* a time, through spi_master.c, with a flash and two converters behind    *)
(* three chip select pins.  A driver function is a list of frames; a pin   *)
(* falls (CS_On), bytes are exchanged, the pin rises (CS_Off), and only    *)
(* then does the flash act.  The watchdog resets the processor and not its *)
(* peripherals (WDT_MR_WDRPROC): a pin that is low stays low until the     *)
(* start-up code raises it.                                                *)
(***************************************************************************)
EXTENDS Naturals, Sequences, FiniteSets

CONSTANTS Page,        \* pages of the flash
          Offset,      \* positions in a page that calls name
          Byte,        \* values a stored byte takes
          FirstPage, Size,  \* the DF_Token of the callers
          NoPage,      \* no page at all
          None,        \* no driver function running
          MaxResets    \* resets of the processor (bound)

ASSUME BusAssumption ==
  /\ FirstPage \in Nat /\ Size \in Nat \ {0}
  /\ FirstPage .. FirstPage + Size - 1 \subseteq Page /\ Page \subseteq 0 .. 8191
  /\ Offset \subseteq 0 .. 1023 /\ Byte \subseteq 0 .. 255
  /\ NoPage \notin Page /\ MaxResets \in Nat

Channel == {"pri", "sec"}

VARIABLES
  cs,      \* pins driven low
  boot,    \* functions the start-up code has still to call
  call,    \* the driver function running, or None
  step,    \* which of its frames: "status", "command", or "free" of any
  sent,    \* bytes exchanged since the pin fell
  ready,   \* the ready bit as IsFlashReady last read it
  mem, buf, prog,   \* the flash: main memory, buffers, page being programmed
  ret,     \* bytes the last function returned
  broken,  \* the flash call whose frame a reset cut off, or None
  conv,    \* a converter: "idle", "running", "done"
  volts,   \* PowerChanel.volts of each channel
  resets

flashVars == <<mem, buf, prog>>
vars == <<cs, boot, call, step, sent, ready, flashVars, ret, conv, volts, broken, resets>>

\* slip: the chip is identified before the converters' pins are raised
StartOrderEarly == <<"flash", "id", "pri", "sec">>
\* The order of the calls in main.
StartOrder == <<"flash", "pri", "sec", "id">>

\* The pins rest high, pulled up, until something drives them.
Init ==
  /\ cs = {} /\ call = None /\ step = "free"
  /\ boot = StartOrder
  /\ sent = <<>> /\ ready = FALSE
  /\ mem \in [Page -> [Offset -> Byte]] /\ \A p \in Page, o \in Offset : mem[p][o] = o % 2
  /\ buf = [b \in {1, 2} |-> mem[FirstPage]] /\ prog = NoPage /\ ret = <<>>
  /\ conv = [c \in Channel |-> "idle"] /\ volts = [c \in Channel |-> 0]
  /\ resets = 0 /\ broken = None

-----------------------------------------------------------------------------
\* The address bytes of a page, as spi_transfer cuts them to 8 bits.
PageByte1(p) == (p \div 64) % 256
PageByte2(p, o) == (p * 4 + o \div 256) % 256
OffsetByte(o) == o % 256

\* How the flash reads them: 13 bits of page, 10 of offset.
PageAt(f) == (f[2] * 64 + f[3] \div 4) % 8192
OffsetAt(f) == (f[3] % 4) * 256 + f[4]

Code == [load |-> <<83, 85>>, program |-> <<131, 134>>,
         bufread |-> <<212, 214>>, bufwrite |-> <<132, 135>>]
Zeros(n) == [i \in 1 .. n |-> 0]

\* page += tk->FirstPage
TokenPage(c) == c.page + FirstPage

\* The bytes each function sends while its device is selected.  The converter
\* is told to convert in channel 2, waited for, and read.
Frame(c) ==
  LET p == TokenPage(c)
      page == <<PageByte1(p), PageByte2(p, 0), 0>>
      inBuf == <<0, c.offset \div 256, OffsetByte(c.offset)>>
  IN  CASE c.op = "read"     -> <<210, PageByte1(p), PageByte2(p, c.offset), OffsetByte(c.offset)>>
                                \o Zeros(4) \o Zeros(c.n)
        [] c.op = "load"     -> <<Code.load[c.buffer]>> \o page
        [] c.op = "program"  -> <<Code.program[c.buffer]>> \o page
        [] c.op = "bufread"  -> <<Code.bufread[c.buffer]>> \o inBuf \o Zeros(1) \o Zeros(c.n)
        [] c.op = "bufwrite" -> <<Code.bufwrite[c.buffer]>> \o inBuf \o c.data
        [] c.op = "id"       -> <<159, 0, 0>>
        [] c.op = "clear"    -> [i \in 1 .. 8 |-> 255]
        [] c.op = "convert"  -> <<17, 130, 57, 0, 0, 0>>

StatusFrame == <<215, 255>>
Bytes == IF step = "status" THEN StatusFrame ELSE Frame(call)
Pin == IF call.op \in {"clear", "convert"} THEN call.channel ELSE "flash"

-----------------------------------------------------------------------------
\* The calls.  TokenCheck refuses a page behind the token, silently.
TokenCheck(c) == c.page < Size

Start(c) ==
  /\ call' = c
  /\ step' = IF c.op \in {"clear", "convert"} THEN "command" ELSE "status"
  /\ ret' = <<>>

FlashCall(op) ==
  [op : {op}, page : 0 .. Size, offset : Offset, buffer : {1, 2}, n : {1, 2}, data : {<<1>>, <<1, 0>>}]

Spread(c) == c.offset + (IF c.op = "bufwrite" THEN Len(c.data) ELSE c.n) - 1 \in Offset

\* Parameters a function does not have are held to one value.
Meant(c) ==
  /\ c.op \in {"read", "bufread"} \/ c.n = 1
  /\ c.op = "bufwrite" \/ c.data = <<1>>
  /\ c.op \in {"read", "load", "program"} \/ c.page \in {0, Size}
  /\ c.op \notin {"load", "program"} \/ c.offset = CHOOSE o \in Offset : TRUE
  /\ c.op # "read" \/ c.buffer = 2

CallFlash(op) ==
  /\ call = None /\ boot = <<>>
  /\ \E c \in FlashCall(op) : Meant(c) /\ Spread(c) /\ TokenCheck(c) /\ Start(c)
  /\ UNCHANGED <<cs, boot, sent, ready, flashVars, conv, volts, broken, resets>>

\* PowerChan_Run, AD7787_Run
CallConvert(ch) ==
  /\ call = None /\ boot = <<>>
  /\ Start([op |-> "convert", channel |-> ch])
  /\ UNCHANGED <<cs, boot, sent, ready, flashVars, conv, volts, broken, resets>>

\* CS_On: spi_select_device, then the pin
Select ==
  /\ call # None /\ Pin \notin cs
  /\ cs' = cs \cup {Pin} /\ sent' = <<>>
  /\ UNCHANGED <<boot, call, step, ready, flashVars, ret, conv, volts, broken, resets>>

\* slip: the bytes of the result are read without waiting for the converter
MisoLowNot == TRUE
\* spi_wait_miso_low, between the command and the result of a conversion
MisoLow == call.op = "convert" /\ Len(sent) = 2 => conv[call.channel] = "done"

\* spi_transfer.  The status is what the second byte of its frame returns, and
\* a conversion starts when its command is complete.
Transfer ==
  /\ call # None /\ Pin \in cs /\ Len(sent) < Len(Bytes) /\ MisoLow
  /\ sent' = Append(sent, Bytes[Len(sent) + 1])
  /\ ready' = IF step = "status" /\ Len(sent) = 1 THEN prog = NoPage ELSE ready
  /\ conv' = IF call.op = "convert" /\ Len(sent) = 1
               THEN [conv EXCEPT ![call.channel] = "running"] ELSE conv
  /\ UNCHANGED <<cs, boot, call, step, flashVars, ret, volts, broken, resets>>

-----------------------------------------------------------------------------
\* What the flash does with the bytes f when its pin rises: nothing, if it is
\* busy, or the address is not complete.
BufferOf(f, op) == CHOOSE b \in {1, 2} : Code[op][b] = f[1]
Means(f, op) == prog = NoPage /\ Len(f) >= 4 /\ \E b \in {1, 2} : Code[op][b] = f[1]

Execute(f) ==
  \/ /\ Means(f, "bufwrite")
     /\ buf' = [buf EXCEPT ![BufferOf(f, "bufwrite")] =
          [o \in Offset |-> IF o - OffsetAt(f) \in 0 .. Len(f) - 5
                              THEN f[5 + o - OffsetAt(f)] ELSE @[o]]]
     /\ UNCHANGED <<mem, prog>>
  \/ /\ Means(f, "load") /\ PageAt(f) \in Page
     /\ buf' = [buf EXCEPT ![BufferOf(f, "load")] = mem[PageAt(f)]]
     /\ UNCHANGED <<mem, prog>>
  \/ /\ Means(f, "program") /\ PageAt(f) \in Page
     /\ mem' = [mem EXCEPT ![PageAt(f)] = buf[BufferOf(f, "program")]]
     /\ prog' = PageAt(f)
     /\ UNCHANGED buf
  \/ /\ ~\E op \in {"bufwrite", "load", "program"} : Means(f, op)
     /\ UNCHANGED flashVars

\* What it returned for the n bytes clocked last.
Clocked(f, n) ==
  CASE f[1] = 210 /\ prog = NoPage /\ PageAt(f) \in Page ->
         [i \in 1 .. n |-> mem[PageAt(f)][OffsetAt(f) + i - 1]]
    [] Means(f, "bufread") ->
         [i \in 1 .. n |-> buf[BufferOf(f, "bufread")][OffsetAt(f) + i - 1]]
    [] OTHER -> <<>>

\* Each converter has a reading of its own; volts is the upper 16 bits of 24.
Sample == [pri |-> <<1, 2, 3>>, sec |-> <<144, 0, 7>>]
Value(s) == (s[1] * 256 + s[2]) * 256 + s[3]
Converted(ch) == IF conv[ch] = "done" THEN Value(Sample[ch]) ELSE Value(<<255, 255, 255>>)

CloseFrame ==
  /\ call # None /\ Pin \in cs /\ Len(sent) = Len(Bytes)

\* CS_Off: spi_deselect_device, then the pin
Raise == cs' = cs \ {Pin}

\* slip: IsFlashReady is called once, and its answer ignored
ReleaseStatusOnce ==
  /\ step = "status" /\ CloseFrame /\ Raise /\ step' = "command"
  /\ UNCHANGED <<boot, call, sent, ready, flashVars, ret, conv, volts, broken, resets>>
\* slip: the ready bit is taken for a busy bit
ReleaseStatusBusy ==
  /\ step = "status" /\ CloseFrame /\ Raise
  /\ step' = IF ready THEN "status" ELSE "command"
  /\ UNCHANGED <<boot, call, sent, ready, flashVars, ret, conv, volts, broken, resets>>
\* while ( !IsFlashReady() ), without a timeout
ReleaseStatus ==
  /\ step = "status" /\ CloseFrame /\ Raise
  /\ step' = IF ready THEN "command" ELSE "status"
  /\ UNCHANGED <<boot, call, sent, ready, flashVars, ret, conv, volts, broken, resets>>

\* The end of a function, and of the step of the start-up code it was.
Release ==
  /\ step = "command" /\ CloseFrame /\ Raise
  /\ call' = None /\ step' = "free"
  /\ boot' = IF boot = <<>> THEN boot ELSE Tail(boot)
  /\ IF Pin = "flash"
       THEN /\ Execute(sent)
            /\ ret' = IF call.op \in {"read", "bufread"} THEN Clocked(sent, call.n) ELSE <<>>
            /\ UNCHANGED <<conv, volts>>
       ELSE /\ volts' = IF call.op = "convert"
                          THEN [volts EXCEPT ![Pin] = Converted(Pin) \div 256] ELSE volts
            /\ conv' = [conv EXCEPT ![Pin] = "idle"]
            /\ UNCHANGED <<flashVars, ret>>
  /\ UNCHANGED <<sent, ready, broken, resets>>

-----------------------------------------------------------------------------
\* The start-up code: DataFlash_Init raises the pin of the flash, after a
\* spi_deselect_device of its own; AD7787_Init the one of its converter, and
\* sends it 8 bytes; DFS_ReadChipID is the first command of the flash.
DataFlashInit ==
  /\ call = None /\ boot # <<>> /\ boot[1] = "flash"
  /\ cs' = cs \ {"flash"}
  /\ IF "flash" \in cs THEN Execute(sent) ELSE UNCHANGED flashVars
  /\ boot' = Tail(boot) /\ sent' = <<>> /\ broken' = None
  /\ UNCHANGED <<call, step, ready, ret, conv, volts, resets>>

ConverterInit ==
  /\ call = None /\ boot # <<>> /\ boot[1] \in Channel
  /\ cs' = cs \ {boot[1]}
  /\ volts' = [volts EXCEPT ![boot[1]] = 0]
  /\ Start([op |-> "clear", channel |-> boot[1]])
  /\ UNCHANGED <<boot, sent, ready, flashVars, conv, broken, resets>>

ReadChipID ==
  /\ call = None /\ boot # <<>> /\ boot[1] = "id"
  /\ Start([op |-> "id", page |-> 0, offset |-> 0, buffer |-> 2, n |-> 1])
  /\ UNCHANGED <<cs, boot, sent, ready, flashVars, conv, volts, broken, resets>>

FlashOps == {"read", "load", "program", "bufread", "bufwrite"}
OpInHand == IF call # None /\ call.op \in FlashOps THEN call ELSE None

\* The watchdog: the processor starts again, the pins stay as they are.
Reset ==
  /\ resets < MaxResets /\ resets' = resets + 1
  /\ call' = None /\ step' = "free" /\ boot' = StartOrder
  /\ ready' = FALSE /\ ret' = <<>>
  /\ volts' = [c \in Channel |-> 0]
  /\ sent' = IF "flash" \in cs THEN sent ELSE <<>>
  /\ broken' = IF OpInHand # None THEN OpInHand ELSE broken
  /\ UNCHANGED <<cs, flashVars, conv>>

ChipDone ==
  /\ prog # NoPage /\ prog' = NoPage
  /\ UNCHANGED <<cs, boot, call, step, sent, ready, mem, buf, ret, conv, volts, broken, resets>>

ConvDone(ch) ==
  /\ conv[ch] = "running" /\ conv' = [conv EXCEPT ![ch] = "done"]
  /\ UNCHANGED <<cs, boot, call, step, sent, ready, flashVars, ret, volts, broken, resets>>

Next ==
  \/ DataFlashInit \/ ConverterInit \/ ReadChipID
  \/ \E op \in FlashOps : CallFlash(op)
  \/ \E ch \in Channel : CallConvert(ch) \/ ConvDone(ch)
  \/ Select \/ Transfer \/ ReleaseStatus \/ Release
  \/ Reset \/ ChipDone

\* The processor runs on, and flash and converters finish what they do.
FairSpec ==
  /\ Init /\ [][Next]_vars
  /\ WF_vars(DataFlashInit \/ ConverterInit \/ ReadChipID)
  /\ WF_vars(Select \/ Transfer \/ ReleaseStatus \/ Release)
  /\ WF_vars(ChipDone) /\ \A ch \in Channel : WF_vars(ConvDone(ch))
-----------------------------------------------------------------------------

\* While the flash listens nobody else does, and once the start-up code is
\* through at most one device does.  A reset during a conversion leaves its pin
\* low; the start-up code has to raise it before the first flash command.
OneSelected ==
  /\ "flash" \in cs => cs = {"flash"}
  /\ boot = <<>> => Cardinality(cs) <= 1

\* A channel's reading is that of its own converter, from a finished
\* conversion, in the order and the 16 bits the three bytes are taken.
FreshVolts == \A c \in Channel : volts[c] \in {0, Value(Sample[c]) \div 256}

\* Calls of the flash driver are operations on pages of the token: frames carry
\* the right addresses, a busy flash is never commanded, and a frame broken off
\* by a reset does nothing its complete one would not have done in part.
FP == INSTANCE FlashPages WITH
        First <- FirstPage, Nothing <- None, todo <- OpInHand, late <- broken
ImplementsPages == FP!PagesSpec

\* A call returns, or a reset ends it: the waits without a timeout end as long
\* as flash and converters answer.
CallsReturn == call # None ~> call = None

=============================================================================
