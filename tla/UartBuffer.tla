----------------------------- MODULE UartBuffer ----------------------------
(***************************************************************************)
(* UartBuffer.c: the rings between USART0 and the main loop of main.c.     *)
(* UartBuffer_Interrupt runs in two contexts: as the body of               *)
(* USART0_Handler, and called by the main loop, from PutChar with          *)
(* interrupts masked and from main itself (main.c:325) without.  The       *)
(* handler runs to its end between any two accesses of the main loop, or   *)
(* not at all ("for some reason the interrupt isn't firing").              *)
(*                                                                         *)
(* Characters are numbered in the order they arrive, and in the order they *)
(* are put.  US_CSR_TXBUFE stays set, as the PDC is not used.              *)
(***************************************************************************)
EXTENDS Naturals, Sequences

CONSTANTS Size,      \* BUFFER_SIZE, the range of the uint8_t indices
          MaxChars,  \* characters that arrive (bound)
          MaxPuts    \* characters the main loop puts (bound)

ASSUME UartAssumption ==
  Size \in Nat \ {0, 1} /\ MaxChars \in Nat \ {0} /\ MaxPuts \in Nat \ {0}

Index == 0 .. Size - 1
Context == {"main", "handler"}
Char == 1 .. MaxChars

VARIABLES
  RxBuffer, RxIn, RxOut, TxBuffer, TxIn, TxOut,
  pc,       \* where each context stands
  c, reg,   \* its local c, and the index it is advancing
  putting,  \* the main loop is in PutChar, with interrupts masked
  rhr,      \* US_RHR: the character received and not yet read, or 0
  arrived,  \* characters arrived so far
  overrun,  \* one arrived before the one before it was read
  raced,    \* the handler ran in the middle of the main loop's own call
  lapped,   \* the ring held Size unread characters
  got,      \* what GetChar returned
  puts,     \* characters put so far
  sent      \* what went to US_THR

rxVars == <<RxBuffer, RxIn, RxOut>>
txVars == <<TxBuffer, TxIn, TxOut, sent>>
history == <<overrun, raced, lapped>>
vars == <<rxVars, txVars, pc, c, reg, putting, rhr, arrived, history, got, puts>>

Inc8(i) == (i + 1) % Size       \* a uint8_t incremented

Init ==
  /\ RxBuffer = [i \in Index |-> 0] /\ RxIn = 0 /\ RxOut = 0
  /\ TxBuffer = [i \in Index |-> 0] /\ TxIn = 0 /\ TxOut = 0
  /\ pc = [main |-> "loop", handler |-> "out"]
  /\ c = [t \in Context |-> 0] /\ reg = [t \in Context |-> 0]
  /\ putting = FALSE
  /\ rhr = 0 /\ arrived = 0
  /\ overrun = FALSE /\ raced = FALSE /\ lapped = FALSE
  /\ got = << >> /\ puts = 0 /\ sent = << >>

\* The handler, once entered, runs before the main loop goes on.
Runs(t) == t = "handler" \/ pc["handler"] = "out"

\* Where UartBuffer_Interrupt returns to.
Return(t) == IF t = "handler" THEN "out" ELSE "config"

Goto(t, l) == pc' = [pc EXCEPT ![t] = l]

-----------------------------------------------------------------------------
(* UartBuffer_Interrupt in context t                                       *)

TestTx(t) ==
  /\ Runs(t) /\ pc[t] = "tx"
  /\ Goto(t, IF TxOut # TxIn THEN "put" ELSE "rx")
  /\ UNCHANGED <<rxVars, txVars, c, reg, putting, rhr, arrived, history, got, puts>>

PutThr(t) ==
  /\ Runs(t) /\ pc[t] = "put"
  /\ sent' = Append(sent, TxBuffer[TxOut])
  /\ reg' = [reg EXCEPT ![t] = TxOut]
  /\ Goto(t, "txout")
  /\ UNCHANGED <<rxVars, TxBuffer, TxIn, TxOut, c, putting, rhr, arrived,
                 history, got, puts>>

AdvanceTxOut(t) ==
  /\ Runs(t) /\ pc[t] = "txout"
  /\ TxOut' = Inc8(reg[t])
  /\ Goto(t, "rx")
  /\ UNCHANGED <<rxVars, TxBuffer, TxIn, sent, c, reg, putting, rhr, arrived,
                 history, got, puts>>

\* usart_is_rx_ready; PutChar unmasks interrupts when the call returns.
TestRx(t) ==
  /\ Runs(t) /\ pc[t] = "rx"
  /\ Goto(t, IF rhr # 0 THEN "get" ELSE Return(t))
  /\ putting' = (putting /\ (rhr # 0 \/ t = "handler"))
  /\ UNCHANGED <<rxVars, txVars, c, reg, rhr, arrived, history, got, puts>>

\* usart_getchar, which waits for a character.
GetRhr(t) ==
  /\ Runs(t) /\ pc[t] = "get" /\ rhr # 0
  /\ c' = [c EXCEPT ![t] = rhr]
  /\ rhr' = 0
  /\ Goto(t, "store")
  /\ UNCHANGED <<rxVars, txVars, reg, putting, arrived, history, got, puts>>

StoreRx(t) ==
  /\ Runs(t) /\ pc[t] = "store"
  /\ RxBuffer' = [RxBuffer EXCEPT ![RxIn] = c[t]]
  /\ Goto(t, "load")
  /\ UNCHANGED <<RxIn, RxOut, txVars, c, reg, putting, rhr, arrived, history,
                 got, puts>>

\* RxIn++ on a volatile: a load and a store.
LoadRxIn(t) ==
  /\ Runs(t) /\ pc[t] = "load"
  /\ reg' = [reg EXCEPT ![t] = RxIn]
  /\ Goto(t, "rxin")
  /\ UNCHANGED <<rxVars, txVars, c, putting, rhr, arrived, history, got, puts>>

AdvanceRxIn(t) ==
  /\ Runs(t) /\ pc[t] = "rxin"
  /\ RxIn' = Inc8(reg[t])
  /\ lapped' = (lapped \/ RxIn' = RxOut)
  /\ putting' = (putting /\ t = "handler")
  /\ Goto(t, Return(t))
  /\ UNCHANGED <<RxBuffer, RxOut, txVars, c, reg, rhr, arrived, overrun, raced,
                 got, puts>>

Interrupt(t) ==
  \/ TestTx(t) \/ PutThr(t) \/ AdvanceTxOut(t)
  \/ TestRx(t) \/ GetRhr(t) \/ StoreRx(t) \/ LoadRxIn(t) \/ AdvanceRxIn(t)

\* slip: the handler does not see that PutChar masked it
EnterHandlerAlways ==
  /\ pc["handler"] = "out" /\ rhr # 0
  /\ Goto("handler", "tx")
  /\ raced' = (raced \/ (~ putting /\ pc["main"] \in {"get", "store", "load", "rxin"}))
  /\ UNCHANGED <<rxVars, txVars, c, reg, putting, rhr, arrived, overrun, lapped,
                 got, puts>>

\* USART0_Handler: only US_IER_RXRDY is enabled.
EnterHandler ==
  /\ pc["handler"] = "out" /\ rhr # 0 /\ ~ putting
  /\ Goto("handler", "tx")
  /\ raced' = (raced \/ pc["main"] \in {"get", "store", "load", "rxin"})
  /\ UNCHANGED <<rxVars, txVars, c, reg, putting, rhr, arrived, overrun, lapped,
                 got, puts>>

-----------------------------------------------------------------------------
(* The main loop: the unmasked call, then Run_Config, which takes what is  *)
(* there and may put an answer at any point.                               *)

CallInterrupt ==
  /\ Runs("main") /\ pc["main"] = "loop"
  /\ Goto("main", "tx")
  /\ UNCHANGED <<rxVars, txVars, c, reg, putting, rhr, arrived, history, got, puts>>

\* slip: compared as if the indices did not wrap
RxReadyAbove ==
  /\ Runs("main") /\ pc["main"] = "config"
  /\ Goto("main", IF RxIn > RxOut THEN "getchar" ELSE "loop")
  /\ UNCHANGED <<rxVars, txVars, c, reg, putting, rhr, arrived, history, got, puts>>

RxReady ==
  /\ Runs("main") /\ pc["main"] = "config"
  /\ Goto("main", IF RxIn # RxOut THEN "getchar" ELSE "loop")
  /\ UNCHANGED <<rxVars, txVars, c, reg, putting, rhr, arrived, history, got, puts>>

\* Masked from end to end; 0 should the ring be empty.
GetChar ==
  /\ Runs("main") /\ pc["main"] = "getchar"
  /\ IF RxIn # RxOut
       THEN got' = Append(got, RxBuffer[RxOut]) /\ RxOut' = Inc8(RxOut)
       ELSE got' = Append(got, 0) /\ UNCHANGED RxOut
  /\ Goto("main", "config")
  /\ UNCHANGED <<RxBuffer, RxIn, txVars, c, reg, putting, rhr, arrived, history, puts>>

\* slip: the character is left for the next interrupt to send
PutCharLater ==
  /\ Runs("main") /\ pc["main"] = "config" /\ puts < MaxPuts
  /\ puts' = puts + 1
  /\ IF TxOut + 1 # TxIn
       THEN TxBuffer' = [TxBuffer EXCEPT ![TxIn] = puts'] /\ TxIn' = Inc8(TxIn)
       ELSE UNCHANGED <<TxBuffer, TxIn>>
  /\ UNCHANGED <<rxVars, TxOut, sent, pc, c, reg, putting, rhr, arrived, history, got>>

\* The test of the code: TxOut + 1, in 16 bits, against TxIn.
PutChar ==
  /\ Runs("main") /\ pc["main"] = "config" /\ puts < MaxPuts
  /\ puts' = puts + 1
  /\ IF TxOut + 1 # TxIn
       THEN TxBuffer' = [TxBuffer EXCEPT ![TxIn] = puts'] /\ TxIn' = Inc8(TxIn)
       ELSE UNCHANGED <<TxBuffer, TxIn>>
  /\ putting' = TRUE
  /\ Goto("main", "tx")
  /\ UNCHANGED <<rxVars, TxOut, sent, c, reg, rhr, arrived, history, got>>

-----------------------------------------------------------------------------
\* A character that finds the one before it unread takes its place.
Arrive ==
  /\ arrived < MaxChars
  /\ arrived' = arrived + 1
  /\ rhr' = arrived'
  /\ overrun' = (overrun \/ rhr # 0)
  /\ UNCHANGED <<rxVars, txVars, pc, c, reg, putting, raced, lapped, got, puts>>

Main == Interrupt("main") \/ CallInterrupt \/ RxReady \/ GetChar \/ PutChar

Next == Main \/ EnterHandler \/ Interrupt("handler") \/ Arrive

Spec == Init /\ [][Next]_vars

\* The processor runs; whether the interrupt fires is left open.
FairSpec == Spec /\ WF_vars(Main) /\ WF_vars(Interrupt("handler"))

-----------------------------------------------------------------------------
\* Every variable keeps to its range.
TypeOK ==
  /\ RxBuffer \in [Index -> Char \cup {0}] /\ RxIn \in Index /\ RxOut \in Index
  /\ TxBuffer \in [Index -> 0 .. MaxPuts] /\ TxIn \in Index /\ TxOut \in Index
  /\ pc["main"] \in {"loop", "config", "getchar", "tx", "put", "txout",
                      "rx", "get", "store", "load", "rxin"}
  /\ pc["handler"] \in {"out", "tx", "put", "txout", "rx", "get", "store",
                         "load", "rxin"}
  /\ c \in [Context -> Char \cup {0}] /\ reg \in [Context -> Index]
  /\ putting \in BOOLEAN /\ overrun \in BOOLEAN /\ raced \in BOOLEAN
  /\ lapped \in BOOLEAN
  /\ rhr \in Char \cup {0} /\ arrived \in 0 .. MaxChars
  /\ got \in Seq(Char \cup {0})
  /\ puts \in 0 .. MaxPuts /\ sent \in Seq(0 .. MaxPuts)

Ring(buffer, from, to) ==
  [i \in 1 .. (to + Size - from) % Size |-> buffer[(from + i - 1) % Size]]

UpTo(n) == [i \in 1 .. n |-> i]

\* A character a context has read and not yet added to the ring.
InHand(t) == IF pc[t] \in {"store", "load", "rxin"} THEN <<c[t]>> ELSE << >>

InRhr == IF rhr = 0 THEN << >> ELSE <<rhr>>

\* What the main loop got, what is in the ring and what is on its way there
\* are the characters that arrived, each once and in order, as long as the
\* USART was read in time, the ring never held Size characters, and the
\* handler did not run inside the main loop's own unmasked call.
NothingLost ==
  ~ overrun /\ ~ lapped /\ ~ raced =>
    got \o Ring(RxBuffer, RxOut, RxIn) \o InHand("main") \o InHand("handler")
      \o InRhr = UpTo(arrived)

\* usart_getchar waits only if the handler took the character away between
\* the test and the call (main.c:325).
WaitsOnlyIfRaced ==
  \A t \in Context : pc[t] = "get" /\ rhr = 0 => t = "main" /\ raced

\* Although PutChar's test for a full ring compares the wrong indices, no
\* character is ever dropped or sent out of order: it is sent before PutChar
\* returns, so PutChar always finds the ring empty.
SentInOrder ==
  LET first == IF \E t \in Context : pc[t] = "txout" THEN Inc8(TxOut) ELSE TxOut
  IN  sent \o Ring(TxBuffer, first, TxIn) = UpTo(puts)

\* A character that arrives reaches the main loop, the same failures excepted,
\* even if the interrupt never fires.
CharsReachMain ==
  \A n \in Char :
    arrived >= n ~> (Len(got) >= n \/ overrun \/ lapped \/ raced)
=============================================================================
