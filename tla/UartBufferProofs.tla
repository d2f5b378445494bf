-------------------------- MODULE UartBufferProofs -------------------------
(***************************************************************************)
(* Proofs about UartBuffer, for every size of the rings and any number of  *)
(* characters in both directions.                                          *)
(***************************************************************************)
EXTENDS UartBuffer, Division, SequenceTheorems, TLAPS

-----------------------------------------------------------------------------
(* Indices.                                                                *)

LEMMA SizeNat == Size \in Nat \ {0} /\ Size > 1
  BY UartAssumption

LEMMA Inc8Range == ASSUME NEW i \in Index PROVE Inc8(i) \in Index
<1>1. i + 1 \in Int BY SizeNat DEF Index
<1> QED BY <1>1, SizeNat, ModRange DEF Inc8, Index

\* Up to the last index a uint8_t counts, there it goes round.
LEMMA Inc8Is ==
  ASSUME NEW i \in Index
  PROVE  Inc8(i) = IF i = Size - 1 THEN 0 ELSE i + 1
<1>1. CASE i = Size - 1
  <2>1. ((1 * Size + 0) % Size) = 0 BY SizeNat, DivUnique
  <2>2. 1 * Size + 0 = i + 1 BY <1>1, SizeNat
  <2> QED BY <1>1, <2>1, <2>2 DEF Inc8
<1>2. CASE i # Size - 1
  <2>1. i + 1 \in 0 .. Size - 1 BY <1>2, SizeNat DEF Index
  <2> QED BY <1>2, <2>1, SizeNat, ModSmall DEF Inc8
<1> QED BY <1>1, <1>2

LEMMA Inc8Other == ASSUME NEW i \in Index PROVE Inc8(i) # i
  BY Inc8Is, SizeNat DEF Index

-----------------------------------------------------------------------------
(* Types.  TypeOK does not say that pc is a function.                      *)

TypeInv == TypeOK /\ DOMAIN pc = Context /\ pc = [t \in Context |-> pc[t]]

LEMMA TypeInit == Init => TypeInv
<1> SUFFICES ASSUME Init PROVE TypeInv OBVIOUS
<1> USE SizeNat, UartAssumption DEF Init, Context, Index, Char
<1>1. DOMAIN pc = Context /\ pc = [t \in Context |-> pc[t]] OBVIOUS
<1>2. got \in Seq(Char \cup {0}) /\ sent \in Seq(0 .. MaxPuts) BY EmptySeq
<1>3. c \in [Context -> Char \cup {0}] /\ reg \in [Context -> Index] OBVIOUS
<1>4. RxBuffer \in [Index -> Char \cup {0}] /\ TxBuffer \in [Index -> 0 .. MaxPuts] OBVIOUS
<1> QED BY <1>1, <1>2, <1>3, <1>4 DEF TypeInv, TypeOK

LEMMA TypeInterrupt ==
  ASSUME TypeInv, NEW t \in Context, Interrupt(t)
  PROVE  TypeInv'
<1> USE DEF TypeInv, TypeOK, Goto, Return, rxVars, txVars, history, Context
<1>1. CASE TestTx(t) BY <1>1 DEF TestTx
<1>2. CASE PutThr(t)
  <2>1. sent' \in Seq(0 .. MaxPuts)
    <3>1. TxBuffer[TxOut] \in 0 .. MaxPuts OBVIOUS
    <3> QED BY <1>2, <3>1, AppendProperties DEF PutThr
  <2> QED BY <1>2, <2>1 DEF PutThr
<1>3. CASE AdvanceTxOut(t) BY <1>3, Inc8Range DEF AdvanceTxOut
<1>4. CASE TestRx(t) BY <1>4 DEF TestRx
<1>5. CASE GetRhr(t) BY <1>5 DEF GetRhr
<1>6. CASE StoreRx(t) BY <1>6 DEF StoreRx
<1>7. CASE LoadRxIn(t) BY <1>7 DEF LoadRxIn
<1>8. CASE AdvanceRxIn(t) BY <1>8, Inc8Range DEF AdvanceRxIn
<1> QED BY <1>1, <1>2, <1>3, <1>4, <1>5, <1>6, <1>7, <1>8 DEF Interrupt

LEMMA TypeStep == TypeInv /\ [Next]_vars => TypeInv'
<1> SUFFICES ASSUME TypeInv, [Next]_vars PROVE TypeInv' OBVIOUS
<1> USE DEF TypeInv, TypeOK, Goto, rxVars, txVars, history, Context
<1>1. CASE \E t \in Context : Interrupt(t) BY <1>1, TypeInterrupt
<1>2. CASE CallInterrupt BY <1>2 DEF CallInterrupt
<1>3. CASE RxReady BY <1>3 DEF RxReady
<1>4. CASE GetChar
  <2>1. got' \in Seq(Char \cup {0})
    <3>1. RxBuffer[RxOut] \in Char \cup {0} OBVIOUS
    <3>2. got' \in {Append(got, RxBuffer[RxOut]), Append(got, 0)} BY <1>4 DEF GetChar
    <3>3. \A e \in Char \cup {0} : Append(got, e) \in Seq(Char \cup {0})
      <4> SUFFICES ASSUME NEW e \in Char \cup {0}
                   PROVE  Append(got, e) \in Seq(Char \cup {0})
        OBVIOUS
      <4> DEFINE S == Char \cup {0}
      <4>1. got \in Seq(S) /\ e \in S OBVIOUS
      <4> HIDE DEF S
      <4>2. Append(got, e) \in Seq(S) BY <4>1, AppendProperties
      <4> QED BY <4>2 DEF S
    <3> QED BY <3>1, <3>2, <3>3
  <2>2. RxOut' \in Index BY <1>4, Inc8Range DEF GetChar
  <2> QED BY <1>4, <2>1, <2>2 DEF GetChar
<1>5. CASE PutChar
  <2>1. puts' \in 0 .. MaxPuts BY <1>5, UartAssumption DEF PutChar
  <2>2. TxBuffer' \in [Index -> 0 .. MaxPuts] /\ TxIn' \in Index
    <3>1. CASE TxOut + 1 # TxIn BY <1>5, <2>1, <3>1, Inc8Range DEF PutChar
    <3>2. CASE TxOut + 1 = TxIn BY <1>5, <3>2 DEF PutChar
    <3> QED BY <3>1, <3>2
  <2> QED BY <1>5, <2>1, <2>2 DEF PutChar
<1>6. CASE EnterHandler BY <1>6 DEF EnterHandler
<1>7. CASE Arrive BY <1>7, UartAssumption DEF Arrive, Char
<1>8. CASE UNCHANGED vars BY <1>8 DEF vars
<1> QED BY <1>1, <1>2, <1>3, <1>4, <1>5, <1>6, <1>7, <1>8 DEF Next, Main

LEMMA TypeInvHolds == Spec => []TypeInv
  BY TypeInit, TypeStep, PTL DEF Spec

\* The indices keep to their rings and every context to its code, although two
\* contexts advance RxIn by a load and a store (UartBuffer.c:62).
THEOREM TypeCorrect == Spec => []TypeOK
<1>1. TypeInv => TypeOK BY DEF TypeInv
<1> QED BY <1>1, TypeInvHolds, PTL

-----------------------------------------------------------------------------
(* The race of main.c:325.                                                 *)

\* Between the test for a character and the end of RxIn++.
Taking == {"get", "store", "load", "rxin"}

\* When the handler runs inside such a stretch of the main loop, it is known
\* to have raced; what it tests itself nobody takes away.
RaceInv ==
  /\ pc["handler"] # "out" /\ pc["main"] \in Taking => raced
  /\ pc["handler"] = "get" => rhr # 0
  /\ pc["main"] = "get" => rhr # 0 \/ raced

LEMMA RaceInit == Init => RaceInv
  BY DEF Init, RaceInv, Taking

LEMMA RaceInterrupt ==
  ASSUME TypeInv, RaceInv, NEW t \in Context, Interrupt(t)
  PROVE  RaceInv'
<1> USE DEF RaceInv, Taking, Goto, Return, Runs, history, Context
<1> pc = [u \in Context |-> pc[u]] /\ t \in {"main", "handler"} BY DEF TypeInv
<1>1. CASE TestTx(t) BY <1>1 DEF TestTx
<1>2. CASE PutThr(t) BY <1>2 DEF PutThr
<1>3. CASE AdvanceTxOut(t) BY <1>3 DEF AdvanceTxOut
<1>4. CASE TestRx(t) BY <1>4 DEF TestRx
<1>5. CASE GetRhr(t) BY <1>5 DEF GetRhr
<1>6. CASE StoreRx(t) BY <1>6 DEF StoreRx
<1>7. CASE LoadRxIn(t) BY <1>7 DEF LoadRxIn
<1>8. CASE AdvanceRxIn(t) BY <1>8 DEF AdvanceRxIn
<1> QED BY <1>1, <1>2, <1>3, <1>4, <1>5, <1>6, <1>7, <1>8 DEF Interrupt

LEMMA RaceStep == TypeInv /\ RaceInv /\ [Next]_vars => RaceInv'
<1> SUFFICES ASSUME TypeInv, RaceInv, [Next]_vars PROVE RaceInv' OBVIOUS
<1> USE DEF RaceInv, Taking, Goto, Runs, history, Context
<1> pc = [u \in Context |-> pc[u]] BY DEF TypeInv
<1>1. CASE \E t \in Context : Interrupt(t) BY <1>1, RaceInterrupt
<1>2. CASE CallInterrupt BY <1>2 DEF CallInterrupt
<1>3. CASE RxReady BY <1>3 DEF RxReady
<1>4. CASE GetChar BY <1>4 DEF GetChar
<1>5. CASE PutChar BY <1>5 DEF PutChar
<1>6. CASE EnterHandler BY <1>6 DEF EnterHandler
<1>7. CASE Arrive
  <2>1. rhr' # 0 BY <1>7 DEF Arrive, TypeInv, TypeOK
  <2> QED BY <1>7, <2>1 DEF Arrive
<1>8. CASE UNCHANGED vars BY <1>8 DEF vars
<1> QED BY <1>1, <1>2, <1>3, <1>4, <1>5, <1>6, <1>7, <1>8 DEF Next, Main

\* usart_getchar waits only in the main loop, and only where the handler ran
\* in the middle of its unmasked call (main.c:325).
THEOREM WaitsOnlyIfRacedHolds == Spec => []WaitsOnlyIfRaced
<1>1. TypeInv /\ RaceInv => WaitsOnlyIfRaced
  BY DEF RaceInv, WaitsOnlyIfRaced, Context
<1>2. TypeInv /\ RaceInv /\ [Next]_vars => (TypeInv /\ RaceInv)'
  BY TypeStep, RaceStep
<1> QED BY <1>1, <1>2, TypeInit, RaceInit, PTL DEF Spec

-----------------------------------------------------------------------------
(* Sending.                                                                *)

LEMMA UpToSeq == ASSUME NEW n \in Nat PROVE UpTo(n) \in Seq(Nat) /\ Len(UpTo(n)) = n
<1> DEFINE f == [i \in 1 .. n |-> i]
<1>1. f \in [1 .. n -> Nat] OBVIOUS
<1>2. f \in Seq(Nat) /\ Len(f) = n BY <1>1, LenProperties
<1> QED BY <1>2 DEF UpTo

LEMMA UpToAppend == ASSUME NEW n \in Nat PROVE Append(UpTo(n), n + 1) = UpTo(n + 1)
<1>1. UpTo(n) \in Seq(Nat) /\ Len(UpTo(n)) = n BY UpToSeq
<1>2. Append(UpTo(n), n + 1) =
        [i \in 1 .. n + 1 |-> IF i = n + 1 THEN n + 1 ELSE UpTo(n)[i]]
  BY <1>1 
<1>3. \A i \in 1 .. n : UpTo(n)[i] = i BY DEF UpTo
<1>4. [i \in 1 .. n + 1 |-> IF i = n + 1 THEN n + 1 ELSE UpTo(n)[i]]
        = [i \in 1 .. n + 1 |-> i]
  BY <1>3
<1> QED BY <1>2, <1>4 DEF UpTo

LEMMA RingEmpty == ASSUME NEW b, NEW i \in Index PROVE Ring(b, i, i) = << >>
<1>1. ((i + Size - i) % Size) = 0
  <2>1. ((1 * Size + 0) % Size) = 0 BY SizeNat, DivUnique
  <2>2. 1 * Size + 0 = i + Size - i BY SizeNat DEF Index
  <2> QED BY <2>1, <2>2
<1>2. Ring(b, i, i) = [k \in 1 .. 0 |-> b[((i + k - 1) % Size)]] BY <1>1 DEF Ring
<1> QED BY <1>2

LEMMA RingOne == ASSUME NEW b, NEW i \in Index PROVE Ring(b, i, Inc8(i)) = <<b[i]>>
<1>1. ((Inc8(i) + Size - i) % Size) = 1
  <2>1. CASE i = Size - 1
    <3>1. Inc8(i) + Size - i = 1 BY <2>1, Inc8Is, SizeNat
    <3> QED BY <3>1, SizeNat, ModSmall
  <2>2. CASE i # Size - 1
    <3>1. ((1 * Size + 1) % Size) = 1 BY SizeNat, DivUnique
    <3>2. 1 * Size + 1 = Inc8(i) + Size - i BY <2>2, Inc8Is, SizeNat DEF Index
    <3> QED BY <3>1, <3>2
  <2> QED BY <2>1, <2>2
<1>2. Ring(b, i, Inc8(i)) = [k \in 1 .. 1 |-> b[((i + k - 1) % Size)]] BY <1>1 DEF Ring
<1>3. ((i + 1 - 1) % Size) = i
  <2>1. i + 1 - 1 = i BY SizeNat DEF Index
  <2> QED BY <2>1, SizeNat, ModSmall DEF Index
<1> QED BY <1>2, <1>3

\* The character PutChar adds is sent by its own call of UartBuffer_Interrupt,
\* so the ring holds one character in that call and none elsewhere.
TxInv ==
  /\ pc["handler"] \notin {"put", "txout"}
  /\ putting => pc["handler"] = "out" /\ pc["main"] \notin {"loop", "config", "getchar"}
  /\ pc["main"] \in {"put", "txout"} => putting
  /\ IF putting /\ pc["main"] \in {"tx", "put"}
       THEN /\ TxIn = Inc8(TxOut) /\ TxBuffer[TxOut] = puts
            /\ puts >= 1 /\ sent = UpTo(puts - 1)
       ELSE /\ sent = UpTo(puts)
            /\ IF pc["main"] = "txout" THEN TxIn = Inc8(TxOut) /\ reg["main"] = TxOut
                                       ELSE TxIn = TxOut

LEMMA TxInit == Init => TxInv
<1> SUFFICES ASSUME Init PROVE TxInv OBVIOUS
<1>1. UpTo(0) = << >> BY DEF UpTo
<1> QED BY <1>1 DEF Init, TxInv

LEMMA TxInterrupt ==
  ASSUME TypeInv, TxInv, NEW t \in Context, Interrupt(t)
  PROVE  TxInv'
<1> USE DEF TxInv, Goto, Return, Runs, history, rxVars, txVars, Context
<1> pc = [u \in Context |-> pc[u]] /\ t \in {"main", "handler"}
    /\ TxOut \in Index /\ puts \in Nat /\ reg \in [Context -> Index]
    /\ putting \in BOOLEAN
  BY UartAssumption DEF TypeInv, TypeOK
<1>1. CASE TestTx(t)
  <2>1. Inc8(TxOut) # TxOut BY Inc8Other
  <2> QED BY <1>1, <2>1 DEF TestTx
<1>2. CASE PutThr(t)
  <2>1. t = "main" /\ putting /\ pc["main"] = "put" BY <1>2 DEF PutThr
  <2>2. sent' = Append(UpTo(puts - 1), puts) BY <1>2, <2>1 DEF PutThr
  <2>3. puts - 1 \in Nat /\ (puts - 1) + 1 = puts BY <2>1
  <2>4. sent' = UpTo(puts) BY <2>2, <2>3, UpToAppend
  <2> QED BY <1>2, <2>1, <2>4 DEF PutThr
<1>3. CASE AdvanceTxOut(t) BY <1>3 DEF AdvanceTxOut
<1>4. CASE TestRx(t) BY <1>4 DEF TestRx
<1>5. CASE GetRhr(t) BY <1>5 DEF GetRhr
<1>6. CASE StoreRx(t) BY <1>6 DEF StoreRx
<1>7. CASE LoadRxIn(t) BY <1>7 DEF LoadRxIn
<1>8. CASE AdvanceRxIn(t) BY <1>8 DEF AdvanceRxIn
<1> QED BY <1>1, <1>2, <1>3, <1>4, <1>5, <1>6, <1>7, <1>8 DEF Interrupt

LEMMA TxStep == TypeInv /\ TxInv /\ [Next]_vars => TxInv'
<1> SUFFICES ASSUME TypeInv, TxInv, [Next]_vars PROVE TxInv' OBVIOUS
<1> USE DEF TxInv, Goto, Runs, history, rxVars, txVars, Context
<1> pc = [u \in Context |-> pc[u]] /\ puts \in Nat /\ TxOut \in Index /\ TxIn \in Index
    /\ TxBuffer \in [Index -> 0 .. MaxPuts]
  BY UartAssumption DEF TypeInv, TypeOK
<1>1. CASE \E t \in Context : Interrupt(t) BY <1>1, TxInterrupt
<1>2. CASE CallInterrupt BY <1>2 DEF CallInterrupt
<1>3. CASE RxReady BY <1>3 DEF RxReady
<1>4. CASE GetChar BY <1>4 DEF GetChar
<1>5. CASE PutChar
  <2>1. ~ putting /\ TxIn = TxOut /\ sent = UpTo(puts) BY <1>5 DEF PutChar
  <2>2. TxOut + 1 # TxIn BY <2>1, SizeNat DEF Index
  <2>3. /\ TxBuffer' = [TxBuffer EXCEPT ![TxIn] = puts'] /\ TxIn' = Inc8(TxIn)
        /\ TxOut' = TxOut /\ puts' = puts + 1 /\ sent' = sent
        /\ putting' /\ pc'["main"] = "tx" /\ pc'["handler"] = "out"
    BY <1>5, <2>2 DEF PutChar
  <2>4. TxBuffer'[TxOut'] = puts' BY <2>1, <2>3
  <2>5. puts' >= 1 /\ puts' - 1 = puts BY <2>3
  <2> QED BY <2>1, <2>3, <2>4, <2>5
<1>6. CASE EnterHandler BY <1>6 DEF EnterHandler
<1>7. CASE Arrive BY <1>7 DEF Arrive
<1>8. CASE UNCHANGED vars BY <1>8 DEF vars
<1> QED BY <1>1, <1>2, <1>3, <1>4, <1>5, <1>6, <1>7, <1>8 DEF Next, Main

LEMMA TxInOrder == TypeInv /\ TxInv => SentInOrder
<1> SUFFICES ASSUME TypeInv, TxInv PROVE SentInOrder OBVIOUS
<1> USE DEF TxInv
<1>0. /\ TxOut \in Index /\ puts \in Nat /\ sent \in Seq(0 .. MaxPuts)
      /\ Inc8(TxOut) \in Index
  BY UartAssumption, Inc8Range DEF TypeInv, TypeOK
<1>e. (\E t \in Context : pc[t] = "txout") <=> pc["main"] = "txout" BY DEF Context
<1>s. sent \o << >> = sent BY <1>0
<1>1. CASE putting /\ pc["main"] \in {"tx", "put"}
  <2>1. Ring(TxBuffer, TxOut, TxIn) = <<puts>> BY <1>0, <1>1, RingOne
  <2>2. puts - 1 \in Nat /\ (puts - 1) + 1 = puts BY <1>0, <1>1
  <2>3. sent \o <<puts>> = Append(sent, puts) BY <1>0
  <2>4. sent \o <<puts>> = UpTo(puts) BY <1>1, <2>2, <2>3, UpToAppend
  <2> QED BY <1>e, <1>1, <2>1, <2>4 DEF SentInOrder
<1>2. CASE pc["main"] = "txout"
  <2>1. sent = UpTo(puts) /\ TxIn = Inc8(TxOut) BY <1>2
  <2>2. Ring(TxBuffer, Inc8(TxOut), TxIn) = << >> BY <2>1, <1>0, RingEmpty
  <2> QED BY <1>e, <1>s, <1>2, <2>1, <2>2 DEF SentInOrder
<1>3. CASE ~ (putting /\ pc["main"] \in {"tx", "put"}) /\ pc["main"] # "txout"
  <2>1. sent = UpTo(puts) /\ TxIn = TxOut BY <1>3
  <2>2. Ring(TxBuffer, TxOut, TxIn) = << >> BY <2>1, <1>0, RingEmpty
  <2> QED BY <1>e, <1>s, <1>3, <2>1, <2>2 DEF SentInOrder
<1> QED BY <1>1, <1>2, <1>3

\* Whatever the size of the ring, PutChar finds it empty: its test for a full
\* one, which compares the wrong indices, never drops a character
\* (UartBuffer.c:93).
THEOREM SentInOrderHolds == Spec => []SentInOrder
<1>1. TypeInv /\ TxInv /\ [Next]_vars => (TypeInv /\ TxInv)' BY TypeStep, TxStep
<1> QED BY <1>1, TypeInit, TxInit, TxInOrder, PTL DEF Spec

-----------------------------------------------------------------------------
(* Receiving.                                                              *)

\* The context holds a character that is not yet in the ring.
Holds(t) == pc[t] \in {"store", "load", "rxin"}

Holding == Holds("main") \/ Holds("handler")

Taken == Len(got)

\* The characters added to the ring so far.
Added == arrived - (IF Holding THEN 1 ELSE 0) - (IF rhr # 0 THEN 1 ELSE 0)

Clean == ~ overrun /\ ~ lapped /\ ~ raced

RxInv ==
  Clean =>
    /\ Added \in Nat /\ Taken <= Added /\ Added - Taken < Size
    /\ got = UpTo(Taken)
    /\ RxOut = (Taken % Size) /\ RxIn = (Added % Size)
    /\ \A k \in Taken .. Added - 1 : RxBuffer[(k % Size)] = k + 1
    /\ ~ (Holds("main") /\ Holds("handler"))
    /\ \A t \in Context :
         /\ Holds(t) => c[t] = Added + 1
         /\ pc[t] \in {"load", "rxin"} => RxBuffer[RxIn] = Added + 1
         /\ pc[t] = "rxin" => reg[t] = RxIn
    /\ rhr # 0 => rhr = arrived
    /\ pc["main"] = "getchar" => Taken < Added

LEMMA RxInit == Init => RxInv
<1> SUFFICES ASSUME Init PROVE RxInv OBVIOUS
<1>1. UpTo(0) = << >> BY DEF UpTo
<1>2. (0 % Size) = 0 BY SizeNat, ModSmall
<1>3. \A t \in Context : pc[t] \in {"loop", "out"} BY DEF Init, Context
<1>4. Taken = 0 BY DEF Init, Taken
<1>5. Added = 0
  <2>1. ~ Holding BY <1>3 DEF Holding, Holds, Context
  <2>2. arrived = 0 /\ rhr = 0 BY DEF Init
  <2>3. Added = 0 - 0 - 0 BY <2>1, <2>2 DEF Added
  <2> QED BY <2>3
<1>6. \A t \in Context : ~ Holds(t) BY <1>3 DEF Holds
<1> QED BY <1>1, <1>2, <1>3, <1>4, <1>5, <1>6, SizeNat DEF Init, RxInv, Holds, Context

\* Steps that leave the ring, what was got and the character in RHR alone.
LEMMA RxSame ==
  ASSUME TypeInv, RxInv,
         RxBuffer' = RxBuffer, RxIn' = RxIn, RxOut' = RxOut, got' = got,
         rhr' = rhr, arrived' = arrived, c' = c,
         Clean' => Clean,
         \A t \in Context : Holds(t)' <=> Holds(t),
         \A t \in Context :
           pc'[t] = "rxin" => \/ pc[t] = "rxin" /\ reg'[t] = reg[t]
                              \/ pc[t] = "load" /\ reg'[t] = RxIn,
         \A t \in Context : pc'[t] = "load" => pc[t] = "load",
         pc'["main"] = "getchar" => pc["main"] = "getchar" \/ RxIn # RxOut
  PROVE  RxInv'
<1> SUFFICES ASSUME Clean' PROVE RxInv' BY DEF RxInv
<1>1. Clean OBVIOUS
<1>2. Holding' <=> Holding BY DEF Holding, Context
<1>3. Taken' = Taken /\ Added' = Added BY <1>2 DEF Taken, Added
<1>4. Taken \in Nat BY LenProperties DEF Taken, TypeInv, TypeOK
<1>5. Holds("main")' <=> Holds("main") BY DEF Context
<1>6. Holds("handler")' <=> Holds("handler") BY DEF Context
<1>7. pc'["main"] = "getchar" => Taken < Added
  <2>1. CASE RxIn # RxOut
    <3>1. Added # Taken BY <1>1, <2>1 DEF RxInv
    <3> QED BY <1>1, <1>4, <3>1 DEF RxInv
  <2> QED BY <1>1, <2>1 DEF RxInv
<1>8. \A t \in Context :
         /\ Holds(t)' => c'[t] = Added + 1
         /\ pc'[t] \in {"load", "rxin"} => RxBuffer[RxIn] = Added + 1
         /\ pc'[t] = "rxin" => reg'[t] = RxIn
  BY <1>1 DEF RxInv
<1> QED BY <1>1, <1>3, <1>5, <1>6, <1>7, <1>8 DEF RxInv

LEMMA RxGet ==
  ASSUME TypeInv, RaceInv, RxInv, NEW t \in Context, GetRhr(t)
  PROVE  RxInv'
<1> SUFFICES ASSUME Clean' PROVE RxInv' BY DEF RxInv
<1> USE DEF GetRhr, Goto, Runs, history, rxVars, txVars, Context
<1> pc = [u \in Context |-> pc[u]] /\ c \in [Context -> Char \cup {0}] BY DEF TypeInv, TypeOK
<1>1. Clean BY DEF Clean
<1>2. Taken' = Taken BY DEF Taken
<1>3. ~ Holding
  <2>1. CASE t = "main" BY <2>1 DEF Holding, Holds
  <2>2. CASE t = "handler"
    <3>1. pc["main"] \notin Taking BY <1>1, <2>2 DEF RaceInv, Clean
    <3> QED BY <2>2, <3>1 DEF Holding, Holds, Taking
  <2> QED BY <2>1, <2>2
<1>4. Holding' BY DEF Holding, Holds
<1>5. Added' = Added /\ rhr = Added + 1
  <2>1. arrived' = arrived /\ rhr' = 0 /\ rhr # 0 /\ arrived \in Nat
    BY DEF TypeInv, TypeOK
  <2>2. rhr = arrived BY <1>1, <2>1 DEF RxInv
  <2> QED BY <1>3, <1>4, <2>1, <2>2 DEF Added
<1>6. \A u \in Context : Holds(u)' => u = t BY <1>3 DEF Holding, Holds
<1>7. c'[t] = Added + 1 BY <1>5
<1>8. \A u \in Context : pc'[u] \notin {"load", "rxin"} BY <1>3 DEF Holding, Holds
<1> QED BY <1>1, <1>2, <1>5, <1>6, <1>7, <1>8 DEF RxInv

LEMMA RxStore ==
  ASSUME TypeInv, RxInv, NEW t \in Context, StoreRx(t)
  PROVE  RxInv'
<1> SUFFICES ASSUME Clean' PROVE RxInv' BY DEF RxInv
<1> USE DEF StoreRx, Goto, Runs, history, rxVars, txVars, Context
<1> pc = [u \in Context |-> pc[u]]
    /\ RxBuffer \in [Index -> Char \cup {0}] /\ RxIn \in Index
    /\ Taken \in Nat
  BY LenProperties DEF TypeInv, TypeOK, Taken
<1>1. Clean BY DEF Clean
<1>2. Taken' = Taken /\ Added' = Added BY DEF Taken, Added, Holding, Holds
<1>3. Holds(t) BY DEF Holds
<1>4. RxBuffer'[RxIn] = Added + 1 BY <1>1, <1>3 DEF RxInv
<1>5. \A k \in Taken .. Added - 1 : RxBuffer'[(k % Size)] = k + 1
  <2> SUFFICES ASSUME NEW k \in Taken .. Added - 1 PROVE RxBuffer'[(k % Size)] = k + 1
    OBVIOUS
  <2>1. k \in Nat /\ Added \in Nat /\ k < Added /\ Added - k < Size BY <1>1, SizeNat DEF RxInv
  <2>2. (k % Size) # (Added % Size) BY <2>1, SizeNat, ModDistinct
  <2>3. RxBuffer[(k % Size)] = k + 1 BY <1>1 DEF RxInv
  <2>4. RxIn = (Added % Size) BY <1>1 DEF RxInv
  <2> QED BY <2>2, <2>3, <2>4
<1>6. \A u \in Context : Holds(u)' <=> Holds(u) BY DEF Holds
<1>7. \A u \in Context : Holds(u) => u = t BY <1>1, <1>3 DEF RxInv
<1>8. \A u \in Context :
         /\ Holds(u)' => c'[u] = Added + 1
         /\ pc'[u] \in {"load", "rxin"} => RxBuffer'[RxIn] = Added + 1
         /\ pc'[u] = "rxin" => reg'[u] = RxIn
  <2>1. \A u \in Context : Holds(u) => c[u] = Added + 1 BY <1>1 DEF RxInv
  <2>2. \A u \in Context : pc'[u] # "rxin" BY <1>7 DEF Holds
  <2> QED BY <1>4, <1>6, <2>1, <2>2
<1>9. ~ (Holds("main")' /\ Holds("handler")') BY <1>1, <1>6 DEF RxInv
<1> QED BY <1>1, <1>2, <1>4, <1>5, <1>8, <1>9 DEF RxInv

LEMMA RxAdvance ==
  ASSUME TypeInv, RxInv, NEW t \in Context, AdvanceRxIn(t)
  PROVE  RxInv'
<1> SUFFICES ASSUME Clean' PROVE RxInv' BY DEF RxInv
<1> USE DEF AdvanceRxIn, Goto, Return, Runs, txVars, Context
<1> pc = [u \in Context |-> pc[u]] /\ Taken \in Nat
    /\ (t = "main" \/ t = "handler")
  BY LenProperties DEF TypeInv, TypeOK, Taken
<1>1. Clean /\ RxIn' # RxOut BY DEF Clean, TypeInv, TypeOK
<1>2. Taken' = Taken BY DEF Taken
<1>3. Holds(t) /\ pc[t] = "rxin" BY DEF Holds
<1>4. \A u \in Context : Holds(u) => u = t BY <1>1, <1>3 DEF RxInv
<1>5. \A u \in Context : ~ Holds(u)' BY <1>4 DEF Holds
<1>6. Added \in Nat /\ Added' = Added + 1
  <2>1. Holding /\ ~ Holding' BY <1>3, <1>5 DEF Holding
  <2>2. arrived' = arrived /\ rhr' = rhr /\ arrived \in Nat BY DEF TypeInv, TypeOK
  <2> QED BY <1>1, <2>1, <2>2 DEF RxInv, Added
<1>7. RxIn' = ((Added + 1) % Size)
  <2>1. reg[t] = (Added % Size) BY <1>1, <1>3 DEF RxInv
  <2>2. (((Added % Size) + 1) % Size) = ((Added + 1) % Size) BY <1>6, SizeNat, ModAdd
  <2> QED BY <2>1, <2>2 DEF Inc8
<1>8. (Added + 1) - Taken < Size
  <2>1. (Added + 1) - Taken <= Size BY <1>1, <1>6, SizeNat DEF RxInv
  <2>2. CASE Added + 1 = Taken + Size
    <3>1. ((Taken + Size) % Size) = (Taken % Size) BY SizeNat, ModFull
    <3> QED BY <1>1, <1>7, <2>2, <3>1 DEF RxInv
  <2> QED BY <2>1, <2>2, <1>6, SizeNat
<1>9. \A k \in Taken .. (Added + 1) - 1 : RxBuffer[(k % Size)] = k + 1
  <2>1. \A k \in Taken .. Added - 1 : RxBuffer[(k % Size)] = k + 1 BY <1>1 DEF RxInv
  <2>2. RxBuffer[(Added % Size)] = Added + 1 BY <1>1, <1>3 DEF RxInv
  <2> QED BY <1>6, <2>1, <2>2
<1>10. \A u \in Context : pc'[u] \notin {"load", "rxin"} BY <1>5 DEF Holds
<1>11. pc'["main"] # "getchar" \/ Taken < Added + 1 BY <1>1, <1>6 DEF RxInv
<1>12. Taken <= Added + 1 BY <1>1, <1>6 DEF RxInv
<1> QED BY <1>1, <1>2, <1>5, <1>6, <1>7, <1>8, <1>9, <1>10, <1>11, <1>12 DEF RxInv
LEMMA RxTaken ==
  ASSUME TypeInv, RxInv, GetChar
  PROVE  RxInv'
<1> SUFFICES ASSUME Clean' PROVE RxInv' BY DEF RxInv
<1> USE DEF GetChar, Goto, Runs, history, txVars, Context
<1> pc = [u \in Context |-> pc[u]] /\ Taken \in Nat
  BY LenProperties DEF TypeInv, TypeOK, Taken
<1>1. Clean BY DEF Clean
<1>2. Taken < Added /\ Added \in Nat BY <1>1 DEF RxInv
<1>3. RxIn # RxOut
  <2>1. (Taken % Size) # (Added % Size)
    <3>1. Added - Taken < Size BY <1>1 DEF RxInv
    <3> QED BY <1>2, <3>1, SizeNat, ModDistinct
  <2> QED BY <1>1, <2>1 DEF RxInv
<1>4. RxBuffer[RxOut] = Taken + 1
  <2>1. Taken \in Taken .. Added - 1 BY <1>2
  <2> QED BY <1>1, <2>1 DEF RxInv
<1>5. got' = UpTo(Taken + 1)
  <2>1. got' = Append(got, Taken + 1) BY <1>3, <1>4
  <2> QED BY <1>1, <2>1, UpToAppend DEF RxInv
<1>6. Taken' = Taken + 1 BY <1>5, UpToSeq DEF Taken
<1>7. RxOut' = ((Taken + 1) % Size)
  <2>1. (((Taken % Size) + 1) % Size) = ((Taken + 1) % Size) BY SizeNat, ModAdd
  <2> QED BY <1>1, <1>3, <2>1 DEF RxInv, Inc8
<1>8. \A u \in Context : (Holds(u)' <=> Holds(u)) /\ (pc'[u] \in {"load", "rxin"} => pc'[u] = pc[u])
  BY DEF Holds
<1>9. Added' = Added BY <1>8 DEF Added, Holding
<1>10. \A u \in Context :
         /\ Holds(u)' => c'[u] = Added + 1
         /\ pc'[u] \in {"load", "rxin"} => RxBuffer'[RxIn] = Added + 1
         /\ pc'[u] = "rxin" => reg'[u] = RxIn
  BY <1>1, <1>8 DEF RxInv
<1>11. ~ (Holds("main")' /\ Holds("handler")') BY <1>1, <1>8 DEF RxInv
<1>12. Taken + 1 <= Added /\ Added - (Taken + 1) < Size BY <1>1, <1>2, SizeNat DEF RxInv
<1>13. pc'["main"] # "getchar" OBVIOUS
<1>14. \A k \in Taken + 1 .. Added - 1 : RxBuffer[(k % Size)] = k + 1 BY <1>1, <1>2 DEF RxInv
<1>15. rhr' # 0 => rhr' = arrived' BY <1>1 DEF RxInv
<1>16. RxIn' = (Added % Size) /\ RxBuffer' = RxBuffer BY <1>1 DEF RxInv
<1> QED BY <1>2, <1>5, <1>6, <1>7, <1>9, <1>10, <1>11, <1>12, <1>13, <1>14, <1>15, <1>16 DEF RxInv

LEMMA RxArrive ==
  ASSUME TypeInv, RxInv, Arrive
  PROVE  RxInv'
<1> SUFFICES ASSUME Clean' PROVE RxInv' BY DEF RxInv
<1> USE DEF Arrive, rxVars, txVars
<1>1. Clean /\ rhr = 0 BY DEF Clean, TypeInv, TypeOK
<1>2. arrived \in Nat /\ rhr' = arrived + 1 /\ arrived' = arrived + 1
  BY DEF TypeInv, TypeOK
<1>3. Added' = Added
  <2>1. Holding' <=> Holding BY DEF Holding, Holds
  <2> QED BY <1>1, <1>2, <2>1 DEF Added
<1>4. Taken' = Taken BY DEF Taken
<1>5. \A u \in Context : Holds(u)' <=> Holds(u) BY DEF Holds
<1> QED BY <1>1, <1>2, <1>3, <1>4, <1>5 DEF RxInv, Holds

LEMMA RxStep == TypeInv /\ RaceInv /\ RxInv /\ [Next]_vars => RxInv'
<1> SUFFICES ASSUME TypeInv, RaceInv, RxInv, [Next]_vars PROVE RxInv' OBVIOUS
<1> USE DEF Goto, Return, Runs, history, rxVars, txVars, Context, Holds, Clean
<1> pc = [u \in Context |-> pc[u]] /\ reg \in [Context -> Index] BY DEF TypeInv, TypeOK
<1>1. ASSUME NEW t \in Context, Interrupt(t) PROVE RxInv'
  <2> t = "main" \/ t = "handler" OBVIOUS
  <2>1. CASE TestTx(t) BY <2>1, RxSame DEF TestTx
  <2>2. CASE PutThr(t) BY <2>2, RxSame DEF PutThr
  <2>3. CASE AdvanceTxOut(t) BY <2>3, RxSame DEF AdvanceTxOut
  <2>4. CASE TestRx(t) BY <2>4, RxSame DEF TestRx
  <2>5. CASE GetRhr(t) BY <2>5, RxGet
  <2>6. CASE StoreRx(t) BY <2>6, RxStore
  <2>7. CASE LoadRxIn(t) BY <2>7, RxSame DEF LoadRxIn
  <2>8. CASE AdvanceRxIn(t) BY <2>8, RxAdvance
  <2> QED BY <1>1, <2>1, <2>2, <2>3, <2>4, <2>5, <2>6, <2>7, <2>8 DEF Interrupt
<1>2. CASE CallInterrupt BY <1>2, RxSame DEF CallInterrupt
<1>3. CASE RxReady BY <1>3, RxSame DEF RxReady
<1>4. CASE GetChar BY <1>4, RxTaken
<1>5. CASE PutChar BY <1>5, RxSame DEF PutChar
<1>6. CASE EnterHandler BY <1>6, RxSame DEF EnterHandler
<1>7. CASE Arrive BY <1>7, RxArrive
<1>8. CASE UNCHANGED vars BY <1>8, RxSame DEF vars
<1> QED BY <1>1, <1>2, <1>3, <1>4, <1>5, <1>6, <1>7, <1>8 DEF Next, Main
LEMMA ConcatIs ==
  ASSUME NEW s \in Seq(Nat), NEW t \in Seq(Nat)
  PROVE  s \o t = [i \in 1 .. Len(s) + Len(t) |-> IF i <= Len(s) THEN s[i] ELSE t[i - Len(s)]]
<1> DEFINE u == s \o t
<1>1. /\ u \in Seq(Nat) /\ Len(u) = Len(s) + Len(t)
      /\ \A i \in 1 .. Len(s) + Len(t) :
           u[i] = IF i <= Len(s) THEN s[i] ELSE t[i - Len(s)]
  BY ConcatProperties
<1> HIDE DEF u
<1>2. u = [i \in 1 .. Len(u) |-> u[i]] BY <1>1
<1>3. u = [i \in 1 .. Len(s) + Len(t) |-> IF i <= Len(s) THEN s[i] ELSE t[i - Len(s)]]
  BY <1>1, <1>2
<1> QED BY <1>3 DEF u

\* What the main loop got and the ring together are the first Added characters.
LEMMA RingIsNext ==
  ASSUME TypeInv, RxInv, Clean
  PROVE  got \o Ring(RxBuffer, RxOut, RxIn) = UpTo(Added)
<1> DEFINE R == Ring(RxBuffer, RxOut, RxIn)
           n == Added - Taken
<1>1. /\ Taken \in Nat /\ Added \in Nat /\ Taken <= Added /\ n < Size /\ n \in Nat
      /\ RxOut = (Taken % Size) /\ RxIn = (Added % Size) /\ got = UpTo(Taken)
  BY LenProperties DEF RxInv, TypeInv, TypeOK, Taken
<1>2. ((RxIn + Size - RxOut) % Size) = n BY <1>1, SizeNat, ModDifference
<1>3. R = [i \in 1 .. n |-> RxBuffer[((RxOut + i - 1) % Size)]] BY <1>2 DEF Ring
<1>4. \A i \in 1 .. n : RxBuffer[((RxOut + i - 1) % Size)] = Taken + i
  <2> SUFFICES ASSUME NEW i \in 1 .. n
               PROVE  RxBuffer[((RxOut + i - 1) % Size)] = Taken + i
    OBVIOUS
  <2> DEFINE j == i - 1
             k == Taken + j
  <2>1. j \in Nat /\ k \in Taken .. Added - 1 /\ k + 1 = Taken + i BY <1>1
  <2>2. RxBuffer[(k % Size)] = k + 1 BY <2>1 DEF RxInv
  <2>3. (((Taken % Size) + j) % Size) = ((Taken + j) % Size) BY <1>1, <2>1, SizeNat, ModAdd
  <2>4. RxOut + i - 1 = (Taken % Size) + j
    <3>1. (Taken % Size) \in Nat BY <1>1, SizeNat, DivMod
    <3> QED BY <1>1, <1>2, <3>1
  <2> QED BY <2>1, <2>2, <2>3, <2>4
<1>5. R = [i \in 1 .. n |-> Taken + i] BY <1>3, <1>4
<1>6. UpTo(Taken) \in Seq(Nat) /\ Len(UpTo(Taken)) = Taken BY <1>1, UpToSeq
<1>7. R \in Seq(Nat) /\ Len(R) = n
  <2>1. R \in [1 .. n -> Nat] BY <1>1, <1>5
  <2>2. n \in Nat BY <1>1
  <2> HIDE DEF R, n
  <2> QED BY <2>1, <2>2, LenProperties
<1>8. UpTo(Taken) \o R =
        [i \in 1 .. Taken + n |-> IF i <= Taken THEN UpTo(Taken)[i] ELSE R[i - Taken]]
  <2> DEFINE U == UpTo(Taken)
  <2>1. U \in Seq(Nat) /\ Len(U) = Taken BY <1>6
  <2> HIDE DEF R, U, n
  <2>2. U \o R = [i \in 1 .. Len(U) + Len(R) |-> IF i <= Len(U) THEN U[i] ELSE R[i - Len(U)]]
    BY <1>7, <2>1, ConcatIs
  <2>3. U \o R = [i \in 1 .. Taken + n |-> IF i <= Taken THEN U[i] ELSE R[i - Taken]]
    BY <1>7, <2>1, <2>2
  <2> QED BY <2>3 DEF U
<1>9. \A i \in 1 .. Taken + n :
        (IF i <= Taken THEN UpTo(Taken)[i] ELSE R[i - Taken]) = i
  <2> SUFFICES ASSUME NEW i \in 1 .. Taken + n
               PROVE  (IF i <= Taken THEN UpTo(Taken)[i] ELSE R[i - Taken]) = i
    OBVIOUS
  <2>1. CASE i <= Taken BY <1>1, <2>1 DEF UpTo
  <2>2. CASE ~ (i <= Taken)
    <3>1. i - Taken \in 1 .. n BY <1>1, <2>2
    <3>2. R[i - Taken] = Taken + (i - Taken) BY <1>5, <3>1
    <3> QED BY <1>1, <2>2, <3>2
  <2> QED BY <2>1, <2>2
<1>10. Taken + n = Added BY <1>1
<1> HIDE DEF R, n
<1>11. UpTo(Taken) \o R = [i \in 1 .. Taken + n |-> i] BY <1>8, <1>9
<1>12. UpTo(Taken) \o R = UpTo(Added) BY <1>10, <1>11 DEF UpTo
<1> QED BY <1>1, <1>12 DEF R

LEMMA UpToNext ==
  ASSUME NEW n \in Nat
  PROVE  UpTo(n) \o <<n + 1>> = UpTo(n + 1) /\ UpTo(n) \o << >> = UpTo(n)
<1>1. UpTo(n) \in Seq(Nat) BY UpToSeq
<1>2. UpTo(n) \o <<n + 1>> = Append(UpTo(n), n + 1) BY <1>1
<1>3. UpTo(n) \o << >> = UpTo(n) BY <1>1
<1>4. UpTo(n) \o <<n + 1>> = UpTo(n + 1) BY <1>2, UpToAppend
<1> QED BY <1>3, <1>4

LEMMA RxNothingLost == TypeInv /\ RxInv => NothingLost
<1> SUFFICES ASSUME TypeInv, RxInv, Clean PROVE
      got \o Ring(RxBuffer, RxOut, RxIn) \o InHand("main") \o InHand("handler")
        \o InRhr = UpTo(arrived)
  BY DEF NothingLost, Clean
<1> DEFINE h == IF Holding THEN 1 ELSE 0
<1>1. got \o Ring(RxBuffer, RxOut, RxIn) = UpTo(Added) BY RingIsNext
<1>2. Added \in Nat /\ h \in 0 .. 1 /\ arrived \in Nat BY DEF RxInv, TypeInv, TypeOK
<1>3. UpTo(Added) \o InHand("main") \o InHand("handler") = UpTo(Added + h)
  <2>1. \A t \in Context : InHand(t) = IF Holds(t) THEN <<c[t]>> ELSE << >>
    BY DEF InHand, Holds
  <2>2. \A t \in Context : Holds(t) => c[t] = Added + 1 BY DEF RxInv
  <2>3. ~ (Holds("main") /\ Holds("handler")) BY DEF RxInv
  <2>4. /\ UpTo(Added) \o <<Added + 1>> = UpTo(Added + 1)
        /\ UpTo(Added) \o << >> = UpTo(Added)
        /\ UpTo(Added + 1) \o << >> = UpTo(Added + 1)
    BY <1>2, UpToNext
  <2>5. CASE Holds("main")
    <3>1. h = 1 BY <2>5 DEF Holding
    <3>2. InHand("main") = <<Added + 1>> /\ InHand("handler") = << >>
      BY <2>1, <2>2, <2>3, <2>5 DEF Context
    <3> QED BY <2>4, <3>1, <3>2
  <2>6. CASE ~ Holds("main") /\ Holds("handler")
    <3>1. h = 1 BY <2>6 DEF Holding
    <3>2. InHand("main") = << >> /\ InHand("handler") = <<Added + 1>>
      BY <2>1, <2>2, <2>6 DEF Context
    <3> QED BY <2>4, <3>1, <3>2
  <2>7. CASE ~ Holds("main") /\ ~ Holds("handler")
    <3>1. h = 0 BY <2>7 DEF Holding
    <3>2. InHand("main") = << >> /\ InHand("handler") = << >>
      BY <2>1, <2>7 DEF Context
    <3>3. Added + h = Added BY <1>2, <3>1
    <3> HIDE DEF h
    <3> QED BY <2>4, <3>2, <3>3
  <2> QED BY <2>5, <2>6, <2>7
<1>4. UpTo(Added + h) \o InRhr = UpTo(arrived)
  <2>1. Added + h \in Nat BY <1>2
  <2>0. Added = arrived - h - (IF rhr # 0 THEN 1 ELSE 0) BY DEF Added
  <2> HIDE DEF h
  <2>2. CASE rhr = 0
    <3>1. arrived = Added + h BY <1>2, <2>0, <2>2
    <3> QED BY <2>1, <2>2, <3>1, UpToNext DEF InRhr
  <2>3. CASE rhr # 0
    <3>1. arrived = (Added + h) + 1 BY <1>2, <2>0, <2>3
    <3>2. rhr = (Added + h) + 1 BY <2>3, <3>1 DEF RxInv
    <3> QED BY <2>1, <2>3, <3>1, <3>2, UpToNext DEF InRhr
  <2> QED BY <2>2, <2>3
<1> QED BY <1>1, <1>3, <1>4

\* Every character that arrives is got once and in order, through a handler
\* that may run between any two accesses of the main loop, as long as none of
\* the three failures the property names has happened (UartBuffer.c:55).
THEOREM NothingLostHolds == Spec => []NothingLost
<1>1. TypeInv /\ RaceInv /\ RxInv /\ [Next]_vars => (TypeInv /\ RaceInv /\ RxInv)'
  BY TypeStep, RaceStep, RxStep
<1> QED BY <1>1, TypeInit, RaceInit, RxInit, RxNothingLost, PTL DEF Spec
=============================================================================
