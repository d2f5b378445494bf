----------------------------- MODULE MainProofs ----------------------------
(***************************************************************************)
(* Proofs about main.c.  The main loop: the dividers of Heartbeat.c stay   *)
(* in range and every tick is accounted for, for every choice of the       *)
(* thresholds, widths and waiting times; none is lost, and the watchdog is *)
(* fed, while the waits are made good.  The command lines, for every size  *)
(* of MsgBuf and every number of lines and losses: each gets the answer to *)
(* what it asks, and what the daemon sends completes no half-typed one.    *)
(***************************************************************************)
EXTENDS MainLoop, UnitCommands, SequenceTheorems, Division, TLAPS

\* Between the test of a divider and the next tick it is below its threshold.
DividersTested ==
  /\ pc \in {"run", "second", "flash", "pri", "sec"} => count_10ms < TenMs
  /\ pc \in {"run", "pri", "sec"} => count_1s < Second
  /\ pc \in {"config", "answer", "ten", "second", "flash"} => count_1s <= Second

LoopInv == TypeOK /\ DividersTested

LEMMA Ranges ==
  /\ TenMs \in Nat /\ TenMs > 0 /\ Second \in Nat /\ Second > 0
  /\ CounterRange \in Nat /\ CounterRange > 0
  /\ WdtPeriod \in Nat /\ RoundsPerTick \in Nat
  /\ MaxStart \in Nat /\ MaxAsked \in Nat /\ MaxAnswer \in Nat /\ MaxFlash \in Nat /\ MaxConvert \in Nat
  /\ MaxStart < CounterRange /\ MaxStart < WdtPeriod
  BY LoopAssumption

LEMMA InitLoop == Init => LoopInv
<1> SUFFICES ASSUME Init PROVE LoopInv
  OBVIOUS
<1> USE Ranges DEF Init
<1>1. ms_counter \in 0 .. CounterRange - 1 /\ unfed \in 0 .. WdtPeriod
  OBVIOUS
<1>2. DividersTested
  BY DEF DividersTested
<1>3. asked \in 0 .. MaxAsked
  OBVIOUS
<1> HIDE DEF Init
<1>4. /\ count_10ms = 0 /\ count_1s = 0 /\ pc = "run" /\ left = 0 /\ rounds = 0
      /\ base = 0 /\ wraps = 0
  BY DEF Init
<1> QED
  BY <1>1, <1>2, <1>3, <1>4 DEF LoopInv, TypeOK

LEMMA LoopStep == LoopInv /\ [Next]_vars => LoopInv'
<1> SUFFICES ASSUME LoopInv, [Next]_vars PROVE LoopInv'
  OBVIOUS
<1> USE Ranges DEF LoopInv, TypeOK, DividersTested, Waits, heartVars
<1>1. CASE HeartbeatRun
  BY <1>1 DEF HeartbeatRun
<1>2. CASE Config
  BY <1>2 DEF Config
<1>3. CASE TenCheck
  BY <1>3 DEF TenCheck
<1>4. CASE SecondCheck
  <2>1. rounds' \in 0 .. RoundsPerTick
    BY <1>4 DEF SecondCheck, NextRound
  <2>2. CASE count_1s >= Second
    <3>1. asked' \in 0 .. MaxAsked
      BY <1>4, <2>2 DEF SecondCheck, Feed
    <3>2. /\ count_1s' = 0 /\ unfed' = 0 /\ base' = ms_counter /\ wraps' = 0
          /\ pc' = "pri" /\ left' = MaxConvert
          /\ UNCHANGED <<ms_counter, count_10ms>>
          /\ pc = "second"
      BY <1>4, <2>2 DEF SecondCheck, Feed
    <3> QED
      BY <2>1, <3>1, <3>2
  <2>3. CASE ~ (count_1s >= Second)
    BY <1>4, <2>1, <2>3 DEF SecondCheck, NextRound
  <2> QED
    BY <2>2, <2>3
<1>5. CASE WaitEnds
  BY <1>5 DEF WaitEnds, NextRound
<1>6. CASE Tick
  <2>1. ms_counter' \in 0 .. CounterRange - 1
    BY <1>6 DEF Tick
  <2>2. left' \in Nat /\ rounds' \in 0 .. RoundsPerTick
    BY <1>6 DEF Tick, Timing
  <2>3. unfed' \in 0 .. WdtPeriod /\ wraps' \in Nat
    BY <1>6 DEF Tick
  <2> QED
    BY <1>6, <2>1, <2>2, <2>3 DEF Tick
<1>7. CASE WatchdogReset
  <2>1. ms_counter' \in 0 .. CounterRange - 1 /\ unfed' \in 0 .. WdtPeriod
    BY <1>7 DEF WatchdogReset
  <2>2. asked' \in 0 .. MaxAsked
    BY <1>7 DEF WatchdogReset
  <2>3. /\ count_10ms' = 0 /\ count_1s' = 0 /\ pc' = "run" /\ left' = 0
        /\ rounds' = 0 /\ base' = 0 /\ wraps' = 0
    BY <1>7 DEF WatchdogReset
  <2> QED
    BY <2>1, <2>2, <2>3
<1>8. CASE UNCHANGED vars
  BY <1>8 DEF vars
<1> QED
  BY <1>1, <1>2, <1>3, <1>4, <1>5, <1>6, <1>7, <1>8 DEF Next, Loop

\* The dividers stop at their thresholds although nothing but the order of the
\* calls in main keeps them there, and every variable keeps to its range.
THEOREM TypeCorrect == Spec => []TypeOK
<1>1. LoopInv => TypeOK
  BY DEF LoopInv
<1> QED
  BY InitLoop, LoopStep, <1>1, PTL DEF Spec

LEMMA TicksInit == Init => TicksConserved
  BY Ranges DEF Init, TicksConserved

LEMMA TicksStep == LoopInv /\ TicksConserved /\ [Next]_vars => TicksConserved'
<1> SUFFICES ASSUME LoopInv, TicksConserved, [Next]_vars PROVE TicksConserved'
  OBVIOUS
<1> USE Ranges DEF TicksConserved, heartVars
<1>0. /\ ms_counter \in 0 .. CounterRange - 1 /\ count_1s \in Nat
      /\ unfed \in Nat /\ base \in Nat /\ wraps \in Nat
  BY DEF LoopInv, TypeOK
<1>1. CASE HeartbeatRun
  BY <1>0, <1>1 DEF HeartbeatRun
<1>2. CASE Config \/ TenCheck \/ WaitEnds
  BY <1>0, <1>2 DEF Config, TenCheck, WaitEnds
<1>3. CASE SecondCheck
  BY <1>0, <1>3 DEF SecondCheck, Feed
<1>4. CASE Tick
  <2> DEFINE lost == CounterRange * wraps
  <2>1. unfed' = unfed + 1 /\ base' = base /\ count_1s' = count_1s
    BY <1>4 DEF Tick
  <2>2. CASE ms_counter + 1 = CounterRange
    <3>1. ms_counter' = 0 /\ wraps' = wraps + 1
      BY <1>0, <1>4, <2>2 DEF Tick
    <3>2. CounterRange * (wraps + 1) = lost + CounterRange
      BY <1>0
    <3> QED
      BY <1>0, <2>1, <2>2, <3>1, <3>2
  <2>3. CASE ms_counter + 1 # CounterRange
    BY <1>0, <1>4, <2>1, <2>3 DEF Tick
  <2> QED
    BY <2>2, <2>3
<1>5. CASE WatchdogReset
  BY <1>5 DEF WatchdogReset
<1>6. CASE UNCHANGED vars
  BY <1>6 DEF vars
<1> QED
  BY <1>1, <1>2, <1>3, <1>4, <1>5, <1>6 DEF Next, Loop

\* Every tick since the watchdog was fed counts towards the second or waits in
\* ms_counter; only a wrap forgets some, whatever the waits of the loop.
THEOREM TicksConservedHolds == Spec => []TicksConserved
<1>1. Spec => []LoopInv
  BY InitLoop, LoopStep, PTL DEF Spec
<1> QED
  BY <1>1, TicksInit, TicksStep, PTL DEF Spec

\* The watchdog never resets a working loop that loses no tick, as long as its
\* period holds a second and the range of ms_counter (3000, 1000 and 256 ms):
\* however long and many the waits, they cannot starve it unnoticed.
THEOREM FedUnlessTicksLost ==
  ASSUME Second + CounterRange <= WdtPeriod
  PROVE  Spec => [](NoTickLost => FedInTime)
<1>1. Spec => []LoopInv
  BY InitLoop, LoopStep, PTL DEF Spec
<1>2. LoopInv /\ TicksConserved => (NoTickLost => FedInTime)
  <2> SUFFICES ASSUME LoopInv, TicksConserved, NoTickLost, unfed = WdtPeriod,
                      pc # "spin"
               PROVE  FALSE
    BY DEF FedInTime
  <2>1. /\ count_1s \in 0 .. Second /\ ms_counter \in 0 .. CounterRange - 1
        /\ base \in Nat /\ unfed \in Nat
    BY Ranges DEF LoopInv, TypeOK
  <2>2. CounterRange * wraps = 0
    BY Ranges DEF NoTickLost
  <2> QED
    BY <2>1, <2>2, Ranges DEF TicksConserved
<1> QED
  BY <1>1, <1>2, TicksConservedHolds, PTL

-----------------------------------------------------------------------------
(* The loop keeps up.  Every round takes one tick into account, and the    *)
(* waits are paid for by the rounds between them: RoundsPerTick rounds     *)
(* fill a tick, TenMs counted ticks a call of EE_Cache_Check, Second of    *)
(* them two conversions and the answers.  Behind is what the loop still    *)
(* has to count, in parts of a tick, with the waits it may yet meet.       *)

Rate == TenMs * RoundsPerTick
FlashRate == RoundsPerTick * MaxFlash
\* What a round makes good, the ticks and the flash's share of it taken off.
Gain == Rate - FlashRate - TenMs
\* The answers of a second, and what of them may still come.
Answers == MaxAsked * MaxAnswer
Owed == (MaxAsked - asked) * MaxAnswer
\* A second's conversions and answers.
Jump == Rate * (2 * MaxConvert + Answers)
\* What is always about: a round, a tick, the answers and a call for the flash.
Low == Rate * (Answers + MaxFlash + 1) + TenMs

\* The waits of a second are made good within it, and fit ms_counter.
WaitsFit ==
  /\ 2 * MaxConvert + 2 * Answers + MaxFlash + 2 < CounterRange
  /\ FlashRate + TenMs <= Rate
  /\ Jump <= Gain * Second
  /\ MaxStart <= 2 * MaxConvert + Answers + MaxFlash + 1

Coming ==
  ms_counter + left + (IF pc = "pri" THEN MaxConvert ELSE 0) + Owed
Behind ==
  Rate * Coming + TenMs * rounds + FlashRate * count_10ms + (IF pc = "run" THEN 0 ELSE TenMs)

Bounded == Behind <= Low \/ Behind + Gain * count_1s <= Low + Jump
KeepsUp ==
  pc # "spin" =>
    /\ wraps = 0
    /\ pc \notin Waits => left = 0
    /\ Bounded

LEMMA Products ==
  /\ \A a, b \in Nat : a * b \in Nat
  /\ \A a, b, c \in Nat : a * (b + c) = a * b + a * c
  /\ \A a, b, c \in Nat : b <= c => a * b <= a * c
<1>1. \A a, b \in Nat : a * b \in Nat BY ProductNat
<1>2. \A a, b, c \in Nat : a * (b + c) = a * b + a * c OBVIOUS
<1>3. ASSUME NEW a \in Nat, NEW b \in Nat, NEW c \in Nat, b <= c PROVE a * b <= a * c
  <2>1. PICK e \in Nat : c = b + e
    <3>1. c - b \in Nat /\ c = b + (c - b) BY <1>3
    <3> QED BY <3>1
  <2>2. a * c = a * b + a * e BY <2>1
  <2>3. a * e \in Nat /\ a * b \in Nat BY ProductNat
  <2> QED BY <2>2, <2>3
<1> QED BY <1>1, <1>2, <1>3

LEMMA AnswersNat == Answers \in Nat
BY Ranges, Products DEF Answers

LEMMA RestOfAnswers ==
  ASSUME NEW n \in 0 .. MaxAsked
  PROVE  /\ (MaxAsked - n) * MaxAnswer \in Nat /\ (MaxAsked - n) * MaxAnswer <= Answers
         /\ n = 0 => (MaxAsked - n) * MaxAnswer = Answers
<1>1. MaxAsked - n \in Nat /\ MaxAsked - n <= MaxAsked BY Ranges
<1>2. (MaxAsked - n) * MaxAnswer \in Nat BY <1>1, Ranges, Products
<1>3. MaxAnswer * (MaxAsked - n) <= MaxAnswer * MaxAsked BY <1>1, Ranges, Products
<1>4. \A a, b \in Nat : a * b = b * a BY SMT
<1>5. (MaxAsked - n) * MaxAnswer <= Answers BY <1>1, <1>3, <1>4, Ranges DEF Answers
<1>6. n = 0 => (MaxAsked - n) * MaxAnswer = Answers BY Ranges DEF Answers
<1> QED BY <1>2, <1>5, <1>6

LEMMA OwedNat ==
  ASSUME asked \in 0 .. MaxAsked
  PROVE  Owed \in Nat /\ Owed <= Answers /\ (asked = 0 => Owed = Answers)
BY RestOfAnswers DEF Owed

LEMMA OwedNatNext ==
  ASSUME asked' \in 0 .. MaxAsked
  PROVE  Owed' \in Nat /\ Owed' <= Answers /\ (asked' = 0 => Owed' = Answers)
BY RestOfAnswers DEF Owed

LEMMA OwedSame == asked' = asked => Owed' = Owed
BY DEF Owed

\* An answer begun is one answer less to come.
LEMMA OwedLess ==
  ASSUME asked \in 0 .. MaxAsked, asked < MaxAsked, asked' = asked + 1
  PROVE  Owed = Owed' + MaxAnswer
<1>1. PICK k \in Nat : MaxAsked - asked = k + 1 /\ MaxAsked - asked' = k
  <2>1. MaxAsked - asked' \in Nat /\ MaxAsked - asked = (MaxAsked - asked') + 1 BY Ranges
  <2> QED BY <2>1
<1>2. \A a, b \in Nat : a * b = b * a BY SMT
<1>3. MaxAnswer * (k + 1) = MaxAnswer * k + MaxAnswer * 1 BY Ranges, Products
<1>4. MaxAnswer * 1 = MaxAnswer BY Ranges
<1>5. (k + 1) * MaxAnswer = MaxAnswer * (k + 1) /\ k * MaxAnswer = MaxAnswer * k
  BY <1>2, Ranges
<1> QED BY <1>1, <1>3, <1>4, <1>5 DEF Owed

LEMMA RateNat ==
  /\ Rate \in Nat /\ FlashRate \in Nat /\ Jump \in Nat /\ Low \in Nat
  /\ TenMs <= Rate
  /\ WaitsFit => Gain \in Nat /\ Gain = Rate - FlashRate - TenMs
<1>1. Rate \in Nat /\ FlashRate \in Nat BY Ranges, Products DEF Rate, FlashRate
<1>2. 2 * MaxConvert + Answers \in Nat /\ Answers + MaxFlash + 1 \in Nat BY Ranges, AnswersNat
<1>3. Rate * (2 * MaxConvert + Answers) \in Nat /\ Rate * (Answers + MaxFlash + 1) \in Nat
  BY <1>1, <1>2, Products
<1>4. TenMs * 1 <= TenMs * RoundsPerTick
  <2>1. RoundsPerTick \in Nat /\ 1 <= RoundsPerTick /\ 1 \in Nat BY LoopAssumption
  <2> QED BY <2>1, Ranges, Products
<1>5. TenMs <= Rate BY <1>4, Ranges DEF Rate
<1>6. WaitsFit => Gain \in Nat BY <1>1, Ranges DEF WaitsFit, Gain
<1> QED BY <1>1, <1>3, <1>5, <1>6, Ranges DEF Jump, Low, Gain

LEMMA BehindNat ==
  ASSUME LoopInv
  PROVE  /\ Coming \in Nat /\ Rate * Coming \in Nat /\ TenMs * rounds \in Nat
         /\ FlashRate * count_10ms \in Nat /\ Behind \in Nat
<1>1. /\ ms_counter \in Nat /\ left \in Nat /\ rounds \in Nat /\ count_10ms \in Nat
      /\ asked \in 0 .. MaxAsked
  BY Ranges DEF LoopInv, TypeOK
<1>2. Coming \in Nat BY <1>1, Ranges, OwedNat DEF Coming
<1>3. Rate * Coming \in Nat /\ TenMs * rounds \in Nat /\ FlashRate * count_10ms \in Nat
  BY <1>1, <1>2, RateNat, Ranges, Products
<1> QED BY <1>2, <1>3, Ranges DEF Behind

LEMMA ComingNatNext == (LoopInv => Coming \in Nat)'
<1>1. LoopInv => Coming \in Nat BY BehindNat
<1> QED BY <1>1, PTL

LEMMA BehindNatNext == (LoopInv => Behind \in Nat)'
<1>1. LoopInv => Behind \in Nat BY BehindNat
<1> QED BY <1>1, PTL

\* A step that adds nothing to what is behind, nor to the count.
LEMMA NotMore ==
  ASSUME Bounded, count_1s' = count_1s, Behind' <= Behind, WaitsFit, LoopInv, LoopInv'
  PROVE  Bounded'
<1>1. Behind \in Nat /\ Behind' \in Nat BY BehindNat, BehindNatNext
<1>2. count_1s \in Nat BY Ranges DEF LoopInv, TypeOK
<1>3. Gain * count_1s \in Nat /\ Low \in Nat /\ Jump \in Nat BY <1>2, RateNat, Products
<1> QED BY <1>1, <1>3 DEF Bounded

LEMMA Sums ==
  /\ \A a, b, f, e, M \in Nat : a + 0 <= b + f => M + a + 0 + e <= M + b + f + e
  /\ \A a, b, c, e \in Nat :
       a = b + 1 => a + c + 0 + e = b + c + 0 + e + 1 /\ b + c + 0 + e \in Nat
OBVIOUS

LEMMA LowSum ==
  /\ Low = Rate * Answers + Rate * MaxFlash + Rate + TenMs
  /\ Jump = Rate * MaxConvert + Rate * MaxConvert + Rate * Answers
<1>1. Rate * (Answers + (MaxFlash + 1)) = Rate * Answers + Rate * (MaxFlash + 1)
  <2>1. MaxFlash + 1 \in Nat BY Ranges, AnswersNat
  <2> QED BY <2>1, Products, RateNat, Ranges, AnswersNat
<1>2. Rate * (MaxFlash + 1) = Rate * MaxFlash + Rate BY RateNat, Ranges, AnswersNat, Products
<1>3. Answers + MaxFlash + 1 = Answers + (MaxFlash + 1) BY Ranges, AnswersNat
<1>4. Rate * (MaxConvert + (MaxConvert + Answers))
        = Rate * MaxConvert + Rate * (MaxConvert + Answers)
  <2>1. MaxConvert + Answers \in Nat BY Ranges, AnswersNat
  <2> QED BY <2>1, Products, RateNat, Ranges, AnswersNat
<1>5. Rate * (MaxConvert + Answers) = Rate * MaxConvert + Rate * Answers
  BY Products, RateNat, Ranges, AnswersNat
<1>6. 2 * MaxConvert + Answers = MaxConvert + (MaxConvert + Answers) BY Ranges, AnswersNat
<1>7. /\ Rate * Answers \in Nat /\ Rate * MaxFlash \in Nat /\ Rate * MaxConvert \in Nat
  BY Products, RateNat, Ranges, AnswersNat
<1>8. Low = Rate * Answers + (Rate * MaxFlash + Rate) + TenMs
  BY <1>1, <1>2, <1>3 DEF Low
<1>9. Jump = Rate * MaxConvert + (Rate * MaxConvert + Rate * Answers)
  BY <1>4, <1>5, <1>6 DEF Jump
<1> QED BY <1>7, <1>8, <1>9, RateNat, Ranges, AnswersNat

\* TenMs counted ticks pay for the call of EE_Cache_Check they bring about.
LEMMA FlashShare == FlashRate * TenMs = Rate * MaxFlash
<1>1. \A a, b, c \in Nat : (b * c) * a = (a * b) * c BY SMTT(30)
<1> QED BY <1>1, Ranges DEF FlashRate, Rate

LEMMA TickRate == Rate * 1 = Rate /\ TenMs * 1 = TenMs /\ FlashRate * 1 = FlashRate /\ Rate * 0 = 0
BY RateNat, Ranges

\* A round that counts a tick: what is behind shrinks as the second grows.
LEMMA CountedTick ==
  ASSUME LoopInv, LoopInv', WaitsFit, KeepsUp, HeartbeatRun, ms_counter # 0
  PROVE  KeepsUp'
<1>1. /\ pc = "run" /\ pc' = "config" /\ ms_counter' = ms_counter - 1
      /\ count_10ms' = count_10ms + 1 /\ count_1s' = count_1s + 1
      /\ left' = left /\ rounds' = rounds /\ asked' = asked /\ wraps' = wraps
      /\ ms_counter \in Nat /\ ms_counter' \in Nat
      /\ count_10ms \in Nat /\ count_1s \in Nat /\ left \in Nat
      /\ asked \in 0 .. MaxAsked
  BY Ranges DEF HeartbeatRun, LoopInv, TypeOK
<1>2. wraps = 0 /\ left = 0 /\ Bounded BY <1>1 DEF KeepsUp, Waits
<1>3. Coming = Coming' + 1 /\ Coming' \in Nat
  <2> DEFINE e == Owed
  <2>1. e \in Nat BY <1>1, OwedNat DEF LoopInv, TypeOK
  <2>2. Coming = ms_counter + 0 + 0 + e /\ Coming' = ms_counter - 1 + 0 + 0 + e
    BY <1>1, <1>2, OwedSame DEF Coming
  <2>3. ms_counter \in Nat /\ ms_counter - 1 \in Nat BY <1>1
  <2> HIDE DEF e
  <2> QED BY <2>1, <2>2, <2>3
<1>4. Rate * Coming = Rate * Coming' + Rate BY <1>3, Products, TickRate, RateNat
<1>5. FlashRate * count_10ms' = FlashRate * count_10ms + FlashRate
  BY <1>1, Products, TickRate, RateNat
<1>6. /\ Rate * Coming' \in Nat /\ FlashRate * count_10ms \in Nat /\ TenMs * rounds \in Nat
  BY <1>1, <1>3, RateNat, Products, BehindNat
<1>7. Gain \in Nat /\ Gain = Rate - FlashRate - TenMs BY RateNat
<1>8. Behind' + Gain = Behind
  <2>1. Behind = Rate * Coming + TenMs * rounds + FlashRate * count_10ms
    BY <1>1, <1>4, <1>6, RateNat DEF Behind
  <2>2. Behind' = Rate * Coming' + TenMs * rounds + FlashRate * count_10ms' + TenMs
    BY <1>1 DEF Behind
  <2> QED BY <1>4, <1>5, <1>6, <1>7, <2>1, <2>2, RateNat, Ranges
<1>9. Gain * count_1s' = Gain * count_1s + Gain /\ Gain * count_1s \in Nat
  <2>1. Gain * (count_1s + 1) = Gain * count_1s + Gain * 1 BY <1>1, <1>7, Products
  <2>2. Gain * 1 = Gain BY <1>7
  <2> QED BY <1>1, <1>7, <2>1, <2>2, Products
<1>10. Behind \in Nat /\ Behind' \in Nat BY BehindNat, BehindNatNext
<1>11. Bounded' BY <1>2, <1>7, <1>8, <1>9, <1>10, RateNat DEF Bounded
<1> QED BY <1>1, <1>2, <1>11 DEF KeepsUp

\* A round that finds no tick: only what is always about can be behind.
LEMMA CaughtUp ==
  ASSUME LoopInv, LoopInv', WaitsFit, KeepsUp, HeartbeatRun, ms_counter = 0
  PROVE  KeepsUp'
<1>1. /\ pc = "run" /\ pc' = "config" /\ ms_counter' = 0
      /\ count_10ms' = count_10ms /\ left' = left /\ rounds' = rounds /\ asked' = asked
      /\ wraps' = wraps /\ asked \in 0 .. MaxAsked
      /\ rounds \in Nat /\ rounds <= RoundsPerTick /\ count_10ms \in Nat /\ count_10ms <= TenMs
  BY Ranges DEF HeartbeatRun, heartVars, LoopInv, TypeOK
<1>2. wraps = 0 /\ left = 0 BY <1>1 DEF KeepsUp, Waits
<1>3. Coming' \in Nat /\ Coming' <= Answers BY <1>1, <1>2, Ranges, OwedNatNext DEF Coming
<1>4. Rate * Coming' <= Rate * Answers BY <1>3, Products, RateNat, AnswersNat
<1>5. TenMs * rounds <= Rate BY <1>1, Products, Ranges DEF Rate
<1>6. FlashRate * count_10ms <= Rate * MaxFlash
  <2>1. FlashRate * count_10ms <= FlashRate * TenMs BY <1>1, Products, RateNat, Ranges
  <2> QED BY <2>1, FlashShare
<1>7. /\ Rate * Coming' \in Nat /\ Rate * Answers \in Nat /\ Rate * MaxFlash \in Nat
      /\ TenMs * rounds \in Nat /\ FlashRate * count_10ms \in Nat
  BY <1>1, <1>3, RateNat, Products, Ranges, AnswersNat
<1>8. Low = Rate * Answers + Rate * MaxFlash + Rate + TenMs BY LowSum
<1>9. Behind' = Rate * Coming' + TenMs * rounds + FlashRate * count_10ms + TenMs
  BY <1>1 DEF Behind
<1>10. Bounded' BY <1>4, <1>5, <1>6, <1>7, <1>8, <1>9, RateNat, Ranges DEF Bounded
<1> QED BY <1>1, <1>2, <1>10 DEF KeepsUp

\* A step of the loop that only moves on or begins a wait already provided for.
LEMMA NoMoreBehind ==
  ASSUME LoopInv, LoopInv', WaitsFit, KeepsUp, pc # "spin", wraps' = wraps,
         count_1s' = count_1s, pc' \notin Waits => left' = 0,
         Coming' <= Coming, count_10ms' = count_10ms,
         TenMs * rounds' + (IF pc' = "run" THEN 0 ELSE TenMs)
           <= TenMs * rounds + (IF pc = "run" THEN 0 ELSE TenMs)
  PROVE  KeepsUp'
<1>1. Coming \in Nat /\ Coming' \in Nat BY BehindNat, ComingNatNext
<1>2. Rate * Coming' <= Rate * Coming BY <1>1, RateNat, Products
<1>3. /\ Rate * Coming \in Nat /\ Rate * Coming' \in Nat BY <1>1, RateNat, Products
<1>4. /\ TenMs * rounds \in Nat /\ TenMs * rounds' \in Nat
      /\ FlashRate * count_10ms \in Nat
  <2>1. rounds' \in Nat BY Ranges DEF LoopInv, TypeOK
  <2> QED BY <2>1, Products, Ranges, BehindNat
<1>5. FlashRate * count_10ms' = FlashRate * count_10ms OBVIOUS
<1>6. Behind' <= Behind
  <2> DEFINE a == IF pc = "run" THEN 0 ELSE TenMs
             b == IF pc' = "run" THEN 0 ELSE TenMs
  <2>1. a \in Nat /\ b \in Nat BY Ranges
  <2>2. Behind = Rate * Coming + TenMs * rounds + FlashRate * count_10ms + a BY DEF Behind
  <2>3. Behind' = Rate * Coming' + TenMs * rounds' + FlashRate * count_10ms' + b BY DEF Behind
  <2>4. TenMs * rounds' + b <= TenMs * rounds + a OBVIOUS
  <2> HIDE DEF a, b
  <2> QED BY <1>2, <1>3, <1>4, <1>5, <2>1, <2>2, <2>3, <2>4
<1>7. Bounded' BY <1>6, NotMore DEF KeepsUp
<1> QED BY <1>7 DEF KeepsUp

LEMMA ConfigKeepsUp ==
  ASSUME LoopInv, LoopInv', WaitsFit, KeepsUp, Config
  PROVE  KeepsUp'
<1>1. /\ pc = "config" /\ UNCHANGED <<heartVars, rounds, unfed, base, wraps>>
      /\ asked \in 0 .. MaxAsked /\ left = 0 /\ ms_counter \in Nat
  BY Ranges DEF Config, LoopInv, TypeOK, KeepsUp, Waits
<1>2. CASE pc' = "spin" BY <1>2 DEF KeepsUp
<1>3. CASE pc' = "ten" /\ UNCHANGED <<left, asked>>
  <2>1. Coming' = Coming BY <1>1, <1>3, OwedSame DEF Coming, heartVars
  <2>2. Coming' <= Coming BY <2>1, BehindNat
  <2>3. TenMs * rounds' + TenMs <= TenMs * rounds + TenMs BY <1>1, BehindNat, Ranges
  <2> QED BY <1>1, <1>3, <2>2, <2>3, NoMoreBehind DEF heartVars, Waits
<1>4. CASE asked < MaxAsked /\ pc' = "answer" /\ left' = MaxAnswer /\ asked' = asked + 1
  <2>0. /\ Owed = Owed' + MaxAnswer
        /\ Coming = ms_counter + 0 + 0 + Owed /\ Coming' = ms_counter + MaxAnswer + 0 + Owed'
    BY <1>1, <1>4, OwedLess DEF Coming, heartVars
  <2>1. Coming' <= Coming
    <3>1. Owed' \in Nat BY OwedNatNext DEF LoopInv, TypeOK
    <3>2. \A a, b, c, d \in Nat : d = c + b => a + b + 0 + c <= a + 0 + 0 + d OBVIOUS
    <3>3. Owed \in Nat BY <1>1, OwedNat
    <3> QED BY <1>1, <2>0, <3>1, <3>2, <3>3, Ranges
  <2>2. TenMs * rounds' + TenMs <= TenMs * rounds + TenMs BY <1>1, BehindNat, Ranges
  <2> QED BY <1>1, <1>4, <2>1, <2>2, NoMoreBehind DEF heartVars, Waits
<1> QED BY <1>2, <1>3, <1>4 DEF Config

\* The end of a round, which counts towards the next tick.
LEMMA RoundPaid ==
  ASSUME LoopInv, NextRound
  PROVE  TenMs * rounds' <= TenMs * rounds + TenMs
<1>1. rounds \in Nat /\ rounds' \in Nat /\ rounds' <= rounds + 1 /\ rounds + 1 \in Nat
  BY Ranges DEF NextRound, LoopInv, TypeOK
<1>2. TenMs * rounds' <= TenMs * (rounds + 1) BY <1>1, Products, Ranges
<1>3. TenMs * (rounds + 1) = TenMs * rounds + TenMs * 1 BY <1>1, Products, Ranges
<1> QED BY <1>2, <1>3, TickRate

LEMMA WaitEndsKeepsUp ==
  ASSUME LoopInv, LoopInv', WaitsFit, KeepsUp, WaitEnds
  PROVE  KeepsUp'
<1>1. /\ UNCHANGED <<heartVars, asked, unfed, base, wraps>>
      /\ asked \in 0 .. MaxAsked /\ left \in Nat /\ ms_counter \in Nat /\ pc # "spin" /\ pc # "run"
  BY Ranges DEF WaitEnds, LoopInv, TypeOK
<1>2. /\ pc' # "spin" /\ (pc' \notin Waits => left' = 0) /\ pc' # "pri"
      /\ left' + 0 <= left + (IF pc = "pri" THEN MaxConvert ELSE 0)
  BY <1>1, Ranges DEF WaitEnds, Waits
<1>3. Coming' <= Coming
  <2> DEFINE e == Owed
             f == IF pc = "pri" THEN MaxConvert ELSE 0
  <2>1. e \in Nat /\ f \in Nat BY <1>1, Ranges, OwedNat
  <2>2. Coming = ms_counter + left + f + e BY DEF Coming
  <2>3. Coming' = ms_counter + left' + 0 + e BY <1>1, <1>2, OwedSame DEF Coming, heartVars
  <2>4. left' \in Nat BY DEF LoopInv, TypeOK
  <2>5. left' + 0 <= left + f BY <1>2
  <2>6. ms_counter \in Nat /\ left \in Nat BY <1>1
  <2> HIDE DEF e, f
  <2> QED BY <2>1, <2>2, <2>3, <2>4, <2>5, <2>6, Sums
<1>4. TenMs * rounds' + (IF pc' = "run" THEN 0 ELSE TenMs)
        <= TenMs * rounds + (IF pc = "run" THEN 0 ELSE TenMs)
  <2>1. TenMs * rounds \in Nat /\ TenMs \in Nat BY BehindNat, Ranges
  <2>2. CASE pc' = "run"
    <3>1. NextRound BY <2>2 DEF WaitEnds
    <3>2. TenMs * rounds' \in Nat
      <4>1. rounds' \in Nat BY Ranges DEF LoopInv, TypeOK
      <4> QED BY <4>1, Products, Ranges
    <3> QED BY <1>1, <2>1, <2>2, <3>1, <3>2, RoundPaid
  <2>3. CASE pc' # "run"
    <3>1. rounds' = rounds BY <2>3 DEF WaitEnds
    <3> QED BY <1>1, <2>1, <2>3, <3>1
  <2> QED BY <2>2, <2>3
<1> QED BY <1>1, <1>2, <1>3, <1>4, NoMoreBehind DEF heartVars

LEMMA TenCheckKeepsUp ==
  ASSUME LoopInv, LoopInv', WaitsFit, KeepsUp, TenCheck
  PROVE  KeepsUp'
<1>1. /\ pc = "ten" /\ left = 0 /\ ms_counter \in Nat /\ asked \in 0 .. MaxAsked
      /\ UNCHANGED <<ms_counter, count_1s, rounds, asked, unfed, base, wraps>>
      /\ count_10ms \in 0 .. TenMs
  BY Ranges DEF TenCheck, LoopInv, TypeOK, KeepsUp, Waits
<1>2. CASE count_10ms >= TenMs
  <2>1. count_10ms = TenMs /\ count_10ms' = 0 /\ pc' = "flash" /\ left' = MaxFlash
    BY <1>1, <1>2, Ranges DEF TenCheck
  <2> DEFINE e == Owed
  <2>2. e \in Nat BY <1>1, OwedNat DEF LoopInv, TypeOK
  <2>3. Coming = ms_counter + 0 + 0 + e /\ Coming' = ms_counter + MaxFlash + 0 + e
    BY <1>1, <2>1, OwedSame DEF Coming
  <2> HIDE DEF e
  <2>4. Coming \in Nat /\ Coming' \in Nat /\ Coming' = Coming + MaxFlash
    BY <1>1, <2>2, <2>3, Ranges
  <2>5. Rate * Coming' = Rate * Coming + Rate * MaxFlash BY <2>4, Products, RateNat, Ranges
  <2>6. /\ Rate * Coming \in Nat /\ Rate * MaxFlash \in Nat /\ TenMs * rounds \in Nat
        /\ FlashRate * 0 = 0
    BY <2>4, Products, RateNat, Ranges, BehindNat
  <2>7. Behind = Rate * Coming + TenMs * rounds + Rate * MaxFlash + TenMs
    BY <1>1, <2>1, FlashShare DEF Behind
  <2>8. Behind' = Rate * Coming' + TenMs * rounds + 0 + TenMs
    BY <1>1, <2>1, <2>6 DEF Behind
  <2>9. Behind' <= Behind BY <2>5, <2>6, <2>7, <2>8, Ranges
  <2>10. Bounded' BY <1>1, <2>9, NotMore DEF KeepsUp
  <2> QED BY <1>1, <2>1, <2>10 DEF KeepsUp, Waits
<1>3. CASE ~ (count_10ms >= TenMs)
  <2>1. pc' = "second" /\ UNCHANGED <<count_10ms, left>> BY <1>3 DEF TenCheck
  <2>2. Coming' = Coming BY <1>1, <2>1, OwedSame DEF Coming
  <2>3. Coming' <= Coming BY <2>2, BehindNat
  <2>4. TenMs * rounds' + TenMs <= TenMs * rounds + TenMs BY <1>1, BehindNat, Ranges
  <2> QED BY <1>1, <2>1, <2>3, <2>4, NoMoreBehind
<1> QED BY <1>2, <1>3

\* A second is over: the one before it was made good, and two conversions and
\* an answer may follow.
LEMMA SecondOver ==
  ASSUME LoopInv, LoopInv', WaitsFit, KeepsUp, SecondCheck, count_1s >= Second
  PROVE  KeepsUp'
<1>1. /\ pc = "second" /\ left = 0 /\ ms_counter \in Nat /\ asked \in 0 .. MaxAsked
      /\ UNCHANGED <<ms_counter, count_10ms, rounds>>
      /\ count_1s = Second /\ count_1s' = 0 /\ pc' = "pri" /\ left' = MaxConvert
      /\ asked' = 0 /\ wraps' = 0
  BY Ranges DEF SecondCheck, Feed, LoopInv, TypeOK, DividersTested, KeepsUp, Waits
<1>2. Bounded BY <1>1 DEF KeepsUp
<1>3. Behind \in Nat /\ Behind' \in Nat /\ Low \in Nat /\ Jump \in Nat
  BY BehindNat, BehindNatNext, RateNat
<1>4. Behind <= Low
  <2>1. Jump <= Gain * Second /\ Gain * Second \in Nat BY RateNat, Products, Ranges DEF WaitsFit
  <2>2. Behind <= Low \/ Behind + Gain * Second <= Low + Jump BY <1>1, <1>2 DEF Bounded
  <2> QED BY <1>3, <2>1, <2>2
<1>5. Behind' <= Behind + Jump
  <2> DEFINE e == Owed
  <2>1. e \in Nat BY <1>1, OwedNat DEF LoopInv, TypeOK
  <2>2. /\ Coming = ms_counter + 0 + 0 + e
        /\ Coming' = ms_counter + MaxConvert + MaxConvert + Answers
    BY <1>1, OwedNatNext, Ranges DEF Coming
  <2> HIDE DEF e
  <2>3. /\ Coming \in Nat /\ Coming' \in Nat
        /\ Coming' <= Coming + (2 * MaxConvert + Answers)
        /\ 2 * MaxConvert + Answers \in Nat /\ Coming + (2 * MaxConvert + Answers) \in Nat
    BY <1>1, <2>1, <2>2, Ranges, AnswersNat
  <2>4. Rate * Coming' <= Rate * (Coming + (2 * MaxConvert + Answers))
    BY <2>3, Products, RateNat
  <2>5. Rate * (Coming + (2 * MaxConvert + Answers)) = Rate * Coming + Jump
    BY <2>3, Products, RateNat DEF Jump
  <2>6. Rate * Coming' <= Rate * Coming + Jump BY <2>4, <2>5
  <2>7. /\ Rate * Coming \in Nat /\ Rate * Coming' \in Nat /\ TenMs * rounds \in Nat
        /\ FlashRate * count_10ms \in Nat
    BY <2>3, Products, RateNat, BehindNat
  <2>8. Behind = Rate * Coming + TenMs * rounds + FlashRate * count_10ms + TenMs
    BY <1>1 DEF Behind
  <2>9. Behind' = Rate * Coming' + TenMs * rounds + FlashRate * count_10ms + TenMs
    BY <1>1 DEF Behind
  <2> QED BY <1>3, <2>6, <2>7, <2>8, <2>9, Ranges
<1>6. Behind' + Gain * count_1s' <= Low + Jump
  <2>1. Gain * count_1s' = 0 BY <1>1, RateNat
  <2> QED BY <1>3, <1>4, <1>5, <2>1
<1>7. Bounded' BY <1>6 DEF Bounded
<1> QED BY <1>1, <1>7 DEF KeepsUp, Waits

LEMMA SecondCheckKeepsUp ==
  ASSUME LoopInv, LoopInv', WaitsFit, KeepsUp, SecondCheck
  PROVE  KeepsUp'
<1>1. CASE count_1s >= Second BY <1>1, SecondOver
<1>2. CASE ~ (count_1s >= Second)
  <2>1. /\ pc = "second" /\ left = 0 /\ pc' = "run" /\ NextRound
        /\ UNCHANGED <<count_1s, left, asked, unfed, base, wraps, ms_counter, count_10ms>>
    BY <1>2 DEF SecondCheck, KeepsUp, Waits
  <2>2. Coming' = Coming BY <2>1, OwedSame DEF Coming
  <2>3. Coming' <= Coming BY <2>2, BehindNat
  <2>4. TenMs * rounds' <= TenMs * rounds + TenMs BY <2>1, RoundPaid
  <2>5. TenMs * rounds' \in Nat
    <3>1. rounds' \in Nat BY Ranges DEF LoopInv, TypeOK
    <3> QED BY <3>1, Products, Ranges
  <2>6. TenMs * rounds' + 0 <= TenMs * rounds + TenMs BY <2>4, <2>5
  <2> QED BY <2>1, <2>3, <2>6, NoMoreBehind
<1> QED BY <1>1, <1>2

\* The counter never gets to its range: what is behind would not have left room.
LEMMA NoWrap ==
  ASSUME LoopInv, WaitsFit, KeepsUp, Tick, pc # "spin"
  PROVE  ms_counter + 1 < CounterRange
<1> DEFINE n == ms_counter + 1
           A == Answers + MaxFlash + 1
           J == 2 * MaxConvert + Answers
<1>1. /\ ms_counter \in Nat /\ left \in Nat /\ count_1s \in Nat /\ asked \in 0 .. MaxAsked
      /\ n \in Nat /\ A \in Nat /\ J \in Nat
  BY Ranges, AnswersNat DEF LoopInv, TypeOK
<1>2. Behind <= Low + Jump
  <2>1. Gain * count_1s \in Nat BY <1>1, RateNat, Products
  <2> QED BY <2>1, BehindNat, RateNat DEF KeepsUp, Bounded
<1>3. Rate * n <= Behind
  <2>1. /\ Rate * Coming \in Nat /\ TenMs * rounds \in Nat /\ FlashRate * count_10ms \in Nat
        /\ Coming \in Nat
    BY BehindNat
  <2>2. CASE pc \in Waits
    <3>1. left > 0 BY <2>2 DEF Tick, Timing, Waits
    <3>2. n <= Coming BY <1>1, <3>1, OwedNat, Ranges DEF Coming
    <3>3. Rate * n <= Rate * Coming /\ Rate * n \in Nat
      BY <1>1, <2>1, <3>2, Products, RateNat
    <3> QED BY <2>1, <3>3, Ranges DEF Behind
  <2>3. CASE pc \notin Waits
    <3>1. rounds = RoundsPerTick BY <2>3 DEF Tick, Timing
    <3>2. TenMs * rounds = Rate BY <3>1 DEF Rate
    <3>3. ms_counter <= Coming BY <1>1, OwedNat, Ranges DEF Coming
    <3>4. Rate * ms_counter <= Rate * Coming /\ Rate * ms_counter \in Nat
      BY <1>1, <2>1, <3>3, Products, RateNat
    <3>5. Rate * n = Rate * ms_counter + Rate BY <1>1, Products, RateNat, TickRate
    <3> QED BY <2>1, <3>2, <3>4, <3>5, RateNat, Ranges DEF Behind
  <2> QED BY <2>2, <2>3
<1>4. Low + Jump <= Rate * (A + J + 1)
  <2>1. Rate * (A + (J + 1)) = Rate * A + Rate * (J + 1) /\ Rate * (J + 1) = Rate * J + Rate
    BY <1>1, Products, RateNat, TickRate
  <2>2. A + (J + 1) = A + J + 1 BY <1>1
  <2>3. Low = Rate * A + TenMs /\ Jump = Rate * J BY DEF Low, Jump
  <2>4. Rate * A \in Nat /\ Rate * J \in Nat BY <1>1, Products, RateNat
  <2> HIDE DEF A, J
  <2> QED BY <2>1, <2>2, <2>3, <2>4, RateNat, Ranges
<1>5. A + J + 1 < CounterRange BY <1>1, Ranges, AnswersNat DEF WaitsFit
<1>6. Rate * n <= Rate * (A + J + 1)
  <2>1. Rate * n \in Nat /\ Rate * (A + J + 1) \in Nat
    BY <1>1, Products, RateNat
  <2>2. Behind \in Nat /\ Low + Jump \in Nat BY BehindNat, RateNat
  <2> HIDE DEF n, A, J
  <2> QED BY <1>2, <1>3, <1>4, <2>1, <2>2
<1>7. n <= A + J + 1
  <2> SUFFICES ASSUME A + J + 1 + 1 <= n PROVE FALSE BY <1>1
  <2>1. Rate * (A + J + 1 + 1) <= Rate * n BY <1>1, Products, RateNat
  <2>2. Rate * (A + J + 1 + 1) = Rate * (A + J + 1) + Rate
    BY <1>1, Products, RateNat, TickRate
  <2>3. Rate > 0 BY RateNat, Ranges
  <2>4. Rate * (A + J + 1) \in Nat /\ Rate * n \in Nat BY <1>1, Products, RateNat
  <2> HIDE DEF n, A, J
  <2> QED BY <1>6, <2>1, <2>2, <2>3, <2>4, RateNat
<1> QED BY <1>1, <1>5, <1>7, Ranges

\* A tick is paid for by the wait or the rounds it falls into.
LEMMA TickKeepsUp ==
  ASSUME LoopInv, LoopInv', WaitsFit, KeepsUp, Tick
  PROVE  KeepsUp'
<1> SUFFICES ASSUME pc # "spin" PROVE KeepsUp'
  BY DEF Tick, KeepsUp
<1>1. /\ UNCHANGED <<count_10ms, count_1s, pc, asked, base>> /\ ms_counter \in Nat
      /\ left \in Nat /\ asked \in 0 .. MaxAsked /\ wraps = 0
      /\ ms_counter' = ((ms_counter + 1) % CounterRange)
      /\ (pc \notin Waits => left = 0)
  BY Ranges DEF Tick, LoopInv, TypeOK, KeepsUp
<1>2. ms_counter + 1 < CounterRange BY NoWrap
<1>3. ms_counter' = ms_counter + 1 BY <1>1, <1>2, Ranges, ModSmall
<1>4. wraps' = 0 BY <1>1, <1>2, Ranges DEF Tick
<1> DEFINE e == Owed
           f == IF pc = "pri" THEN MaxConvert ELSE 0
<1>5. e \in Nat /\ f \in Nat BY <1>1, Ranges, OwedNat
<1>6. /\ Coming = ms_counter + left + f + e
      /\ Coming' = ms_counter + 1 + left' + f + e
  BY <1>1, <1>3, OwedSame DEF Coming
<1>7. Behind' <= Behind
  <2>1. CASE pc \in Waits
    <3>1. left' = left - 1 /\ left > 0 /\ rounds' = rounds BY <2>1 DEF Tick, Timing, Waits
    <3> HIDE DEF e, f
    <3>2. Coming' = Coming BY <1>1, <1>5, <1>6, <3>1
    <3>3. Behind' = Behind BY <1>1, <3>1, <3>2 DEF Behind
    <3> QED BY <3>3, BehindNat
  <2>2. CASE pc \notin Waits
    <3>1. left' = left /\ rounds = RoundsPerTick /\ rounds' = 0
      BY <2>2 DEF Tick, Timing
    <3> HIDE DEF e, f
    <3>2. Coming' = Coming + 1 /\ Coming \in Nat BY <1>1, <1>5, <1>6, <3>1
    <3>3. Rate * Coming' = Rate * Coming + Rate BY <3>2, Products, RateNat, TickRate
    <3>4. TenMs * rounds = Rate /\ TenMs * rounds' = 0 BY <3>1, Ranges DEF Rate
    <3>5. Rate * Coming \in Nat /\ FlashRate * count_10ms \in Nat BY BehindNat
    <3> DEFINE g == IF pc = "run" THEN 0 ELSE TenMs
    <3>6. g \in Nat BY Ranges
    <3>7. Behind = Rate * Coming + Rate + FlashRate * count_10ms + g BY <3>4 DEF Behind
    <3>8. Behind' = Rate * Coming' + 0 + FlashRate * count_10ms + g BY <1>1, <3>4 DEF Behind
    <3> HIDE DEF g
    <3> QED BY <3>3, <3>5, <3>6, <3>7, <3>8, RateNat
  <2> QED BY <2>1, <2>2
<1>8. Bounded' BY <1>1, <1>7, NotMore DEF KeepsUp
<1>9. pc' \notin Waits => left' = 0 BY <1>1 DEF Tick, Timing
<1> QED BY <1>4, <1>8, <1>9 DEF KeepsUp

\* What the main loop starts with after power-up and after a reset.
Started ==
  /\ ms_counter \in 0 .. MaxStart /\ wraps = 0 /\ left = 0 /\ rounds = 0
  /\ count_10ms = 0 /\ count_1s = 0 /\ pc = "run" /\ asked = 0

LEMMA StartKeepsUp == WaitsFit /\ LoopInv /\ Started => KeepsUp
<1> SUFFICES ASSUME WaitsFit, LoopInv, Started PROVE KeepsUp OBVIOUS
<1> USE DEF Started
<1> DEFINE A == Answers + MaxFlash + 1
           J == 2 * MaxConvert + Answers
<1>1. A \in Nat /\ J \in Nat /\ MaxStart \in Nat /\ Answers \in Nat BY Ranges, AnswersNat
<1>2. Coming = ms_counter + 0 + 0 + Answers /\ Coming \in Nat
  BY BehindNat, OwedNat DEF Coming, LoopInv, TypeOK
<1>3. Coming <= A + J BY <1>1, <1>2, Ranges DEF WaitsFit
<1>4. Rate * Coming <= Rate * (A + J) /\ Rate * (A + J) = Rate * A + Rate * J
  BY <1>1, <1>2, <1>3, Products, RateNat
<1>5. Low = Rate * A + TenMs /\ Jump = Rate * J BY DEF Low, Jump
<1>6. Behind = Rate * Coming
  <2>1. TenMs * rounds = 0 /\ FlashRate * count_10ms = 0 BY RateNat, Ranges
  <2> QED BY <2>1, BehindNat DEF Behind
<1>7. Rate * A \in Nat /\ Rate * J \in Nat /\ Rate * Coming \in Nat BY <1>1, <1>2, Products, RateNat
<1>8. Gain * count_1s = 0 BY RateNat
<1> HIDE DEF A, J
<1>9. Behind + Gain * count_1s <= Low + Jump BY <1>4, <1>5, <1>6, <1>7, <1>8, Ranges
<1> QED BY <1>9 DEF KeepsUp, Bounded

LEMMA StartKeepsUpNext == (WaitsFit /\ LoopInv /\ Started => KeepsUp)'
BY StartKeepsUp, PTL

LEMMA KeepsUpStep == WaitsFit /\ LoopInv /\ LoopInv' /\ KeepsUp /\ [Next]_vars => KeepsUp'
<1> SUFFICES ASSUME WaitsFit, LoopInv, LoopInv', KeepsUp, [Next]_vars PROVE KeepsUp'
  OBVIOUS
<1>1. CASE HeartbeatRun BY <1>1, CountedTick, CaughtUp
<1>2. CASE WatchdogReset
  <2>1. Started' BY <1>2 DEF WatchdogReset, Started
  <2>2. WaitsFit' BY DEF WaitsFit, FlashRate, Rate, Jump, Gain
  <2> QED BY <2>1, <2>2, StartKeepsUpNext
<1>3. CASE UNCHANGED vars
  BY <1>3 DEF vars, heartVars, KeepsUp, Bounded, Behind, Coming, Owed, Waits
<1> QED BY <1>1, <1>2, <1>3, ConfigKeepsUp, TenCheckKeepsUp, SecondCheckKeepsUp,
           WaitEndsKeepsUp, TickKeepsUp DEF Next, Loop

\* While the waits of a second are made good within it, ms_counter never wraps, for
\* every choice of thresholds, widths and waits (Heartbeat_Tick, Hearbeat_Run).
THEOREM NoTickLostHolds == ASSUME WaitsFit PROVE Spec => []NoTickLost
<1>1. Spec => []LoopInv BY InitLoop, LoopStep, PTL DEF Spec
<1>2. WaitsFit OBVIOUS
<1>3. LoopInv /\ Init => KeepsUp
  <2>1. Init => Started BY DEF Init, Started
  <2> QED BY <1>2, <2>1, StartKeepsUp
<1>4. LoopInv /\ LoopInv' /\ KeepsUp /\ [Next]_vars => KeepsUp' BY <1>2, KeepsUpStep
<1>5. KeepsUp => NoTickLost BY DEF KeepsUp, NoTickLost
<1> QED BY <1>1, <1>3, <1>4, <1>5, PTL DEF Spec

\* Then the watchdog never resets a working loop, if its period holds a second and
\* the range of the counter (main, WDT_PERIOD).
THEOREM FedInTimeHolds ==
  ASSUME WaitsFit, Second + CounterRange <= WdtPeriod
  PROVE  Spec => []FedInTime
BY FedUnlessTicksLost, NoTickLostHolds, PTL
-----------------------------------------------------------------------------
\* Run_Config of main.c: what Min and Max stand for.
LEMMA LeastIs ==
  ASSUME NEW S \in SUBSET Nat, NEW m \in S, \A x \in S : m <= x
  PROVE  Min(S) = m
<1>1. Min(S) \in S /\ \A x \in S : Min(S) <= x BY DEF Min
<1>2. Min(S) \in Nat /\ m \in Nat /\ Min(S) <= m /\ m <= Min(S) BY <1>1
<1> QED BY <1>1, <1>2

LEMMA LeastOf ==
  ASSUME NEW S \in SUBSET Nat, S # {}
  PROVE  Min(S) \in S /\ \A x \in S : Min(S) <= x
BY LeastNumber DEF Min

LEMMA GreatestIs ==
  ASSUME NEW S \in SUBSET Nat, NEW m \in S, \A x \in S : x <= m
  PROVE  Max(S) = m
<1>1. Max(S) \in S /\ \A x \in S : Max(S) >= x BY DEF Max
<1>2. Max(S) \in Nat /\ m \in Nat /\ Max(S) <= m /\ m <= Max(S) BY <1>1
<1> QED BY <1>1, <1>2

LEMMA GreatestOf ==
  ASSUME NEW n \in Nat, NEW S \in SUBSET (0 .. n), S # {}
  PROVE  Max(S) \in S /\ \A x \in S : x <= Max(S)
<1> DEFINE D == {n - x : x \in S}
<1>1. D \in SUBSET Nat /\ D # {}
  <2>1. \A x \in S : n - x \in Nat OBVIOUS
  <2> QED BY <2>1
<1>2. PICK d \in D : \A x \in D : d <= x BY <1>1, LeastNumber
<1>3. PICK m \in S : d = n - m BY <1>2
<1>4. \A x \in S : x <= m
  <2> SUFFICES ASSUME NEW x \in S PROVE x <= m OBVIOUS
  <2>1. n - x \in D OBVIOUS
  <2>2. n - m <= n - x BY <1>2, <1>3, <2>1
  <2>3. x \in Nat /\ m \in Nat OBVIOUS
  <2> QED BY <2>2, <2>3
<1>5. S \in SUBSET Nat OBVIOUS
<1>6. Max(S) = m BY <1>4, <1>5, GreatestIs
<1> QED BY <1>4, <1>6

\* The characters of the line.
Tok == {"cr", "nl", Blank, "pri", "sec", "ver", "restart", "volt", "calib", "number"}

\* CP_SkipChars and CP_SkipSpace, one behind the other, stop at the next word.
LEMMA ArgumentProps ==
  ASSUME NEW l \in Seq(Tok), NEW k \in 1 .. Len(l), l[k] # Blank
  PROVE  /\ Argument(l, k) \in k + 1 .. Len(l) + 1
         /\ Argument(l, k) <= Len(l) =>
              /\ Argument(l, k) \in Words(l) /\ l[Argument(l, k)] # Blank
              /\ Argument(l, k) > k + 1 /\ l[Argument(l, k) - 1] = Blank
              /\ l[k + 1] = Blank => \A i \in k + 1 .. Argument(l, k) - 1 : l[i] = Blank
         /\ \A w \in Words(l) : w > k => w >= Argument(l, k)
<1>1. Len(l) \in Nat /\ k \in Nat /\ k <= Len(l) /\ k >= 1 OBVIOUS
<1> DEFINE C == {i \in k .. Len(l) + 1 : i = Len(l) + 1 \/ l[i] = Blank}
           c == SkipChars(l, k)
<1>2. C \in SUBSET Nat /\ Len(l) + 1 \in C BY <1>1
<1>3. c \in C /\ \A x \in C : c <= x BY <1>2, LeastOf DEF SkipChars
<1> HIDE DEF c
<1>4. /\ c \in k + 1 .. Len(l) + 1 /\ (c = Len(l) + 1 \/ l[c] = Blank)
      /\ \A i \in k .. c - 1 : i \in 1 .. Len(l) /\ l[i] # Blank
  <2>1. c \in k .. Len(l) + 1 /\ (c = Len(l) + 1 \/ l[c] = Blank) BY <1>3
  <2>2. c # k BY <1>1, <2>1
  <2>3. ASSUME NEW i \in k .. c - 1 PROVE i \in 1 .. Len(l) /\ l[i] # Blank
    <3>1. i \in 1 .. Len(l) /\ i \in k .. Len(l) + 1 /\ ~ (c <= i) BY <1>1, <2>1
    <3>2. i \notin C BY <1>3, <3>1
    <3> QED BY <3>1, <3>2
  <2> QED BY <1>1, <2>1, <2>2, <2>3
<1> HIDE DEF C
<1> DEFINE S == {i \in c .. Len(l) + 1 : i = Len(l) + 1 \/ l[i] # Blank}
           a == SkipSpace(l, c)
<1>5. S \in SUBSET Nat /\ Len(l) + 1 \in S BY <1>1, <1>4
<1>6. a \in S /\ \A x \in S : a <= x BY <1>5, LeastOf DEF SkipSpace
<1> HIDE DEF a
<1>7. /\ a \in c .. Len(l) + 1 /\ (a = Len(l) + 1 \/ l[a] # Blank)
      /\ \A i \in c .. a - 1 : i \in 1 .. Len(l) /\ l[i] = Blank
  <2>1. a \in c .. Len(l) + 1 /\ (a = Len(l) + 1 \/ l[a] # Blank) BY <1>6
  <2>2. ASSUME NEW i \in c .. a - 1 PROVE i \in 1 .. Len(l) /\ l[i] = Blank
    <3>1. i \in 1 .. Len(l) /\ i \in c .. Len(l) + 1 /\ ~ (a <= i) BY <1>1, <1>4, <2>1
    <3>2. i \notin S BY <1>6, <3>1
    <3> QED BY <3>1, <3>2
  <2> QED BY <2>1, <2>2
<1> HIDE DEF S
<1>8. c \in Nat /\ a \in Nat /\ k < c /\ c <= a /\ a <= Len(l) + 1 BY <1>1, <1>4, <1>7
<1>9. ASSUME a <= Len(l)
      PROVE  /\ a \in Words(l) /\ l[a] # Blank /\ a > k + 1 /\ l[a - 1] = Blank
             /\ l[k + 1] = Blank => \A i \in k + 1 .. a - 1 : l[i] = Blank
  <2>1. l[a] # Blank BY <1>7, <1>8, <1>9, <1>1
  <2>2. l[c] = Blank BY <1>1, <1>4, <1>8, <1>9
  <2>3. c # a BY <2>1, <2>2
  <2>4. a - 1 \in c .. a - 1 /\ a > k + 1 BY <1>1, <1>8, <2>3
  <2>5. l[a - 1] = Blank BY <1>7, <2>4
  <2>6. a \in 2 .. Len(l) BY <1>1, <1>8, <1>9
  <2>7. a \in Words(l) BY <2>1, <2>5, <2>6 DEF Words
  <2>8. l[k + 1] = Blank => c = k + 1
    <3> SUFFICES ASSUME c # k + 1 PROVE l[k + 1] # Blank OBVIOUS
    <3>1. k + 1 \in k .. c - 1 BY <1>1, <1>8
    <3> QED BY <1>4, <3>1
  <2> QED BY <1>7, <2>1, <2>4, <2>5, <2>7, <2>8
<1>10. ASSUME NEW w \in Words(l), w > k PROVE w >= a
  <2>1. w \in 2 .. Len(l) /\ l[w] # Blank /\ l[w - 1] = Blank BY DEF Words
  <2> SUFFICES ASSUME w < a PROVE FALSE BY <1>8, <2>1
  <2>2. w < c
    <3> SUFFICES ASSUME w >= c PROVE FALSE BY <1>8, <2>1
    <3>1. w \in c .. a - 1 BY <1>8, <2>1
    <3> QED BY <1>7, <2>1, <3>1
  <2>3. w - 1 \in k .. c - 1 BY <1>1, <1>8, <1>10, <2>1, <2>2
  <2> QED BY <1>4, <2>1, <2>3
<1>11. Argument(l, k) = a BY DEF Argument, a, c
<1>12. a \in k + 1 .. Len(l) + 1 BY <1>1, <1>8
<1> QED BY <1>9, <1>10, <1>11, <1>12

\* The handlers answer what a line asks.
LEMMA RunAsks ==
  ASSUME NEW l \in Seq(Tok), Len(l) > 0, l[1] # "restart"
  PROVE  Run(l) = Asks(l)
<1>1. Len(l) \in Nat /\ 1 \in 1 .. Len(l) OBVIOUS
<1>2. CASE l[1] \notin {"ver", "volt", "calib"} BY <1>2 DEF Run, Asks
<1>3. CASE l[1] = "ver" BY <1>3 DEF Run, Asks
<1>4. CASE l[1] \in {"volt", "calib"}
  <2> DEFINE a == Argument(l, 1)
  <2>1. l[1] # Blank BY <1>4 DEF Blank
  <2>2. /\ a \in 1 + 1 .. Len(l) + 1
        /\ a <= Len(l) => a \in Words(l) /\ l[a] # Blank
        /\ \A w \in Words(l) : w > 1 => w >= a
    BY <1>1, <2>1, ArgumentProps
  <2> HIDE DEF a
  <2>3. Words(l) \in SUBSET Nat /\ \A w \in Words(l) : w > 1 /\ w <= Len(l) BY <1>1 DEF Words
  <2>4. \A w \in Words(l) : a <= w /\ a <= Len(l)
    <3> SUFFICES ASSUME NEW w \in Words(l) PROVE a <= w /\ a <= Len(l) OBVIOUS
    <3>1. w \in Nat /\ w > 1 /\ w <= Len(l) BY <2>3
    <3>2. w >= a BY <2>2, <3>1
    <3> QED BY <1>1, <2>2, <3>1, <3>2
  <2>5. CASE a > Len(l)
    <3>1. Words(l) = {} BY <1>1, <2>2, <2>4, <2>5
    <3>2. ~ Names(l, a) BY <1>1, <2>2, <2>5 DEF Names
    <3>3. Asks(l) = <<"none">> BY <1>4, <3>1 DEF Asks
    <3>4. Run(l) = <<"none">> BY <1>4, <3>2 DEF Run, Voltage, VoltCalib, a
    <3> QED BY <3>3, <3>4
  <2>6. CASE a <= Len(l)
    <3>1. a \in Words(l) /\ l[a] # Blank BY <2>2, <2>6
    <3>2. Min(Words(l)) = a BY <2>3, <2>4, <3>1, LeastIs
    <3>3. Words(l) # {} BY <3>1
    <3>4. CASE l[a] \notin Channel
      <4>1. Asks(l) = <<"none">> BY <1>4, <3>2, <3>3, <3>4 DEF Asks
      <4>2. ~ Names(l, a) BY <3>4 DEF Names
      <4>3. Run(l) = <<"none">> BY <1>4, <4>2 DEF Run, Voltage, VoltCalib, a
      <4> QED BY <4>1, <4>3
    <3>5. CASE l[a] \in Channel
      <4>1. Names(l, a) BY <2>6, <3>5 DEF Names
      <4>2. CASE l[1] = "volt"
        <5>1. Run(l) = <<"volt", l[a]>> BY <4>1, <4>2 DEF Run, Voltage, a
        <5>2. Asks(l) = <<"volt", l[a]>> BY <3>2, <3>3, <3>5, <4>2 DEF Asks
        <5> QED BY <5>1, <5>2
      <4>3. CASE l[1] = "calib"
        <5> DEFINE v == Argument(l, a)
                   rest == Words(l) \ {a}
        <5>1. a \in 1 .. Len(l) BY <1>1, <2>2, <2>6
        <5>2. /\ v \in a + 1 .. Len(l) + 1
              /\ v <= Len(l) => v \in Words(l)
              /\ \A w \in Words(l) : w > a => w >= v
          BY <3>1, <5>1, ArgumentProps
        <5>3. Run(l) = IF v > Len(l) THEN <<"calib", l[a]>>
                       ELSE <<"set", l[a], IF l[v] = "number" THEN "number" ELSE "zero">>
          BY <4>1, <4>3 DEF Run, VoltCalib, a
        <5>4. Asks(l) = IF rest = {} THEN <<"calib", l[a]>>
                        ELSE <<"set", l[a], IF l[Min(rest)] = "number" THEN "number" ELSE "zero">>
          BY <3>2, <3>3, <3>5, <4>3 DEF Asks
        <5> HIDE DEF v
        <5>5. \A w \in rest : w \in Nat /\ w >= v /\ w <= Len(l)
          <6> SUFFICES ASSUME NEW w \in rest PROVE w \in Nat /\ w >= v /\ w <= Len(l) OBVIOUS
          <6>1. w \in Words(l) /\ w # a /\ w \in Nat /\ a <= w /\ w <= Len(l) BY <2>3, <2>4
          <6>2. w > a BY <5>1, <6>1
          <6> QED BY <5>2, <6>1, <6>2
        <5>6. v \in Nat /\ v > a /\ v <= Len(l) + 1 BY <1>1, <5>1, <5>2
        <5>7. CASE v > Len(l)
          <6>1. rest = {}
            <7> SUFFICES ASSUME NEW w \in rest PROVE FALSE OBVIOUS
            <7>1. w \in Nat /\ w >= v /\ w <= Len(l) BY <5>5
            <7> QED BY <1>1, <5>6, <5>7, <7>1
          <6> QED BY <5>3, <5>4, <5>7, <6>1
        <5>8. CASE v <= Len(l)
          <6>1. v \in rest /\ rest \in SUBSET Nat /\ \A w \in rest : v <= w
            <7>1. v \in Words(l) /\ v # a BY <2>2, <5>1, <5>2, <5>6, <5>8
            <7> QED BY <2>3, <5>5, <5>6, <7>1
          <6> HIDE DEF rest
          <6>2. Min(rest) = v BY <6>1, LeastIs
          <6>3. rest # {} /\ ~ (v > Len(l)) BY <1>1, <5>6, <5>8, <6>1
          <6> QED BY <5>3, <5>4, <6>2, <6>3
        <5> QED BY <1>1, <5>6, <5>7, <5>8
      <4> QED BY <1>4, <4>2, <4>3
    <3> QED BY <3>4, <3>5
  <2> QED BY <1>1, <2>2, <2>5, <2>6
<1> QED BY <1>2, <1>3, <1>4
-----------------------------------------------------------------------------
Answer == {Asks(l) : l \in Seq(Tok)}

UnitType ==
  /\ wire \in Seq(Tok) /\ heard \in Seq(Tok) /\ msg \in Seq(Tok)
  /\ out \in Seq(Answer)
  /\ spinning \in BOOLEAN /\ faults \in Nat

\* MsgBuf holds what came behind place e, an end or the reset, at most Size
\* tokens of it.
Since(e) ==
  /\ e = 0 \/ heard[e] \in End
  /\ \A i \in e + 1 .. Len(heard) : heard[i] \notin End
  /\ Len(msg) = IF Len(heard) - e <= Size THEN Len(heard) - e ELSE Size
  /\ \A k \in 1 .. Len(msg) : msg[k] = heard[e + k]

MsgInv == spinning \/ \E e \in 0 .. Len(heard) : Since(e)

\* What AnswersMatch takes.
AnswerInv == UnitType /\ MsgInv /\ AnswersMatch

LEMMA HeardMore ==
  ASSUME NEW s \in Seq(Tok), NEW c \in Tok, NEW a \in Nat \ {0}, NEW b \in Int, b <= Len(s)
  PROVE  SubSeq(Append(s, c), a, b) = SubSeq(s, a, b)
<1> DEFINE t == Append(s, c)
<1>1. t \in Seq(Tok) /\ Len(t) = Len(s) + 1 /\ \A i \in 1 .. Len(s) : t[i] = s[i]
  OBVIOUS
<1> HIDE DEF t
<1>2. \A i \in a .. b : i \in 1 .. Len(s) /\ s[i] \in Tok /\ t[i] = s[i]
  <2> SUFFICES ASSUME NEW i \in a .. b PROVE i \in 1 .. Len(s) /\ s[i] \in Tok /\ t[i] = s[i]
    OBVIOUS
  <2>1. i \in 1 .. Len(s) OBVIOUS
  <2> QED BY <1>1, <2>1
<1>3. /\ SubSeq(s, a, b) \in Seq(Tok) /\ Len(SubSeq(s, a, b)) = IF a <= b THEN b - a + 1 ELSE 0
      /\ \A i \in 1 .. b - a + 1 : SubSeq(s, a, b)[i] = s[a + i - 1]
  <2>1. a \in Int /\ \A i \in a .. b : s[i] \in Tok BY <1>2
  <2> QED BY <2>1, SubSeqProperties
<1>4. /\ SubSeq(t, a, b) \in Seq(Tok) /\ Len(SubSeq(t, a, b)) = IF a <= b THEN b - a + 1 ELSE 0
      /\ \A i \in 1 .. b - a + 1 : SubSeq(t, a, b)[i] = t[a + i - 1]
  <2>1. a \in Int /\ \A i \in a .. b : t[i] \in Tok BY <1>2
  <2> QED BY <2>1, SubSeqProperties
<1> DEFINE u == SubSeq(s, a, b)
           v == SubSeq(t, a, b)
<1>5. Len(u) = Len(v) /\ u \in Seq(Tok) /\ v \in Seq(Tok) BY <1>3, <1>4
<1>6. ASSUME NEW i \in 1 .. Len(u) PROVE v[i] = u[i]
  <2>1. i \in 1 .. b - a + 1 /\ a + i - 1 \in a .. b
    <3>1. CASE a <= b BY <1>3, <3>1
    <3>2. CASE a > b BY <1>3, <3>2
    <3> QED BY <3>1, <3>2
  <2> QED BY <1>2, <1>3, <1>4, <2>1
<1> HIDE DEF u, v
<1>7. u = v BY <1>5, <1>6, SeqEqual
<1> QED BY <1>7 DEF u, v, t

\* What another character does to the lines heard.
LEMMA EndsNext ==
  ASSUME heard \in Seq(Tok), NEW c \in Tok, heard' = Append(heard, c)
  PROVE  /\ Ends \in SUBSET (1 .. Len(heard)) /\ Closes \in SUBSET Ends
         /\ Ends' = IF c \in End THEN Ends \cup {Len(heard) + 1} ELSE Ends
         /\ Closes' = IF c \in End /\ Len(heard) > 0 /\ heard[Len(heard)] \notin End
                        THEN Closes \cup {Len(heard) + 1} ELSE Closes
         /\ \A i \in Closes : Text(i)' = Text(i)
<1> DEFINE n == Len(heard) + 1
<1>1. /\ DOMAIN heard = 1 .. Len(heard) /\ DOMAIN heard' = 1 .. n /\ heard'[n] = c
      /\ \A i \in 1 .. Len(heard) : heard'[i] = heard[i]
      /\ Len(heard) \in Nat
  OBVIOUS
<1>2. Ends = {i \in 1 .. Len(heard) : heard[i] \in End} BY <1>1 DEF Ends
<1>3. Ends' = {i \in 1 .. n : heard'[i] \in End} BY <1>1 DEF Ends
<1>4. Ends' = IF c \in End THEN Ends \cup {n} ELSE Ends
  <2>1. \A i \in 1 .. Len(heard) : i \in Ends' <=> i \in Ends BY <1>1, <1>2, <1>3
  <2>2. n \in Ends' <=> c \in End BY <1>1, <1>3
  <2>3. n \notin Ends BY <1>1, <1>2
  <2>4. \A i \in Ends' : i \in 1 .. Len(heard) \/ i = n BY <1>1, <1>3
  <2>5. \A i \in Ends : i \in 1 .. Len(heard) BY <1>2
  <2>6. CASE c \in End
    <3>1. \A i : i \in Ends' <=> i \in Ends \/ i = n BY <2>1, <2>2, <2>4, <2>5, <2>6
    <3> QED BY <2>6, <3>1
  <2>7. CASE c \notin End
    <3>1. \A i : i \in Ends' <=> i \in Ends BY <2>1, <2>2, <2>4, <2>5, <2>7
    <3> QED BY <2>7, <3>1
  <2> QED BY <2>6, <2>7
<1>5. Closes = {i \in Ends : i > 1 /\ i - 1 \notin Ends} BY DEF Closes
<1>6. Closes' = {i \in Ends' : i > 1 /\ i - 1 \notin Ends'} BY DEF Closes
<1>7. \A i \in 1 .. Len(heard) : i - 1 # n /\ i # n BY <1>1
<1>8. \A i \in Ends : i \in Closes' <=> i \in Closes
  BY <1>2, <1>4, <1>5, <1>6, <1>7
<1>9. n \in Closes' <=> c \in End /\ Len(heard) > 0 /\ heard[Len(heard)] \notin End
  <2>1. n \in Ends' <=> c \in End BY <1>1, <1>3
  <2>2. n - 1 = Len(heard) /\ (n > 1 <=> Len(heard) > 0) BY <1>1
  <2>3. Len(heard) \in Ends' <=> Len(heard) > 0 /\ heard[Len(heard)] \in End
    <3>1. CASE Len(heard) = 0 BY <1>3, <3>1
    <3>2. CASE Len(heard) > 0
      <4>1. Len(heard) \in 1 .. Len(heard) /\ Len(heard) \in 1 .. n BY <1>1, <3>2
      <4> QED BY <1>1, <1>3, <3>2, <4>1
    <3> QED BY <1>1, <3>1, <3>2
  <2> QED BY <1>6, <2>1, <2>2, <2>3
<1>10. \A i \in Closes' : i \in Ends \/ i = n BY <1>4, <1>6
<1>11. \A i \in Closes : i \in Ends BY <1>5
<1>12. n \notin Ends BY <1>1, <1>2
<1>13. Closes' = IF c \in End /\ Len(heard) > 0 /\ heard[Len(heard)] \notin End
                   THEN Closes \cup {n} ELSE Closes
  <2>1. CASE c \in End /\ Len(heard) > 0 /\ heard[Len(heard)] \notin End
    <3>1. \A i : i \in Closes' <=> i \in Closes \/ i = n
      BY <1>8, <1>9, <1>10, <1>11, <1>12, <2>1
    <3> QED BY <2>1, <3>1
  <2>2. CASE ~ (c \in End /\ Len(heard) > 0 /\ heard[Len(heard)] \notin End)
    <3>1. \A i : i \in Closes' <=> i \in Closes
      BY <1>8, <1>9, <1>10, <1>11, <1>12, <2>2
    <3> QED BY <2>2, <3>1
  <2> QED BY <2>1, <2>2
<1>14. ASSUME NEW i \in Closes PROVE Text(i)' = Text(i)
  <2>1. i \in 1 .. Len(heard) BY <1>2, <1>11
  <2>2. {j \in Ends' : j < i} = {j \in Ends : j < i} BY <1>1, <1>4, <2>1
  <2> DEFINE F == {0} \cup {j \in Ends : j < i}
             from == Max(F) + 1
             to == Min({i - 1, from + Size - 1})
  <2>3. Max(F) \in Nat
    <3>1. F \in SUBSET (0 .. Len(heard)) /\ F # {} BY <1>1, <1>2
    <3>2. Max(F) \in F BY <1>1, <3>1, GreatestOf
    <3> QED BY <3>1, <3>2
  <2> HIDE DEF F
  <2>4. to \in Int /\ to <= Len(heard)
    <3> DEFINE M == {i - 1, from + Size - 1}
    <3>1. M \in SUBSET Nat /\ M # {} BY <2>1, <2>3, CommandAssumption
    <3>2. i - 1 \in M OBVIOUS
    <3> HIDE DEF M
    <3>3. Min(M) \in M /\ Min(M) <= i - 1 BY <3>1, <3>2, LeastOf
    <3>4. Min(M) \in Nat BY <3>1, <3>3
    <3>5. to = Min(M) BY DEF M
    <3> QED BY <1>1, <2>1, <3>3, <3>4, <3>5
  <2>5. from \in Nat \ {0} BY <2>3
  <2>6. Text(i) = SubSeq(heard, from, to) BY DEF Text, F
  <2>7. Text(i)' = SubSeq(Append(heard, c), from, to) BY <2>2 DEF Text, F
  <2> HIDE DEF from, to
  <2> QED BY <2>4, <2>5, <2>6, <2>7, HeardMore
<1> QED BY <1>1, <1>2, <1>4, <1>5, <1>13, <1>14

\* A character without an answer.
LEMMA NoAnswer ==
  ASSUME heard \in Seq(Tok), NEW c \in Tok, heard' = Append(heard, c), AnswersMatch,
         c \notin End \/ Len(heard) = 0 \/ heard[Len(heard)] \in End, out' = out
  PROVE  AnswersMatch'
<1>1. /\ Closes' = Closes /\ \A i \in Closes : Text(i)' = Text(i)
  BY EndsNext
<1>2. \A i \in Closes : Asks(Text(i))' = Asks(Text(i)) BY <1>1 DEF Asks, Words
<1> QED BY <1>1, <1>2 DEF AnswersMatch

\* And one with the answer to the line it ends.
LEMMA OneAnswer ==
  ASSUME heard \in Seq(Tok), NEW c \in Tok, heard' = Append(heard, c), AnswersMatch,
         c \in End, Len(heard) > 0, heard[Len(heard)] \notin End,
         NEW n \in Nat, n = Len(heard) + 1,
         out \in Seq(Answer), NEW l \in Seq(Tok), Text(n)' = l, out' = Append(out, Asks(l))
  PROVE  AnswersMatch'
<1> DEFINE r == Asks(l)
<1>1. /\ Ends \in SUBSET (1 .. Len(heard)) /\ Closes \in SUBSET Ends
      /\ Closes' = Closes \cup {n} /\ \A i \in Closes : Text(i)' = Text(i)
  BY EndsNext
<1>2. Len(heard) \in Nat OBVIOUS
<1>3. IsFiniteSet(Closes)
  <2>1. IsFiniteSet(1 .. Len(heard)) BY <1>2, FS_Interval
  <2>2. Closes \in SUBSET (1 .. Len(heard)) BY <1>1
  <2> QED BY <2>1, <2>2, FS_Subset
<1>4. n \notin Closes BY <1>1, <1>2
<1>5. Cardinality(Closes) \in Nat /\ Cardinality(Closes') = Cardinality(Closes) + 1
  BY <1>1, <1>3, <1>4, FS_CardinalityType, FS_AddElement
<1>6. r \in Answer BY DEF Answer
<1> HIDE DEF r
<1>7. out' = Append(out, r) BY DEF r
<1>8. /\ Len(out') = Len(out) + 1 /\ out'[Len(out) + 1] = r
      /\ \A k \in 1 .. Len(out) : out'[k] = out[k]
  BY <1>6, <1>7
<1>9. Len(out) = Cardinality(Closes) BY DEF AnswersMatch
<1>10. ASSUME NEW i \in Closes
       PROVE  out'[Cardinality({j \in Closes' : j <= i})] = Asks(Text(i)')
  <2> DEFINE K == {j \in Closes : j <= i}
  <2>1. i \in 1 .. Len(heard) BY <1>1
  <2>2. {j \in Closes' : j <= i} = K BY <1>1, <1>2, <2>1
  <2>3. K \in SUBSET Closes /\ i \in K BY <2>1
  <2> HIDE DEF K
  <2>4. IsFiniteSet(K) /\ Cardinality(K) <= Cardinality(Closes) BY <1>3, <2>3, FS_Subset
  <2>5. Cardinality(K) \in Nat /\ Cardinality(K) # 0
    BY <2>3, <2>4, FS_CardinalityType, FS_EmptySet
  <2>6. Cardinality(K) \in 1 .. Len(out) BY <1>5, <1>9, <2>4, <2>5
  <2>7. out[Cardinality(K)] = Asks(Text(i)) BY DEF AnswersMatch, K
  <2> QED BY <1>1, <1>8, <2>2, <2>6, <2>7
<1>11. out'[Cardinality({j \in Closes' : j <= n})] = Asks(Text(n)')
  <2>1. {j \in Closes' : j <= n} = Closes'
    <3>1. \A j \in Closes : j \in 1 .. Len(heard) BY <1>1
    <3>2. \A j \in Closes' : j <= n BY <1>1, <1>2, <3>1
    <3> QED BY <3>2
  <2> QED BY <1>5, <1>8, <1>9, <2>1 DEF r
<1>12. \A i \in Closes' : out'[Cardinality({j \in Closes' : j <= i})] = Asks(Text(i)')
  BY <1>1, <1>10, <1>11
<1>13. Len(out') = Cardinality(Closes') BY <1>5, <1>8, <1>9
<1> QED BY <1>12, <1>13 DEF AnswersMatch

\* The line an end closes is what MsgBuf holds.
LEMMA LineHeard ==
  ASSUME heard \in Seq(Tok), msg \in Seq(Tok), NEW c \in Tok, c \in End, heard' = Append(heard, c),
         NEW e \in 0 .. Len(heard), Since(e)
  PROVE  \A n \in Nat : n = Len(heard) + 1 => Text(n)' = msg
<1>0. SUFFICES ASSUME NEW n \in Nat, n = Len(heard) + 1 PROVE Text(n)' = msg OBVIOUS
<1>1. /\ Len(heard) \in Nat /\ Len(msg) \in Nat /\ DOMAIN heard = 1 .. Len(heard) /\ e \in Nat
      /\ Size \in Nat \ {0}
  BY CommandAssumption
<1>2. Ends' = Ends \cup {n} /\ Ends = {i \in 1 .. Len(heard) : heard[i] \in End}
  BY <1>0, <1>1, EndsNext DEF Ends
<1>3. {j \in Ends' : j < n} = Ends BY <1>0, <1>1, <1>2
<1>13. /\ e = 0 \/ heard[e] \in End
       /\ \A i \in e + 1 .. Len(heard) : heard[i] \notin End
  BY DEF Since
<1>14. e <= Len(heard) /\ Len(msg) = IF Len(heard) - e <= Size THEN Len(heard) - e ELSE Size
  BY DEF Since
<1>4. Max({0} \cup Ends) = e
  <2> DEFINE F == {0} \cup Ends
  <2>1. F \in SUBSET Nat BY <1>1, <1>2
  <2>2. e \in F BY <1>1, <1>2, <1>13
  <2>3. ASSUME NEW x \in F PROVE x <= e
    <3>1. CASE x = 0 BY <1>1, <3>1
    <3>2. CASE x \in Ends
      <4>1. x \in 1 .. Len(heard) /\ heard[x] \in End BY <1>2, <3>2
      <4>2. x \notin e + 1 .. Len(heard) BY <1>13, <4>1
      <4> QED BY <1>1, <4>1, <4>2
    <3> QED BY <3>1, <3>2
  <2> HIDE DEF F
  <2>4. Max(F) = e BY <2>1, <2>2, <2>3, GreatestIs
  <2> QED BY <2>4 DEF F
<1> DEFINE b == e + Len(msg)
<1>5. Min({n - 1, (e + 1) + Size - 1}) = b
  <2> DEFINE M == {n - 1, (e + 1) + Size - 1}
  <2>1. n - 1 = Len(heard) /\ (e + 1) + Size - 1 = e + Size BY <1>0, <1>1
  <2>2. M = {Len(heard), e + Size} BY <2>1
  <2>3. CASE Len(heard) - e <= Size
    <3>1. b = Len(heard) /\ Len(heard) <= e + Size BY <1>1, <1>14, <2>3
    <3>2. M \in SUBSET Nat /\ b \in M /\ \A x \in M : b <= x BY <1>1, <2>2, <3>1
    <3> QED BY <3>2, LeastIs
  <2>4. CASE Len(heard) - e > Size
    <3>3. ~ (Len(heard) - e <= Size) BY <1>1, <2>4
    <3>4. Len(msg) = Size BY <1>14, <3>3
    <3>1. b = e + Size /\ e + Size <= Len(heard) BY <1>1, <2>4, <3>4
    <3>5. e + Size \in Nat BY <1>1
    <3> HIDE DEF b, M
    <3>2. M \in SUBSET Nat /\ b \in M /\ \A x \in M : b <= x BY <1>1, <2>2, <3>1, <3>5
    <3>6. Min(M) = b BY <3>2, LeastIs
    <3> QED BY <3>6 DEF M
  <2> QED BY <1>1, <2>3, <2>4
<1>6. b \in Nat /\ b <= Len(heard) /\ b - (e + 1) + 1 = Len(msg)
  <2>1. Len(msg) <= Len(heard) - e
    <3>1. CASE Len(heard) - e <= Size BY <1>1, <1>14, <3>1
    <3>2. CASE ~ (Len(heard) - e <= Size)
      <4>1. Len(msg) = Size BY <1>14, <3>2
      <4> QED BY <1>1, <3>2, <4>1
    <3> QED BY <3>1, <3>2
  <2> QED BY <1>1, <2>1
<1>7. Text(n)' = SubSeq(Append(heard, c), e + 1, b) BY <1>3, <1>4, <1>5 DEF Text
<1> HIDE DEF b
<1>8. SubSeq(Append(heard, c), e + 1, b) = SubSeq(heard, e + 1, b)
  <2>1. e + 1 \in Nat \ {0} /\ b \in Int BY <1>1, <1>6
  <2> QED BY <1>6, <2>1, HeardMore
<1> DEFINE u == SubSeq(heard, e + 1, b)
<1>9. /\ u \in Seq(Tok) /\ Len(u) = IF e + 1 <= b THEN b - (e + 1) + 1 ELSE 0
      /\ \A i \in 1 .. b - (e + 1) + 1 : u[i] = heard[(e + 1) + i - 1]
  <2>1. e + 1 \in Int /\ b \in Int /\ \A i \in e + 1 .. b : heard[i] \in Tok BY <1>1, <1>6
  <2> QED BY <2>1, SubSeqProperties
<1> HIDE DEF u
<1>10. Len(u) = Len(msg) BY <1>1, <1>6, <1>9
<1>11. \A i \in 1 .. Len(u) : u[i] = msg[i]
  <2> SUFFICES ASSUME NEW i \in 1 .. Len(u) PROVE u[i] = msg[i] OBVIOUS
  <2>1. i \in 1 .. Len(msg) /\ (e + 1) + i - 1 = e + i BY <1>1, <1>10
  <2>2. msg[i] = heard[e + i] BY <2>1 DEF Since
  <2> QED BY <1>6, <1>9, <2>1, <2>2
<1>12. u = msg BY <1>9, <1>10, <1>11, SeqEqual
<1> QED BY <1>7, <1>8, <1>12 DEF u

LEMMA RunConfigAnswer == ASSUME AnswerInv, RunConfig PROVE AnswerInv'
<1>1. /\ wire \in Seq(Tok) /\ heard \in Seq(Tok) /\ msg \in Seq(Tok) /\ out \in Seq(Answer)
      /\ faults \in Nat /\ AnswersMatch /\ MsgInv
  BY DEF AnswerInv, UnitType
<1>2. /\ wire # <<>> /\ ~ spinning /\ wire' = Tail(wire) /\ heard' = Append(heard, Head(wire))
      /\ faults' = faults
  BY DEF RunConfig, Take
<1> DEFINE c == Head(wire)
           n == Len(heard) + 1
<1>3. c \in Tok /\ Tail(wire) \in Seq(Tok) BY <1>1, <1>2, HeadTailProperties
<1>15. PICK e \in 0 .. Len(heard) : Since(e) BY <1>1, <1>2 DEF MsgInv
<1>4.   /\ e = 0 \/ heard[e] \in End
        /\ \A i \in e + 1 .. Len(heard) : heard[i] \notin End
        /\ Len(msg) = IF Len(heard) - e <= Size THEN Len(heard) - e ELSE Size
        /\ \A k \in 1 .. Len(msg) : msg[k] = heard[e + k]
  BY <1>15 DEF Since
<1>5. \/ c \notin End /\ Keep(c) /\ UNCHANGED <<resp, spinning, out>>
      \/ c \in End /\ msg = <<>> /\ UNCHANGED <<msg, resp, spinning, out>>
      \/ /\ c \in End /\ msg # <<>> /\ Head(msg) # "restart"
         /\ out' = Append(out, Run(msg)) /\ msg' = <<>> /\ UNCHANGED spinning
      \/ /\ c \in End /\ msg # <<>> /\ Head(msg) = "restart"
         /\ spinning' = TRUE /\ out' = Append(out, <<"restarting">>) /\ msg' = msg
  BY DEF RunConfig, Lookup
<1> HIDE DEF c
<1>6. /\ Len(heard) \in Nat /\ Len(msg) \in Nat /\ e \in Nat /\ e <= Len(heard)
      /\ Size \in Nat \ {0}
  BY <1>1, CommandAssumption
<1>7. /\ heard' \in Seq(Tok) /\ Len(heard') = n /\ heard'[n] = c /\ n \in Nat
      /\ \A i \in 1 .. Len(heard) : heard'[i] = heard[i]
  <2>1. heard' = Append(heard, c) BY <1>2 DEF c
  <2> QED BY <1>1, <1>3, <2>1
<1>8. heard' = Append(heard, c) /\ wire' \in Seq(Tok) BY <1>2, <1>3 DEF c
<1>9. CASE c \notin End /\ Keep(c) /\ UNCHANGED <<resp, spinning, out>>
  <2>1. AnswersMatch' BY <1>1, <1>3, <1>8, <1>9, NoAnswer
  <2>2. /\ msg' \in Seq(Tok) /\ Len(msg') = IF Len(msg) < Size THEN Len(msg) + 1 ELSE Len(msg)
        /\ \A k \in 1 .. Len(msg) : msg'[k] = msg[k]
        /\ Len(msg) < Size => msg'[Len(msg) + 1] = c
    BY <1>1, <1>3, <1>9 DEF Keep
  <2>3. Len(msg') = IF Len(heard') - e <= Size THEN Len(heard') - e ELSE Size
    <3>1. CASE Len(heard) - e < Size
      <4>1. Len(msg') = Len(heard) - e + 1 /\ Len(heard') - e = Len(heard) - e + 1
        BY <1>4, <1>6, <1>7, <2>2, <3>1
      <4> QED BY <1>6, <3>1, <4>1
    <3>2. CASE Len(heard) - e >= Size
      <4>1. Len(msg') = Size /\ Len(heard') - e > Size BY <1>4, <1>6, <1>7, <2>2, <3>2
      <4> QED BY <1>6, <4>1
    <3> QED BY <1>6, <3>1, <3>2
  <2>4. ASSUME NEW k \in 1 .. Len(msg') PROVE msg'[k] = heard'[e + k]
    <3>1. CASE k <= Len(msg)
      <4>1. k \in 1 .. Len(msg) /\ e + k \in 1 .. Len(heard) BY <1>4, <1>6, <3>1
      <4> QED BY <1>4, <1>7, <2>2, <4>1
    <3>2. CASE k > Len(msg)
      <4>1. k = Len(msg) + 1 /\ Len(msg) < Size BY <1>6, <2>2, <3>2
      <4>2. Len(msg) = Len(heard) - e BY <1>4, <1>6, <4>1
      <4>3. e + k = n BY <1>6, <4>1, <4>2
      <4> QED BY <1>7, <2>2, <4>1, <4>3
    <3> QED BY <1>6, <3>1, <3>2
  <2>5. \A i \in e + 1 .. Len(heard') : heard'[i] \notin End
    <3> SUFFICES ASSUME NEW i \in e + 1 .. n PROVE heard'[i] \notin End BY <1>7
    <3>1. CASE i = n BY <1>7, <1>9, <3>1
    <3>2. CASE i # n
      <4>1. i \in e + 1 .. Len(heard) /\ i \in 1 .. Len(heard) BY <1>6, <3>2
      <4> QED BY <1>4, <1>7, <4>1
    <3> QED BY <3>1, <3>2
  <2>6. e = 0 \/ heard'[e] \in End
    <3>1. e > 0 => e \in 1 .. Len(heard) BY <1>6
    <3> QED BY <1>4, <1>6, <1>7, <3>1
  <2>7. e \in 0 .. Len(heard') BY <1>6, <1>7
  <2>8. MsgInv' BY <2>3, <2>4, <2>5, <2>6, <2>7 DEF MsgInv, Since
  <2>9. UnitType' BY <1>1, <1>2, <1>7, <1>8, <1>9, <2>2 DEF AnswerInv, UnitType
  <2> QED BY <2>1, <2>8, <2>9 DEF AnswerInv
<1>10. ASSUME c \in End, msg' = <<>> PROVE MsgInv'
  <2>1. n \in 0 .. Len(heard') /\ heard'[n] \in End BY <1>6, <1>7, <1>10
  <2>2. n + 1 .. Len(heard') = {} BY <1>6, <1>7
  <2>3. Len(msg') = IF Len(heard') - n <= Size THEN Len(heard') - n ELSE Size
    BY <1>6, <1>7, <1>10
  <2>4. 1 .. Len(msg') = {} BY <1>10
  <2> HIDE DEF n
  <2> QED BY <2>1, <2>2, <2>3, <2>4 DEF MsgInv, Since
<1>11. CASE c \in End /\ msg = <<>> /\ UNCHANGED <<msg, resp, spinning, out>>
  <2>1. Len(heard) = e BY <1>4, <1>6, <1>11
  <2>2. Len(heard) = 0 \/ heard[Len(heard)] \in End BY <1>4, <2>1
  <2>3. AnswersMatch' BY <1>1, <1>3, <1>8, <1>11, <2>2, NoAnswer
  <2>4. UnitType' BY <1>1, <1>2, <1>7, <1>8, <1>11 DEF AnswerInv, UnitType
  <2> QED BY <1>10, <1>11, <2>3, <2>4 DEF AnswerInv
<1>12. ASSUME c \in End, msg # <<>>, out' = Append(out, Asks(msg)) PROVE AnswersMatch' /\ out' \in Seq(Answer)
  <2>1. Len(msg) # 0 BY <1>1, <1>12
  <2>2. Len(heard) > e BY <1>4, <1>6, <2>1
  <2>3. Len(heard) > 0 /\ heard[Len(heard)] \notin End
    <3>1. Len(heard) \in e + 1 .. Len(heard) BY <1>6, <2>2
    <3> QED BY <1>4, <1>6, <2>2, <3>1
  <2>4. PICK m \in Nat : m = Len(heard) + 1 BY <1>6
  <2>7. Text(m)' = msg BY <1>1, <1>3, <1>8, <1>12, <1>15, <2>4, LineHeard
  <2>5. Asks(msg) \in Answer BY <1>1 DEF Answer
  <2>6. out' \in Seq(Answer) BY <1>1, <1>12, <2>5
  <2> QED BY <1>1, <1>3, <1>8, <1>12, <2>3, <2>4, <2>6, <2>7, OneAnswer
<1>13. CASE /\ c \in End /\ msg # <<>> /\ Head(msg) # "restart"
            /\ out' = Append(out, Run(msg)) /\ msg' = <<>> /\ UNCHANGED spinning
  <2>1. Len(msg) > 0 /\ msg[1] # "restart" BY <1>1, <1>13
  <2>2. Run(msg) = Asks(msg) BY <1>1, <2>1, RunAsks
  <2>3. AnswersMatch' /\ out' \in Seq(Answer) BY <1>12, <1>13, <2>2
  <2>4. msg' \in Seq(Tok) BY <1>13
  <2>5. UnitType' BY <1>1, <1>2, <1>7, <1>8, <1>13, <2>3, <2>4 DEF AnswerInv, UnitType
  <2> QED BY <1>10, <1>13, <2>3, <2>5 DEF AnswerInv
<1>14. CASE /\ c \in End /\ msg # <<>> /\ Head(msg) = "restart"
            /\ spinning' = TRUE /\ out' = Append(out, <<"restarting">>) /\ msg' = msg
  <2>1. msg[1] = "restart" BY <1>1, <1>14
  <2>2. Asks(msg) = <<"restarting">> BY <2>1 DEF Asks
  <2>3. AnswersMatch' /\ out' \in Seq(Answer) BY <1>12, <1>14, <2>2
  <2>4. UnitType' BY <1>1, <1>2, <1>7, <1>8, <1>14, <2>3 DEF AnswerInv, UnitType
  <2>5. MsgInv' BY <1>14 DEF MsgInv
  <2> QED BY <2>3, <2>4, <2>5 DEF AnswerInv
<1> QED BY <1>5, <1>9, <1>11, <1>13, <1>14

LEMMA AnswerInit == UnitInit => AnswerInv
<1> SUFFICES ASSUME UnitInit PROVE AnswerInv OBVIOUS
<1>1. /\ wire = <<>> /\ heard = <<>> /\ msg = <<>> /\ out = <<>> /\ spinning = FALSE /\ faults = 0
  BY DEF UnitInit
<1>2. UnitType
  <2>1. <<>> \in Seq(Tok) /\ <<>> \in Seq(Answer) BY EmptySeq
  <2>2. wire \in Seq(Tok) /\ heard \in Seq(Tok) /\ msg \in Seq(Tok) /\ out \in Seq(Answer)
    BY <1>1, <2>1, Zenon
  <2>3. spinning \in BOOLEAN /\ faults \in Nat BY <1>1
  <2> QED BY <2>2, <2>3 DEF UnitType
<1>3. MsgInv
  <2>1. Since(0) BY <1>1, CommandAssumption DEF Since
  <2> QED BY <1>1, <2>1 DEF MsgInv
<1>4. AnswersMatch
  <2>1. Closes = {} BY <1>1 DEF Closes, Ends
  <2> QED BY <1>1, <2>1, FS_EmptySet DEF AnswersMatch
<1> QED BY <1>2, <1>3, <1>4 DEF AnswerInv

\* What is written to the unit consists of its tokens.
LEMMA LineTokens ==
  /\ Ver \in Seq(Tok) /\ Restart \in Seq(Tok) /\ Single \in Seq(Tok)
  /\ Beginnings \subseteq Seq(Tok)
<1>1. Ver \in Seq(Tok) /\ Restart \in Seq(Tok) /\ Single \in Seq(Tok)
  BY DEF Ver, Restart, Single, Tok, Blank
<1>2. Typed \subseteq Seq(Tok) BY DEF Typed, Tok, Blank
<1>3. ASSUME NEW l \in Typed, NEW n \in 1 .. Len(l) PROVE SubSeq(l, 1, n) \in Seq(Tok)
  <2>1. l \in Seq(Tok) BY <1>2
  <2>2. 1 \in Int /\ n \in Int /\ \A i \in 1 .. n : l[i] \in Tok BY <2>1
  <2> QED BY <2>2, SubSeqProperties
<1>4. Beginnings \subseteq Seq(Tok) BY <1>3 DEF Beginnings
<1> QED BY <1>1, <1>4

LEMMA AnswerNext == ASSUME AnswerInv, [UnitNext]_unitVars PROVE AnswerInv'
<1>1. /\ wire \in Seq(Tok) /\ heard \in Seq(Tok) /\ msg \in Seq(Tok) /\ out \in Seq(Answer)
      /\ spinning \in BOOLEAN /\ faults \in Nat /\ AnswersMatch /\ MsgInv
  BY DEF AnswerInv, UnitType
<1>2. ASSUME UNCHANGED unit, wire' \in Seq(Tok), faults' \in Nat PROVE AnswerInv'
  <2>1. UNCHANGED <<msg, heard, out, spinning>> BY <1>2 DEF unit
  <2>2. UnitType' BY <1>1, <1>2, <2>1 DEF UnitType
  <2>3. MsgInv' BY <1>1, <2>1 DEF MsgInv, Since
  <2>4. AnswersMatch'
    <3>1. Ends' = Ends /\ Closes' = Closes BY <2>1 DEF Ends, Closes
    <3>2. \A i \in Closes : Text(i)' = Text(i) BY <2>1, <3>1 DEF Text
    <3> QED BY <1>1, <2>1, <3>1, <3>2 DEF AnswersMatch
  <2> QED BY <2>2, <2>3, <2>4 DEF AnswerInv
<1>3. ASSUME NEW l \in Seq(Tok), Write(l), UNCHANGED <<unit, faults>> PROVE AnswerInv'
  <2>1. wire' \in Seq(Tok) BY <1>1, <1>3, ConcatProperties DEF Write
  <2> QED BY <1>1, <1>2, <1>3, <2>1
<1>4. ASSUME wire # <<>>, wire' = Tail(wire), UNCHANGED unit, faults' \in Nat PROVE AnswerInv'
  <2>1. wire' \in Seq(Tok) BY <1>1, <1>4, HeadTailProperties
  <2> QED BY <1>2, <1>4, <2>1
<1>5. CASE Open BY <1>1, <1>2, <1>5 DEF Open
<1>6. CASE Startup BY <1>3, <1>6, LineTokens DEF Startup
<1>7. CASE Poll BY <1>3, <1>7, LineTokens DEF Poll
<1>8. CASE Close BY <1>1, <1>2, <1>8 DEF Close
<1>9. CASE Type BY <1>3, <1>9, LineTokens DEF Type
<1>10. CASE Lose BY <1>1, <1>4, <1>10 DEF Lose
<1>11. CASE Forgotten BY <1>1, <1>4, <1>11 DEF Forgotten
<1>12. CASE RunConfig BY <1>12, RunConfigAnswer
<1>13. CASE Reset
  <2>1. /\ msg' = <<>> /\ heard' = <<>> /\ out' = <<>> /\ spinning' = FALSE
        /\ wire' = wire /\ faults' = faults
    BY <1>13 DEF Reset
  <2>2. UnitType'
    <3>1. <<>> \in Seq(Tok) /\ <<>> \in Seq(Answer) BY EmptySeq
    <3>2. wire' \in Seq(Tok) /\ heard' \in Seq(Tok) /\ msg' \in Seq(Tok) /\ out' \in Seq(Answer)
      BY <1>1, <2>1, <3>1, Zenon
    <3>3. spinning' \in BOOLEAN /\ faults' \in Nat BY <1>1, <2>1
    <3> QED BY <3>2, <3>3 DEF UnitType
  <2>3. MsgInv'
    <3>1. Since(0)' BY <2>1, CommandAssumption DEF Since
    <3> QED BY <2>1, <3>1 DEF MsgInv
  <2>4. AnswersMatch'
    <3>1. Closes' = {} BY <2>1 DEF Closes, Ends
    <3> QED BY <2>1, <3>1, FS_EmptySet DEF AnswersMatch
  <2> QED BY <2>2, <2>3, <2>4 DEF AnswerInv
<1>14. CASE UNCHANGED unitVars BY <1>1, <1>2, <1>14 DEF unitVars
<1> QED BY <1>5, <1>6, <1>7, <1>8, <1>9, <1>10, <1>11, <1>12, <1>13, <1>14 DEF UnitNext

\* Every line gets the answer to what it asks, whatever the size of MsgBuf, the
\* number of lines and what is lost of them (Run_Config and CP_Lookup).
THEOREM AnswersMatchHolds == UnitSpec => []AnswersMatch
<1>1. AnswerInv => AnswersMatch BY DEF AnswerInv
<1>2. AnswerInv /\ [UnitNext]_unitVars => AnswerInv' BY AnswerNext
<1> QED BY <1>1, <1>2, AnswerInit, PTL DEF UnitSpec
-----------------------------------------------------------------------------
\* A blank at place p of s is followed by a channel's name or a number, and such
\* a name by an end, a blank and a number, or the command of a new daemon.
Follows(s, p) ==
  /\ p + 1 \in DOMAIN s /\ s[p + 1] \in Channel \cup {"number"}
  /\ s[p + 1] \in Channel /\ p + 2 \in DOMAIN s =>
       \/ s[p + 2] \in End
       \/ s[p + 2] = Blank /\ p + 3 \in DOMAIN s /\ s[p + 3] = "number"
       \/ s[p + 2] = "ver" /\ p + 3 \in DOMAIN s /\ s[p + 3] = "cr"
Plain(s) == \A p \in DOMAIN s : s[p] = Blank => Follows(s, p)

\* What the unit hears from its last reset on; from the next, while it spins.
Ahead == IF spinning THEN wire ELSE heard \o wire

Zero == {<<"set", ch, "zero">> : ch \in Channel}

\* A stream no line of which was left behind a blank, and what came of it.
Sound ==
  /\ Plain(Ahead) /\ (open \/ Ahead = <<>> \/ Last(Ahead) \in End)
  /\ \A i \in DOMAIN out : out[i] \notin Zero

\* Once a daemon has sent its first command, no line is open but its own.
ZeroInv ==
  /\ daemon \in {"restart", "poll"} => ~ open
  /\ ~ halfway /\ faults = 0 => Sound

LEMMA PlainParts ==
  ASSUME NEW u \in Seq(Tok), NEW w \in Seq(Tok), Plain(u \o w)
  PROVE  Plain(w)
<1> DEFINE s == u \o w
           L == Len(u)
<1>1. /\ s \in Seq(Tok) /\ Len(s) = L + Len(w) /\ L \in Nat /\ Len(w) \in Nat
      /\ \A i \in 1 .. L + Len(w) : s[i] = IF i <= L THEN u[i] ELSE w[i - L]
  BY ConcatProperties
<1>2. Plain(s) OBVIOUS
<1> HIDE DEF s, L
<1>3. DOMAIN s = 1 .. L + Len(w) /\ DOMAIN w = 1 .. Len(w) BY <1>1
<1>4. \A i \in Nat : i > 0 => (L + i \in DOMAIN s <=> i \in DOMAIN w) BY <1>1, <1>3
<1>5. \A i \in DOMAIN w : s[L + i] = w[i]
  <2> SUFFICES ASSUME NEW i \in 1 .. Len(w) PROVE s[L + i] = w[i] BY <1>3
  <2>1. L + i \in 1 .. L + Len(w) /\ ~ (L + i <= L) /\ (L + i) - L = i BY <1>1
  <2> QED BY <1>1, <2>1
<1> SUFFICES ASSUME NEW p \in DOMAIN w, w[p] = Blank PROVE Follows(w, p) BY DEF Plain
<1>6. p \in Nat /\ p > 0 /\ (L + p) + 1 = L + (p + 1) /\ (L + p) + 2 = L + (p + 2)
      /\ (L + p) + 3 = L + (p + 3)
  BY <1>1, <1>3
<1>7. L + p \in DOMAIN s /\ s[L + p] = Blank BY <1>4, <1>5, <1>6
<1>8. Follows(s, L + p) BY <1>2, <1>7 DEF Plain
<1>9. \A x \in {p + 1, p + 2, p + 3} :
        /\ L + x \in DOMAIN s <=> x \in DOMAIN w
        /\ x \in DOMAIN w => s[L + x] = w[x]
  BY <1>4, <1>5, <1>6
<1> QED BY <1>6, <1>8, <1>9 DEF Follows

LEMMA PlainJoin ==
  ASSUME NEW u \in Seq(Tok), NEW w \in Seq(Tok), Plain(u), Plain(w),
         u = <<>> \/ Last(u) \in End \/ (Len(w) > 1 /\ w[1] = "ver" /\ w[2] = "cr")
  PROVE  Plain(u \o w)
<1> DEFINE s == u \o w
           L == Len(u)
<1>0. Len(u) = L /\ DOMAIN u = 1 .. L OBVIOUS
<1>1. /\ s \in Seq(Tok) /\ Len(s) = L + Len(w) /\ L \in Nat /\ Len(w) \in Nat
      /\ \A i \in 1 .. L + Len(w) : s[i] = IF i <= L THEN u[i] ELSE w[i - L]
  BY ConcatProperties
<1> HIDE DEF s, L
<1>3. DOMAIN s = 1 .. L + Len(w) /\ DOMAIN w = 1 .. Len(w) BY <1>1
<1>4. \A i \in Nat : i > 0 => (L + i \in DOMAIN s <=> i \in DOMAIN w) BY <1>1, <1>3
<1>5. \A i \in DOMAIN w : s[L + i] = w[i]
  <2> SUFFICES ASSUME NEW i \in 1 .. Len(w) PROVE s[L + i] = w[i] BY <1>3
  <2>1. L + i \in 1 .. L + Len(w) /\ ~ (L + i <= L) /\ (L + i) - L = i BY <1>1
  <2> QED BY <1>1, <2>1
<1>2. \A i \in DOMAIN u : i \in DOMAIN s /\ s[i] = u[i]
  <2> SUFFICES ASSUME NEW i \in 1 .. L PROVE i \in DOMAIN s /\ s[i] = u[i] BY <1>0
  <2>1. i \in 1 .. L + Len(w) /\ i <= L BY <1>1
  <2> QED BY <1>1, <1>3, <2>1
<1>6. ASSUME NEW p \in DOMAIN u, u[p] = Blank PROVE Follows(s, p)
  <2>1. Follows(u, p) BY <1>6 DEF Plain
  <2>2. p + 1 \in DOMAIN u /\ u[p + 1] \in Channel \cup {"number"} BY <2>1 DEF Follows
  <2>3. p \in Nat /\ L \in Nat /\ p + 1 <= L BY <1>0, <1>1, <2>2
  <2>4. CASE p + 2 \in DOMAIN u
    <3>1. \/ u[p + 2] \in End
          \/ u[p + 2] = Blank /\ p + 3 \in DOMAIN u /\ u[p + 3] = "number"
          \/ u[p + 2] = "ver" /\ p + 3 \in DOMAIN u /\ u[p + 3] = "cr"
          \/ u[p + 1] \notin Channel
      BY <2>1, <2>4 DEF Follows
    <3> QED BY <1>2, <2>2, <2>4, <3>1 DEF Follows
  <2>5. CASE p + 2 \notin DOMAIN u
    <3>1. p + 1 = L BY <1>0, <2>3, <2>5
    <3>2. CASE u[p + 1] \notin Channel BY <1>2, <2>2, <3>2 DEF Follows
    <3>3. CASE u[p + 1] \in Channel
      <4>1. u # <<>> /\ Last(u) \notin End BY <1>0, <2>2, <3>1, <3>3 DEF Last, Channel, End
      <4>2. Len(w) > 1 /\ w[1] = "ver" /\ w[2] = "cr" BY <4>1
      <4>3. 1 \in DOMAIN w /\ 2 \in DOMAIN w BY <1>1, <1>3, <4>2
      <4>4. p + 2 = L + 1 /\ p + 3 = L + 2 BY <2>3, <3>1
      <4>5. L + 2 \in DOMAIN s /\ s[L + 1] = "ver" /\ s[L + 2] = "cr" BY <1>4, <1>5, <4>2, <4>3
      <4> QED BY <1>2, <2>2, <4>4, <4>5 DEF Follows
    <3> QED BY <3>2, <3>3
  <2> QED BY <2>4, <2>5
<1>7. ASSUME NEW p \in DOMAIN w, w[p] = Blank PROVE Follows(s, L + p)
  <2>6. p \in Nat /\ p > 0 /\ (L + p) + 1 = L + (p + 1) /\ (L + p) + 2 = L + (p + 2)
        /\ (L + p) + 3 = L + (p + 3)
    BY <1>1, <1>3
  <2>8. Follows(w, p) BY <1>7 DEF Plain
  <2>9. \A x \in {p + 1, p + 2, p + 3} :
          /\ L + x \in DOMAIN s <=> x \in DOMAIN w
          /\ x \in DOMAIN w => s[L + x] = w[x]
    BY <1>4, <1>5, <2>6
  <2> QED BY <2>6, <2>8, <2>9 DEF Follows
<1>8. ASSUME NEW p \in DOMAIN s, s[p] = Blank PROVE Follows(s, p)
  <2>1. p \in 1 .. L + Len(w) BY <1>3
  <2>2. CASE p <= L
    <3>1. p \in DOMAIN u /\ u[p] = Blank BY <1>0, <1>1, <1>2, <1>8, <2>1, <2>2
    <3> QED BY <1>6, <3>1
  <2>3. CASE p > L
    <3>1. p - L \in DOMAIN w /\ L + (p - L) = p BY <1>1, <1>3, <2>1, <2>3
    <3>2. w[p - L] = Blank BY <1>5, <1>8, <3>1
    <3> QED BY <1>7, <3>1, <3>2
  <2> QED BY <1>1, <2>1, <2>2, <2>3
<1>9. Plain(s) BY <1>8 DEF Plain
<1> QED BY <1>9 DEF s

\* Where no line is left behind a blank, none sets a calibration to zero.
LEMMA NoZero ==
  ASSUME AnswerInv, ~ spinning, Plain(heard \o wire), msg # <<>>
  PROVE  Run(msg) \notin Zero
<1>1. /\ wire \in Seq(Tok) /\ heard \in Seq(Tok) /\ msg \in Seq(Tok) /\ MsgInv
  BY DEF AnswerInv, UnitType
<1>2. PICK e \in 0 .. Len(heard) : Since(e) BY <1>1 DEF MsgInv
<1>3. /\ Len(heard) \in Nat /\ Len(msg) \in Nat /\ Len(msg) > 0 /\ e \in Nat
      /\ 1 \in 1 .. Len(msg) /\ Size \in Nat \ {0}
  BY <1>1, CommandAssumption
<1> DEFINE s == heard \o wire
<1>4. \A i \in 1 .. Len(heard) : i \in DOMAIN s /\ s[i] = heard[i]
  <2>1. /\ s \in Seq(Tok) /\ Len(s) = Len(heard) + Len(wire) /\ Len(wire) \in Nat
        /\ \A i \in 1 .. Len(s) : s[i] = IF i <= Len(heard) THEN heard[i] ELSE wire[i - Len(heard)]
    BY <1>1, ConcatProperties
  <2> HIDE DEF s
  <2> SUFFICES ASSUME NEW i \in 1 .. Len(heard) PROVE i \in DOMAIN s /\ s[i] = heard[i] OBVIOUS
  <2>2. i \in 1 .. Len(s) /\ i <= Len(heard) BY <1>3, <2>1
  <2> QED BY <2>1, <2>2
<1>5. Plain(s) OBVIOUS
<1> HIDE DEF s
<1>6. ASSUME NEW k \in 1 .. Len(msg)
      PROVE  e + k \in DOMAIN s /\ s[e + k] = msg[k] /\ msg[k] \notin End
  <2>1. Len(msg) <= Len(heard) - e
    <3>1. Len(msg) = IF Len(heard) - e <= Size THEN Len(heard) - e ELSE Size BY <1>2 DEF Since
    <3>2. CASE Len(heard) - e <= Size BY <1>3, <3>1, <3>2
    <3>3. CASE ~ (Len(heard) - e <= Size)
      <4>1. Len(msg) = Size BY <3>1, <3>3
      <4> QED BY <1>3, <3>3, <4>1
    <3> QED BY <3>2, <3>3
  <2>2. e + k \in e + 1 .. Len(heard) /\ e + k \in 1 .. Len(heard) BY <1>3, <2>1
  <2>3. msg[k] = heard[e + k] /\ heard[e + k] \notin End BY <1>2, <2>2 DEF Since
  <2> QED BY <1>4, <2>2, <2>3
<1> SUFFICES ASSUME Run(msg) \in Zero PROVE FALSE OBVIOUS
<1>7. PICK ch \in Channel : Run(msg) = <<"set", ch, "zero">> BY DEF Zero
<1> DEFINE a == Argument(msg, 1)
           v == Argument(msg, a)
<1>8. msg[1] = "calib"
  <2>1. Run(msg)[1] = "set" BY <1>7
  <2>2. CASE msg[1] = "ver" BY <2>1, <2>2 DEF Run
  <2>3. CASE msg[1] = "volt" BY <2>1, <2>3 DEF Run, Voltage
  <2>4. CASE msg[1] \notin {"ver", "volt", "calib"} BY <2>1, <2>4 DEF Run
  <2> QED BY <2>2, <2>3, <2>4
<1>9. Run(msg) = VoltCalib(msg, a) BY <1>8 DEF Run
<1> HIDE DEF a
<1>10. Names(msg, a)
  <2> SUFFICES ASSUME ~ Names(msg, a) PROVE FALSE OBVIOUS
  <2>1. Run(msg) = <<"none">> BY <1>9 DEF VoltCalib
  <2>2. Run(msg)[1] = "set" BY <1>7
  <2> QED BY <2>1, <2>2
<1>11. a <= Len(msg) /\ msg[a] \in Channel BY <1>10 DEF Names
<1>12. /\ a \in 1 + 1 .. Len(msg) + 1 /\ msg[a] # Blank /\ msg[a - 1] = Blank
  <2>1. msg[1] # Blank BY <1>8 DEF Blank
  <2> QED BY <1>1, <1>3, <1>11, <2>1, ArgumentProps DEF a
<1>13. a \in 1 .. Len(msg) /\ a - 1 \in 1 .. Len(msg) BY <1>3, <1>11, <1>12
<1>14. Run(msg) = IF v > Len(msg) THEN <<"calib", msg[a]>>
                  ELSE <<"set", msg[a], IF msg[v] = "number" THEN "number" ELSE "zero">>
  BY <1>9, <1>10 DEF VoltCalib
<1>15. /\ v \in a + 1 .. Len(msg) + 1
       /\ v <= Len(msg) => /\ v > a + 1
                           /\ msg[a + 1] = Blank => \A i \in a + 1 .. v - 1 : msg[i] = Blank
  BY <1>1, <1>12, <1>13, ArgumentProps
<1> HIDE DEF v
<1>16. v <= Len(msg) /\ msg[v] # "number"
  <2>1. Run(msg)[1] = "set" /\ Run(msg)[3] = "zero" BY <1>7
  <2>2. CASE v > Len(msg)
    <3>1. Run(msg)[1] = "calib" BY <1>14, <2>2
    <3> QED BY <2>1, <3>1
  <2>3. CASE ~ (v > Len(msg))
    <3>1. Run(msg)[3] = IF msg[v] = "number" THEN "number" ELSE "zero" BY <1>14, <2>3
    <3>2. msg[v] # "number" BY <2>1, <3>1
    <3> QED BY <1>3, <1>13, <1>15, <2>3, <3>2
  <2> QED BY <2>2, <2>3
<1>17. v \in Nat /\ a \in Nat /\ v > a + 1 /\ a + 1 \in 1 .. Len(msg) /\ a + 2 \in 1 .. Len(msg)
  BY <1>3, <1>13, <1>15, <1>16
<1>18. PICK p \in Nat : p = e + (a - 1) BY <1>3, <1>13
<1>19. p + 1 = e + a /\ p + 2 = e + (a + 1) /\ p + 3 = e + (a + 2) BY <1>3, <1>17, <1>18
<1>20. Follows(s, p)
  <2>1. p \in DOMAIN s /\ s[p] = Blank BY <1>6, <1>12, <1>13, <1>18
  <2> QED BY <1>5, <2>1 DEF Plain
<1>21. /\ s[p + 1] = msg[a] /\ p + 2 \in DOMAIN s /\ s[p + 2] = msg[a + 1]
       /\ s[p + 3] = msg[a + 2] /\ msg[a + 1] \notin End /\ msg[a + 2] \notin End
  BY <1>6, <1>13, <1>17, <1>19
<1>22. \/ msg[a + 1] = Blank /\ msg[a + 2] = "number"
       \/ msg[a + 2] = "cr"
  BY <1>11, <1>20, <1>21 DEF Follows
<1>23. msg[a + 2] # "cr" BY <1>21 DEF End
<1>24. CASE v = a + 2 BY <1>16, <1>22, <1>23, <1>24
<1>25. CASE v # a + 2
  <2>1. a + 2 \in a + 1 .. v - 1 BY <1>17, <1>25
  <2>2. msg[a + 2] = Blank BY <1>15, <1>16, <1>22, <1>23, <2>1
  <2> QED BY <1>22, <1>23, <2>2 DEF Blank
<1> QED BY <1>24, <1>25

\* What is written to the unit, an operator's line behind a blank apart.
LEMMA PlainLines ==
  /\ Plain(Ver) /\ Plain(Restart) /\ Plain(Single)
  /\ Len(Ver) > 1 /\ Ver[1] = "ver" /\ Ver[2] = "cr"
  /\ \A l \in {Ver, Restart, Single} : l # <<>> /\ Last(l) \in End
  /\ \A l \in Beginnings : l # <<>> /\ (Last(l) # Blank => Plain(l))
<1>1. Plain(Ver) /\ Len(Ver) > 1 /\ Ver[1] = "ver" /\ Ver[2] = "cr" /\ Ver # <<>> /\ Last(Ver) \in End
  BY DEF Plain, Follows, Ver, Blank, Last, End
<1>2. Plain(Restart) /\ Restart # <<>> /\ Last(Restart) \in End
  BY DEF Plain, Follows, Restart, Blank, Last, End
<1>3. Plain(Single) /\ Single # <<>> /\ Last(Single) \in End
  <2>1. /\ Len(Single) = 10 /\ DOMAIN Single = 1 .. 10 /\ Single[1] = "volt" /\ Single[2] = Blank
        /\ Single[3] = "pri" /\ Single[4] = "cr" /\ Single[5] = "nl" /\ Single[6] = "volt"
        /\ Single[7] = Blank /\ Single[8] = "sec" /\ Single[9] = "cr" /\ Single[10] = "nl"
    BY DEF Single
  <2>2. \A p \in DOMAIN Single : Single[p] = Blank => p \in {2, 7}
    <3> SUFFICES ASSUME NEW p \in 1 .. 10, p \notin {2, 7} PROVE Single[p] # Blank BY <2>1
    <3>1. p \in {1, 3, 4, 5, 6, 8, 9, 10} OBVIOUS
    <3> QED BY <2>1, <3>1 DEF Blank
  <2>3. Follows(Single, 2) /\ Follows(Single, 7)
    BY <2>1 DEF Follows, Channel, End
  <2>4. Plain(Single) BY <2>2, <2>3 DEF Plain
  <2> QED BY <2>1, <2>4 DEF Last, End
<1>4. ASSUME NEW l \in Typed, NEW n \in 1 .. Len(l)
      PROVE  /\ SubSeq(l, 1, n) # <<>>
             /\ Last(SubSeq(l, 1, n)) # Blank => Plain(SubSeq(l, 1, n))
  <2> DEFINE t == SubSeq(l, 1, n)
  <2>0. Typed \subseteq Seq(Tok) BY DEF Typed, Tok, Blank
  <2>1. /\ Len(l) \in Nat /\ n \in Nat /\ n > 0 /\ n <= Len(l)
        /\ Len(t) = n /\ DOMAIN t = 1 .. n /\ \A i \in 1 .. n : t[i] = l[i]
    <3>1. l \in Seq(Tok) /\ 1 \in Int /\ n \in Int /\ \A i \in 1 .. n : l[i] \in Tok BY <2>0
    <3>2. t \in Seq(Tok) /\ Len(t) = n /\ \A i \in 1 .. n - 1 + 1 : t[i] = l[1 + i - 1]
      BY <3>1, SubSeqProperties
    <3>3. \A i \in 1 .. n : i \in 1 .. n - 1 + 1 /\ 1 + i - 1 = i OBVIOUS
    <3> QED BY <3>1, <3>2, <3>3
  <2> HIDE DEF t
  <2>2. t # <<>> /\ Last(t) = l[n] BY <2>1 DEF Last
  <2>3. ASSUME l[n] # Blank PROVE Plain(t)
    <3>1. CASE l = <<"calib", Blank, "pri", Blank, "number", "cr">>
      <4>1. /\ Len(l) = 6 /\ l[1] = "calib" /\ l[2] = Blank /\ l[3] = "pri" /\ l[4] = Blank
            /\ l[5] = "number" /\ l[6] = "cr"
        BY <3>1
      <4>2. ASSUME NEW p \in 1 .. n, t[p] = Blank PROVE Follows(t, p)
        <5>1. l[p] = Blank /\ p \in 1 .. 6 BY <2>1, <4>1, <4>2
        <5>2. p = 2 \/ p = 4
          <6> SUFFICES ASSUME p # 2, p # 4 PROVE FALSE OBVIOUS
          <6>1. p \in {1, 3, 5, 6} BY <5>1
          <6> QED BY <4>1, <5>1, <6>1 DEF Blank
        <5>3. p + 1 \in 1 .. n BY <2>1, <2>3, <4>1, <5>1, <5>2
        <5>4. CASE p = 2
          <6>1. t[3] = "pri" /\ p + 1 = 3 /\ p + 2 = 4 /\ p + 3 = 5 BY <2>1, <4>1, <5>3, <5>4
          <6>2. 4 \in 1 .. n => t[4] = Blank /\ 5 \in 1 .. n /\ t[5] = "number"
            <7> SUFFICES ASSUME 4 \in 1 .. n PROVE t[4] = Blank /\ 5 \in 1 .. n /\ t[5] = "number"
              OBVIOUS
            <7>1. n # 4 BY <2>3, <4>1
            <7>2. 5 \in 1 .. n BY <2>1, <7>1
            <7> QED BY <2>1, <4>1, <7>2
          <6> QED BY <2>1, <5>3, <6>1, <6>2 DEF Follows, Channel
        <5>5. CASE p = 4
          <6>1. t[5] = "number" /\ p + 1 = 5 BY <2>1, <4>1, <5>3, <5>5
          <6> QED BY <2>1, <5>3, <6>1 DEF Follows, Channel
        <5> QED BY <5>2, <5>4, <5>5
      <4> QED BY <2>1, <4>2 DEF Plain
    <3>2. CASE l = <<"volt", Blank, "sec", "cr">>
      <4>1. Len(l) = 4 /\ l[1] = "volt" /\ l[2] = Blank /\ l[3] = "sec" /\ l[4] = "cr" BY <3>2
      <4>2. ASSUME NEW p \in 1 .. n, t[p] = Blank PROVE Follows(t, p)
        <5>1. l[p] = Blank /\ p \in 1 .. 4 BY <2>1, <4>1, <4>2
        <5>2. p = 2
          <6> SUFFICES ASSUME p # 2 PROVE FALSE OBVIOUS
          <6>1. p \in {1, 3, 4} BY <5>1
          <6> QED BY <4>1, <5>1, <6>1 DEF Blank
        <5>3. 3 \in 1 .. n BY <2>1, <2>3, <4>1, <5>1, <5>2
        <5>4. t[3] = "sec" /\ p + 1 = 3 /\ p + 2 = 4 BY <2>1, <4>1, <5>2, <5>3
        <5>5. 4 \in 1 .. n => t[4] = "cr" BY <2>1, <4>1
        <5> QED BY <2>1, <5>3, <5>4, <5>5 DEF Follows, Channel, End
      <4> QED BY <2>1, <4>2 DEF Plain
    <3> QED BY <3>1, <3>2 DEF Typed
  <2>4. t # <<>> /\ (Last(t) # Blank => Plain(t)) BY <2>2, <2>3
  <2> QED BY <2>4 DEF t
<1>5. \A l \in Beginnings : l # <<>> /\ (Last(l) # Blank => Plain(l))
  <2> SUFFICES ASSUME NEW l \in Beginnings PROVE l # <<>> /\ (Last(l) # Blank => Plain(l))
    OBVIOUS
  <2>1. PICK t \in Typed : l \in {SubSeq(t, 1, n) : n \in 1 .. Len(t)} BY DEF Beginnings
  <2>2. PICK n \in 1 .. Len(t) : l = SubSeq(t, 1, n) BY <2>1
  <2> QED BY <1>4, <2>2
<1> QED BY <1>1, <1>2, <1>3, <1>5

\* What is written arrives behind what is on its way.
LEMMA AheadWritten ==
  ASSUME wire \in Seq(Tok), heard \in Seq(Tok), NEW l \in Seq(Tok), l # <<>>,
         Write(l), UNCHANGED unit
  PROVE  Ahead \in Seq(Tok) /\ Ahead' = Ahead \o l /\ Last(Ahead') = Last(l)
<1>1. wire' = wire \o l /\ heard' = heard /\ spinning' = spinning BY DEF Write, unit
<1>2. (heard \o wire) \o l = heard \o (wire \o l) BY ConcatAssociative
<1>3. Ahead \in Seq(Tok) BY ConcatProperties DEF Ahead
<1>4. Ahead' = Ahead \o l BY <1>1, <1>2 DEF Ahead
<1> DEFINE u == Ahead
<1>5. u \in Seq(Tok) BY <1>3
<1> HIDE DEF u
<1>6. Last(u \o l) = Last(l)
  <2>1. /\ Len(u \o l) = Len(u) + Len(l) /\ Len(u) \in Nat /\ Len(l) \in Nat /\ Len(l) # 0
        /\ \A i \in 1 .. Len(u) + Len(l) : (u \o l)[i] = IF i <= Len(u) THEN u[i] ELSE l[i - Len(u)]
    BY <1>5, ConcatProperties
  <2>2. /\ Len(u) + Len(l) \in 1 .. Len(u) + Len(l) /\ ~ (Len(u) + Len(l) <= Len(u))
        /\ (Len(u) + Len(l)) - Len(u) = Len(l)
    BY <2>1
  <2> QED BY <2>1, <2>2 DEF Last
<1> QED BY <1>3, <1>4, <1>6 DEF u

LEMMA ZeroInit == UnitInit => ZeroInv
<1> SUFFICES ASSUME UnitInit PROVE ZeroInv OBVIOUS
<1>1. Ahead = <<>> /\ out = <<>> /\ daemon = "open"
  <2>1. <<>> \in Seq(Tok) BY EmptySeq
  <2>2. <<>> \o <<>> = <<>> BY <2>1, ConcatEmptySeq
  <2> QED BY <2>2 DEF UnitInit, Ahead
<1>2. Plain(Ahead) BY <1>1 DEF Plain
<1> QED BY <1>1, <1>2 DEF ZeroInv, Sound

\* A write behind a line that is not open, or of a new daemon's first command.
LEMMA SoundWritten ==
  ASSUME AnswerInv, Sound, NEW l \in Seq(Tok), l # <<>>, Plain(l), Write(l), UNCHANGED unit,
         ~ open \/ (Len(l) > 1 /\ l[1] = "ver" /\ l[2] = "cr")
  PROVE  Sound'
<1>1. wire \in Seq(Tok) /\ heard \in Seq(Tok) BY DEF AnswerInv, UnitType
<1>2. Ahead \in Seq(Tok) /\ Ahead' = Ahead \o l /\ Last(Ahead') = Last(l)
  BY <1>1, AheadWritten
<1>3. Ahead = <<>> \/ Last(Ahead) \in End \/ (Len(l) > 1 /\ l[1] = "ver" /\ l[2] = "cr")
  BY DEF Sound
<1>4. Plain(Ahead \o l)
  <2> DEFINE u == Ahead
  <2>1. u \in Seq(Tok) /\ Plain(u) BY <1>2 DEF Sound
  <2>2. u = <<>> \/ Last(u) \in End \/ (Len(l) > 1 /\ l[1] = "ver" /\ l[2] = "cr") BY <1>3
  <2> HIDE DEF u
  <2>3. Plain(u \o l) BY <2>1, <2>2, PlainJoin
  <2> QED BY <2>3 DEF u
<1>5. Plain(Ahead') BY <1>2, <1>4
<1>6. open' \/ Last(Ahead') \in End BY <1>2 DEF Write
<1>7. out' = out BY DEF unit
<1>8. Plain(Ahead)' BY <1>5 DEF Plain, Follows
<1>9. Last(Ahead)' = Last(Ahead') BY DEF Last
<1> QED BY <1>6, <1>7, <1>8, <1>9 DEF Sound, Zero

LEMMA SoundTail ==
  ASSUME NEW w \in Seq(Tok), w # <<>>, Plain(w)
  PROVE  Tail(w) \in Seq(Tok) /\ Plain(Tail(w)) /\ (Tail(w) = <<>> \/ Last(Tail(w)) = Last(w))
<1>1. /\ Head(w) \in Tok /\ Tail(w) \in Seq(Tok) /\ Len(Tail(w)) = Len(w) - 1 /\ Len(w) \in Nat
      /\ Len(w) > 0 /\ \A i \in 1 .. Len(Tail(w)) : Tail(w)[i] = w[i + 1]
  BY HeadTailProperties
<1>2. <<Head(w)>> \in Seq(Tok) BY <1>1
<1>3. w = <<Head(w)>> \o Tail(w) BY <1>1
<1>4. Plain(<<Head(w)>> \o Tail(w)) BY <1>3
<1>5. Plain(Tail(w)) BY <1>1, <1>2, <1>4, PlainParts
<1>6. Tail(w) # <<>> => Last(Tail(w)) = Last(w)
  <2> SUFFICES ASSUME Tail(w) # <<>> PROVE Last(Tail(w)) = Last(w) OBVIOUS
  <2>1. Len(Tail(w)) # 0 BY <1>1
  <2>2. Len(Tail(w)) \in 1 .. Len(Tail(w)) /\ Len(Tail(w)) + 1 = Len(w) BY <1>1, <2>1
  <2> QED BY <1>1, <2>2 DEF Last
<1> QED BY <1>1, <1>5, <1>6

LEMMA ZeroNext == ASSUME AnswerInv, ZeroInv, [UnitNext]_unitVars PROVE ZeroInv'
<1>1. /\ wire \in Seq(Tok) /\ heard \in Seq(Tok) /\ msg \in Seq(Tok) /\ out \in Seq(Answer)
      /\ spinning \in BOOLEAN /\ faults \in Nat
  BY DEF AnswerInv, UnitType
<1>2. (daemon \in {"restart", "poll"} => ~ open) /\ (~ halfway /\ faults = 0 => Sound)
  BY DEF ZeroInv
<1>3. ASSUME UNCHANGED <<wire, unit, open, halfway, faults>>, daemon' \in {"open", "ver", daemon}
      PROVE  ZeroInv'
  <2>1. Ahead' = Ahead /\ open' = open /\ out' = out BY <1>3 DEF Ahead, unit
  <2>2. Sound => Sound' BY <2>1 DEF Sound, Plain, Follows, Zero, Last
  <2> QED BY <1>2, <1>3, <2>2 DEF ZeroInv
<1>4. ASSUME NEW l \in Seq(Tok), l # <<>>, Plain(l), Write(l), UNCHANGED unit, ~ open',
             ~ open \/ (Len(l) > 1 /\ l[1] = "ver" /\ l[2] = "cr"), UNCHANGED <<halfway, faults>>
      PROVE  ZeroInv'
  <2>1. Sound => Sound' BY <1>4, SoundWritten
  <2> QED BY <1>2, <1>4, <2>1 DEF ZeroInv
<1>5. \A l \in {Ver, Restart, Single} : Write(l) => ~ open'
  <2> SUFFICES ASSUME NEW l \in {Ver, Restart, Single}, Write(l) PROVE ~ open' OBVIOUS
  <2>1. Last(l) \in End BY PlainLines
  <2> QED BY <2>1 DEF Write
<1>6. CASE Open BY <1>3, <1>6 DEF Open
<1>7. CASE Startup
  <2>1. CASE Write(Ver) /\ UNCHANGED <<unit, halfway, faults>>
    BY <1>4, <1>5, <2>1, LineTokens, PlainLines
  <2>2. CASE daemon = "restart" /\ Write(Restart) /\ UNCHANGED <<unit, halfway, faults>>
    BY <1>2, <1>4, <1>5, <2>2, LineTokens, PlainLines
  <2> QED BY <1>7, <2>1, <2>2 DEF Startup
<1>8. CASE Poll
  <2>1. Write(Single) /\ UNCHANGED <<unit, halfway, faults>> /\ ~ open BY <1>2, <1>8 DEF Poll
  <2> QED BY <1>4, <1>5, <2>1, LineTokens, PlainLines
<1>9. CASE Close BY <1>3, <1>9 DEF Close
<1>10. CASE Type
  <2>1. PICK l \in Beginnings : Write(l) /\ halfway' = (halfway \/ open \/ Last(l) = Blank)
    BY <1>10 DEF Type
  <2>2. daemon' = "open" /\ UNCHANGED <<unit, faults>> BY <1>10 DEF Type
  <2>3. l \in Seq(Tok) /\ l # <<>> /\ (Last(l) # Blank => Plain(l)) BY LineTokens, PlainLines
  <2>4. ASSUME ~ halfway', faults' = 0 PROVE Sound'
    <3>1. ~ halfway /\ ~ open /\ Last(l) # Blank /\ faults = 0 BY <2>1, <2>2, <2>4
    <3>2. Sound /\ Plain(l) BY <1>2, <2>3, <3>1
    <3> QED BY <2>1, <2>2, <2>3, <3>1, <3>2, SoundWritten
  <2> QED BY <2>2, <2>4 DEF ZeroInv
<1>11. CASE Lose
  <2>1. faults' # 0 /\ UNCHANGED <<daemon, open>> BY <1>1, <1>11 DEF Lose
  <2> QED BY <1>2, <2>1 DEF ZeroInv
<1>12. ASSUME Sound, wire # <<>>, wire' = Tail(wire), spinning', Plain(wire),
              wire = Ahead \/ Last(wire) = Last(Ahead), open' = open,
              \A i \in DOMAIN out' : out'[i] \notin Zero
       PROVE  Sound'
  <2>1. Plain(Tail(wire)) /\ (Tail(wire) = <<>> \/ Last(Tail(wire)) = Last(wire))
    BY <1>1, <1>12, SoundTail
  <2>2. Ahead' = Tail(wire) BY <1>12 DEF Ahead
  <2>3. Plain(Ahead') /\ (open' \/ Ahead' = <<>> \/ Last(Ahead') \in End)
    <3>1. open \/ Ahead = <<>> \/ Last(Ahead) \in End BY <1>12 DEF Sound
    <3>2. CASE open BY <1>12, <2>1, <2>2, <3>2
    <3>3. CASE ~ open /\ Ahead = <<>>
      <4>1. heard \o wire # <<>>
        <5>1. Len(wire) # 0 /\ Len(heard \o wire) = Len(heard) + Len(wire)
              /\ Len(heard) \in Nat /\ Len(wire) \in Nat
          BY <1>1, <1>12, ConcatProperties
        <5> QED BY <5>1
      <4> QED BY <1>12, <3>3, <4>1 DEF Ahead
    <3>4. CASE Last(Ahead) \in End BY <1>12, <2>1, <2>2, <3>4
    <3> QED BY <3>1, <3>2, <3>3, <3>4
  <2> QED BY <1>12, <2>3 DEF Sound, Plain, Follows, Last, Zero
<1>13. CASE Forgotten
  <2>1. /\ spinning /\ wire # <<>> /\ wire' = Tail(wire) /\ spinning' = spinning /\ out' = out
        /\ UNCHANGED <<daemon, open, halfway, faults>>
    BY <1>13 DEF Forgotten, unit
  <2>2. Ahead = wire BY <2>1 DEF Ahead
  <2>3. Sound => Sound' BY <1>12, <2>1, <2>2 DEF Sound
  <2> QED BY <1>2, <2>1, <2>3 DEF ZeroInv
<1>14. CASE RunConfig
  <2>1. /\ wire # <<>> /\ ~ spinning /\ wire' = Tail(wire) /\ heard' = Append(heard, Head(wire))
        /\ UNCHANGED <<daemon, open, halfway, faults>>
    BY <1>14 DEF RunConfig, Take
  <2>2. \/ UNCHANGED <<spinning, out>>
        \/ msg # <<>> /\ out' = Append(out, Run(msg)) /\ UNCHANGED spinning
        \/ spinning' = TRUE /\ out' = Append(out, <<"restarting">>)
    BY <1>14 DEF RunConfig, Lookup
  <2>3. Ahead = heard \o wire BY <2>1 DEF Ahead
  <2>4. ASSUME Sound PROVE Sound'
    <3>1. \A i \in DOMAIN out' : out'[i] \notin Zero
      <4>1. \A i \in DOMAIN out : out[i] \notin Zero BY <2>4 DEF Sound
      <4>2. ASSUME NEW r, r \notin Zero, out' = Append(out, r)
            PROVE  \A i \in DOMAIN out' : out'[i] \notin Zero
        <5> SUFFICES ASSUME NEW i \in DOMAIN out' PROVE out'[i] \notin Zero OBVIOUS
        <5>1. Len(out) \in Nat /\ DOMAIN out = 1 .. Len(out) BY <1>1
        <5>2. /\ DOMAIN out' = 1 .. Len(out) + 1 /\ out'[Len(out) + 1] = r
              /\ \A k \in 1 .. Len(out) : out'[k] = out[k]
          BY <1>1, <4>2
        <5>3. i \in 1 .. Len(out) \/ i = Len(out) + 1 BY <5>1, <5>2
        <5> QED BY <4>1, <4>2, <5>1, <5>2, <5>3
      <4>3. CASE msg # <<>> /\ out' = Append(out, Run(msg))
        <5>1. Plain(heard \o wire) BY <2>3, <2>4 DEF Sound
        <5>2. Run(msg) \notin Zero BY <2>1, <4>3, <5>1, NoZero
        <5> QED BY <4>2, <4>3, <5>2
      <4>4. CASE out' = Append(out, <<"restarting">>)
        <5>1. <<"restarting">> \notin Zero
          <6> SUFFICES ASSUME NEW ch \in Channel, <<"restarting">> = <<"set", ch, "zero">> PROVE FALSE
            BY DEF Zero
          <6>1. <<"restarting">>[1] = "restarting" /\ <<"set", ch, "zero">>[1] = "set" OBVIOUS
          <6> QED BY <6>1
        <5> QED BY <4>2, <4>4, <5>1
      <4>5. CASE out' = out BY <4>1, <4>5
      <4> QED BY <2>2, <4>3, <4>4, <4>5
    <3>2. CASE spinning'
      <4>1. Plain(heard \o wire) BY <2>3, <2>4 DEF Sound
      <4>2. Plain(wire) BY <1>1, <4>1, PlainParts
      <4>3. Last(wire) = Last(heard \o wire)
        <5>1. /\ Len(heard \o wire) = Len(heard) + Len(wire) /\ Len(heard) \in Nat /\ Len(wire) \in Nat
              /\ Len(wire) # 0
              /\ \A i \in 1 .. Len(heard) + Len(wire) :
                   (heard \o wire)[i] = IF i <= Len(heard) THEN heard[i] ELSE wire[i - Len(heard)]
          BY <1>1, <2>1, ConcatProperties
        <5>2. /\ Len(heard) + Len(wire) \in 1 .. Len(heard) + Len(wire)
              /\ ~ (Len(heard) + Len(wire) <= Len(heard))
              /\ (Len(heard) + Len(wire)) - Len(heard) = Len(wire)
          BY <5>1
        <5> QED BY <5>1, <5>2 DEF Last
      <4> QED BY <1>12, <2>1, <2>3, <2>4, <3>1, <3>2, <4>2, <4>3
    <3>3. CASE ~ spinning'
      <4>1. Ahead' = Append(heard, Head(wire)) \o Tail(wire) BY <2>1, <3>3 DEF Ahead
      <4>2. Append(heard, Head(wire)) \o Tail(wire) = heard \o wire
        <5>1. Head(wire) \in Tok /\ Tail(wire) \in Seq(Tok) BY <1>1, <2>1, HeadTailProperties
        <5>2. wire = <<Head(wire)>> \o Tail(wire) BY <1>1, <2>1
        <5>3. Append(heard, Head(wire)) = heard \o <<Head(wire)>> BY <1>1, <5>1, AppendIsConcat
        <5>4. <<Head(wire)>> \in Seq(Tok) BY <5>1
        <5>5. (heard \o <<Head(wire)>>) \o Tail(wire) = heard \o (<<Head(wire)>> \o Tail(wire))
          BY <1>1, <5>1, <5>4, ConcatAssociative
        <5> QED BY <5>2, <5>3, <5>5
      <4>3. Ahead' = Ahead /\ open' = open BY <2>1, <2>3, <4>1, <4>2
      <4> QED BY <2>4, <3>1, <4>3 DEF Sound, Plain, Follows, Last, Zero
    <3> QED BY <3>2, <3>3
  <2> QED BY <1>2, <2>1, <2>4 DEF ZeroInv
<1>15. CASE Reset
  <2>1. /\ spinning /\ ~ spinning' /\ heard' = <<>> /\ out' = <<>> /\ wire' = wire
        /\ UNCHANGED <<daemon, open, halfway, faults>>
    BY <1>15 DEF Reset
  <2>2. <<>> \o wire = wire BY <1>1, ConcatEmptySeq
  <2>3. Ahead' = Ahead /\ open' = open BY <2>1, <2>2 DEF Ahead
  <2>4. DOMAIN out' = {} BY <2>1
  <2>5. Sound => Sound' BY <2>3, <2>4 DEF Sound, Plain, Follows, Last, Zero
  <2> QED BY <1>2, <2>1, <2>5 DEF ZeroInv
<1>16. CASE UNCHANGED unitVars BY <1>3, <1>16 DEF unitVars
<1> QED BY <1>6, <1>7, <1>8, <1>9, <1>10, <1>11, <1>13, <1>14, <1>15, <1>16 DEF UnitNext

\* Unless something is lost or an operator stops behind a blank, no line without
\* a number sets a calibration to zero, whatever resets and new daemons cut into
\* the stream (PMon_SetStartup, PMon_Poll, Cmd_VoltCalib).
THEOREM ZeroOnlyUnfinishedHolds == UnitSpec => []ZeroOnlyUnfinished
<1>1. AnswerInv /\ ZeroInv => ZeroOnlyUnfinished
  <2> SUFFICES ASSUME AnswerInv, ZeroInv, ~ halfway, faults = 0, NEW i \in DOMAIN out,
                      out[i] \in Zero
               PROVE  FALSE
    <3>1. AnswerInv => faults \in Nat BY DEF AnswerInv, UnitType
    <3>2. faults \in Nat /\ ~ (faults > 0) => faults = 0 OBVIOUS
    <3> QED BY <3>1, <3>2 DEF ZeroOnlyUnfinished, Zero
  <2> QED BY DEF ZeroInv, Sound
<1>2. AnswerInv /\ ZeroInv /\ [UnitNext]_unitVars => AnswerInv' /\ ZeroInv'
  BY AnswerNext, ZeroNext
<1> QED BY <1>1, <1>2, AnswerInit, ZeroInit, PTL DEF UnitSpec
=============================================================================
