------------------------------ MODULE MainLoop -----------------------------
(***************************************************************************)
(* The main loop of main.c under the millisecond tick of Heartbeat.c and   *)
(* the watchdog of the board's init.c.  The loop takes at most one tick    *)
(* into account each time round, and now and then it waits: for the flash, *)
(* for a converter, for an answer to go out.  Ticks keep coming meanwhile. *)
(*                                                                         *)
(* Ticks are the unit of time.  How long a wait may take is a property of  *)
(* the hardware, and a constant here; a wait the code does not bound is    *)
(* assumed to end.                                                         *)
(***************************************************************************)
EXTENDS Naturals

CONSTANTS TenMs,         \* 10, the threshold of Is_10ms
          Second,        \* 1000, the threshold of Is_1s
          CounterRange,  \* 256, ms_counter being a uint8_t
          WdtPeriod,     \* WDT_PERIOD
          MaxStart,      \* ticks from reset to the loop, at most
          MaxAsked,      \* commands answered in one second, at most
          MaxAnswer,     \* ticks an answer takes, at most
          MaxFlash,      \* ticks EE_Cache_Check takes, at most
          MaxConvert,    \* ticks PowerChan_Run takes, at most
          RoundsPerTick  \* rounds without a wait per tick, at least

ASSUME LoopAssumption ==
  /\ {TenMs, Second, CounterRange, WdtPeriod, RoundsPerTick} \subseteq Nat \ {0}
  /\ {MaxStart, MaxAsked, MaxAnswer, MaxFlash, MaxConvert} \subseteq Nat
  /\ MaxStart < CounterRange /\ MaxStart < WdtPeriod

VARIABLES
  ms_counter, count_10ms, count_1s,   \* Heartbeat.c
  pc,       \* the loop's place in its code
  left,     \* ticks the wait in progress may still take
  rounds,   \* rounds completed since the last tick, up to RoundsPerTick
  asked,    \* commands answered in this second
  unfed,    \* ticks since the watchdog was last restarted
  base,     \* ms_counter as it was then
  wraps     \* how often ms_counter went past its range since

heartVars == <<ms_counter, count_10ms, count_1s>>
vars == <<heartVars, pc, left, rounds, asked, unfed, base, wraps>>

Waits == {"answer", "flash", "pri", "sec"}

\* SysTick runs from sysclk_init on, the watchdog from board_init.
Init ==
  /\ ms_counter \in 0 .. MaxStart
  /\ unfed = ms_counter /\ base = 0 /\ wraps = 0
  /\ count_10ms = 0 /\ count_1s = 0
  /\ pc = "run" /\ left = 0 /\ rounds = 0 /\ asked = 0

-----------------------------------------------------------------------------
\* slip: all ticks are taken at once and counted as one
HeartbeatRunAll ==
  /\ pc = "run"
  /\ IF ms_counter # 0
       THEN /\ ms_counter' = 0
            /\ count_10ms' = count_10ms + 1 /\ count_1s' = count_1s + 1
       ELSE UNCHANGED heartVars
  /\ pc' = "config"
  /\ UNCHANGED <<left, rounds, asked, unfed, base, wraps>>

\* slip: count_1s is eight bits wide
HeartbeatRunNarrow ==
  /\ pc = "run"
  /\ IF ms_counter # 0
       THEN /\ ms_counter' = ms_counter - 1
            /\ count_10ms' = count_10ms + 1
            /\ count_1s' = (count_1s + 1) % CounterRange
       ELSE UNCHANGED heartVars
  /\ pc' = "config"
  /\ UNCHANGED <<left, rounds, asked, unfed, base, wraps>>

\* Hearbeat_Run, with interrupts masked.
HeartbeatRun ==
  /\ pc = "run"
  /\ IF ms_counter # 0
       THEN /\ ms_counter' = ms_counter - 1
            /\ count_10ms' = count_10ms + 1 /\ count_1s' = count_1s + 1
       ELSE UNCHANGED heartVars
  /\ pc' = "config"
  /\ UNCHANGED <<left, rounds, asked, unfed, base, wraps>>

\* Run_Config goes on while the receive ring holds something: no line is complete,
\* the next command is answered, or it is restart, which never returns.
Config ==
  /\ pc = "config"
  /\ \/ pc' = "ten" /\ UNCHANGED <<left, asked>>
     \/ /\ asked < MaxAsked
        /\ pc' = "answer" /\ left' = MaxAnswer /\ asked' = asked + 1
     \/ pc' = "spin" /\ UNCHANGED <<left, asked>>
  /\ UNCHANGED <<heartVars, rounds, unfed, base, wraps>>

\* slip: the counter is cleared by every call
TenCheckClears ==
  /\ pc = "ten"
  /\ count_10ms' = 0
  /\ IF count_10ms >= TenMs
       THEN pc' = "flash" /\ left' = MaxFlash
       ELSE pc' = "second" /\ UNCHANGED left
  /\ UNCHANGED <<ms_counter, count_1s, rounds, asked, unfed, base, wraps>>

\* Is_10ms and EE_Cache_Check
TenCheck ==
  /\ pc = "ten"
  /\ IF count_10ms >= TenMs
       THEN count_10ms' = 0 /\ pc' = "flash" /\ left' = MaxFlash
       ELSE pc' = "second" /\ UNCHANGED <<count_10ms, left>>
  /\ UNCHANGED <<ms_counter, count_1s, rounds, asked, unfed, base, wraps>>

NextRound ==
  rounds' = IF rounds < RoundsPerTick THEN rounds + 1 ELSE rounds

\* wdt_restart
Feed ==
  unfed' = 0 /\ asked' = 0 /\ base' = ms_counter /\ wraps' = 0

\* slip: the counter is not cleared
SecondCheckKeeps ==
  /\ pc = "second"
  /\ IF count_1s >= Second
       THEN /\ Feed
            /\ pc' = "pri" /\ left' = MaxConvert /\ UNCHANGED rounds
       ELSE /\ pc' = "run" /\ NextRound
            /\ UNCHANGED <<left, asked, unfed, base, wraps>>
  /\ UNCHANGED heartVars

\* Is_1s: the watchdog is restarted, then both channels are converted.
SecondCheck ==
  /\ pc = "second"
  /\ IF count_1s >= Second
       THEN /\ count_1s' = 0 /\ Feed
            /\ pc' = "pri" /\ left' = MaxConvert /\ UNCHANGED rounds
       ELSE /\ pc' = "run" /\ NextRound
            /\ UNCHANGED <<count_1s, left, asked, unfed, base, wraps>>
  /\ UNCHANGED <<ms_counter, count_10ms>>

WaitEnds ==
  /\ \/ pc = "answer" /\ pc' = "config" /\ left' = 0 /\ UNCHANGED rounds
     \/ pc = "flash" /\ pc' = "second" /\ left' = 0 /\ UNCHANGED rounds
     \/ pc = "pri" /\ pc' = "sec" /\ left' = MaxConvert /\ UNCHANGED rounds
     \/ pc = "sec" /\ pc' = "run" /\ left' = 0 /\ NextRound
  /\ UNCHANGED <<heartVars, asked, unfed, base, wraps>>

-----------------------------------------------------------------------------
\* A tick falls into a wait, into the endless loop of restart, or between
\* rounds that take no time to speak of.
Timing ==
  \/ pc = "spin" /\ UNCHANGED <<left, rounds>>
  \/ pc \in Waits /\ left > 0 /\ left' = left - 1 /\ UNCHANGED rounds
  \/ pc \notin Waits \cup {"spin"} /\ rounds = RoundsPerTick
       /\ rounds' = 0 /\ UNCHANGED left

\* slip: the tick handler keeps the watchdog quiet
TickFeeds ==
  /\ unfed < WdtPeriod /\ Timing
  /\ ms_counter' = (ms_counter + 1) % CounterRange
  /\ unfed' = 0 /\ base' = 0 /\ wraps' = 0
  /\ UNCHANGED <<count_10ms, count_1s, pc, asked>>

\* Heartbeat_Tick
Tick ==
  /\ unfed < WdtPeriod /\ Timing
  /\ ms_counter' = (ms_counter + 1) % CounterRange
  /\ unfed' = unfed + 1
  /\ wraps' = IF ms_counter + 1 = CounterRange THEN wraps + 1 ELSE wraps
  /\ UNCHANGED <<count_10ms, count_1s, pc, asked, base>>

\* The watchdog resets the processor, and everything starts again.
WatchdogReset ==
  /\ unfed = WdtPeriod
  /\ ms_counter' \in 0 .. MaxStart
  /\ unfed' = ms_counter' /\ base' = 0 /\ wraps' = 0
  /\ count_10ms' = 0 /\ count_1s' = 0
  /\ pc' = "run" /\ left' = 0 /\ rounds' = 0 /\ asked' = 0

Loop ==
  /\ unfed < WdtPeriod
  /\ HeartbeatRun \/ Config \/ TenCheck \/ SecondCheck \/ WaitEnds

Next == Loop \/ Tick \/ WatchdogReset

Spec == Init /\ [][Next]_vars

\* The processor runs, time passes, and the watchdog is independent of both.
FairSpec == Spec /\ WF_vars(Loop) /\ WF_vars(Tick) /\ WF_vars(WatchdogReset)

-----------------------------------------------------------------------------
\* Every variable keeps to its range; the dividers stop at their thresholds
\* because the loop tests them every time round.
TypeOK ==
  /\ ms_counter \in 0 .. CounterRange - 1
  /\ count_10ms \in 0 .. TenMs /\ count_1s \in 0 .. Second
  /\ pc \in Waits \cup {"run", "config", "ten", "second", "spin"}
  /\ left \in Nat /\ rounds \in 0 .. RoundsPerTick
  /\ asked \in 0 .. MaxAsked
  /\ unfed \in 0 .. WdtPeriod
  /\ base \in 0 .. CounterRange - 1 /\ wraps \in Nat

\* Every tick since the watchdog was fed is counted towards the second, or
\* waits in ms_counter behind those that did then, whatever the handler
\* interrupts; only a wrap of the eight bits forgets some, 256 at a time.
TicksConserved ==
  unfed + base = count_1s + ms_counter + CounterRange * wraps

\* ms_counter never wraps: the loop makes up for its waits before the next.
NoTickLost == pc # "spin" => wraps = 0

\* The watchdog never resets a loop that works: a second is over in time even
\* with all the waits in it and the ticks that pile up behind them.
FedInTime == unfed = WdtPeriod => pc = "spin"

\* restart always leads to a reset, since nothing else feeds the watchdog.
RestartResets == pc = "spin" ~> pc # "spin"

\* EE_Cache_Check is called again and again, which is the fairness EECache
\* assumes of the main loop.
CacheChecked == []<>(pc = "flash" \/ pc = "spin")
=============================================================================
