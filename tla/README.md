# PowerMonitor: models and proofs

PowerMonitor is a two-channel voltage monitor: a SAM4N board samples two
AD7787 converters and answers text commands on a serial line; a Linux daemon
polls the board once a second and publishes the voltages in System V shared
memory; client programs read them through a small library.  This directory
holds TLA+ models of the code, TLC configurations for them, and TLAPS proofs.

## The system

| Part | Code (`src/...`) | State | Talks to |
|---|---|---|---|
| EEPROM cache | `firmware/PowerMon/src/eeprom.c` | cache slots (page, dirty, age, 512 bytes) | DataFlash driver; called by the calibration commands and the main loop |
| DataFlash driver | `firmware/PowerMon/src/DataFlash.c` | none of its own; the chip: main memory, buffer 2, page being programmed | SPI |
| SPI bus | `firmware/PowerMon/src/spi_master.c`, used by the two drivers | three chip select pins | flash and two converters, one shared MISO line |
| UART rings | `firmware/PowerMon/src/UartBuffer.c` | two 256-byte rings, four 8-bit indices | USART0 interrupt and main loop at once |
| Heartbeat | `firmware/PowerMon/src/Heartbeat.c` | 8-bit tick counter, three dividers | SysTick interrupt and main loop |
| Commands, calibration | `firmware/PowerMon/src/main.c`, `CmdProcessor.c` | line buffer, calibration in RAM and EEPROM | UART, cache, power channels |
| Main loop, watchdog | `firmware/PowerMon/src/main.c`, board `init.c` | LED state; 3 s watchdog | everything above |
| Power channels | `firmware/PowerMon/src/PowerChanel.c`, `AD7787_Driver.c` | last readings, calibration | SPI |
| Daemon | `daemon/src/PowerMon_Main.c`, `Cmds_PMon.c`, `CmdParse.c`, `Serial.c` | file descriptor, read buffer, pointer to the segment | tty, shared memory, signals |
| Start-up script | `daemon/src/PowerMonitor.sh` | none | starts daemons, signals them by name |
| Reader library | `daemon/src/PMon_Lib.c` | none; the segment: mutex, voltages, connected flag | shared memory |

The hard behaviours, each at its line in `PROJECT.json` under `hazards`:

* **crashes between steps**: a reset by the watchdog (which is how `restart`
  works) or a power failure between the three flash commands of an eviction;
* **concurrency**: the daemon, the readers and the signal handler share a mutex
  that is not process-shared and is wiped on every start; on the board, the
  main loop calls the interrupt handler's code with interrupts enabled;
* **stale state**: clean cache slots are dropped unread, buffer 2 of the chip
  is reused while the chip may be busy, the connected flag is set and cleared
  away from the events it reports, the answer buffer is shared by all commands;
* **unreliable delivery**: characters lost on the serial line, reads that end
  anywhere, lines an operator or an earlier daemon left unfinished;
* **pins a reset leaves low**: the watchdog resets the processor and not its
  peripherals, so a chip may stay selected while the start-up code talks to another;
* **limits**: ages that saturate, 8-bit counters, 32-bit products, addresses
  spread over bytes, rings and line buffers.

What makes each part correct:

* cache: reads return the last write; a reset loses exactly the writes whose
  page was not handed to the chip; every write gets there in the end;
* daemon: one process inside the mutex, no torn pair of voltages, "connected"
  only while it is, an end on every signal, a lost line noticed;
* rings: characters in order, none lost below the ring's size; heartbeat: no
  tick lost while the loop keeps up;
* bus: one device listens at a time, the flash gets the page and the bytes the
  driver was asked to send, a reading is a finished conversion;
* commands: each line answered once, in order, by what it asks; calibration: a
  channel computes with what its own stored words say, and still does after a
  restart; the voltage published is the one meant;
* reception: values in order and once, and only a fault of the line costs any.

## Modules

`EEStore`
: The abstract store: a byte memory addressed by page and offset, with `Read`,
  `Write`, `Save` (a page becomes durable), `Settle`, `Forget` (reset) and
  `Damage` (power failure).  It has no cache.

`EECache`
: `eeprom.c` on top of the chip as `DataFlash.c` drives it.  `page`, `dirty`,
  `count` and `buf` are the fields of `ExtCache[]`; `main`, `buf2` and `prog`
  are the chip.  A call (`BeginRead`, `BeginWrite`, `BeginCheck`) goes through
  `phase`s, one action per flash command, so that `Reset`, `PowerFail` and
  `ChipDone` fall between any two.  `FillHit`, `FillClean` and `EvictBuffer`,
  `EvictLoad`, `EvictProgram` are the branches of `ExtCache_Fill`; the order of
  the last three is the code's.  `CheckBuffer`, `CheckProgram`, `CheckNone` are
  `EE_Cache_Check`, repeated for `EE_Cache_Flush`.  Addresses are pairs (page,
  offset) inside the token, as `conf_eeprom.h` has them.

`PMonDaemon`
: The daemon with one action per statement another process can notice, the
  readers of `PMon_Lib.c`, the serial line by whole lines, and
  `pthread_mutex_lock` as the futex protocol it is (0 free, 1 taken, 2
  contended).  The futex is private because `pthread_mutex_init` gets no
  attribute, so an unlock wakes nobody in another process.  `lk` is where each
  process stands in it.  Two variables record what the properties need of the
  past: `caught`, how many were inside when the mutex was last initialised (0 again
  once nobody is), and `unclosed`, that `close` failed in this run of the daemon.
  `Signal` is the handler that calls `exit`, `Kill` is SIGKILL, a signal without a
  handler, or a second one during the exit handler, `Fault` an access to detached
  memory.

`UartBuffer`
: `UartBuffer.c` under the main loop of `main.c`.  `UartBuffer_Interrupt` is a
  sequence of actions (`TestTx` to `AdvanceRxIn`) for either of two contexts,
  the handler and the main loop; `RxIn++` is a load and a store, since the index
  is volatile and both contexts write it.  `putting` stands for the masked
  interrupts of `UartBuffer_PutChar`.  `overrun`, `raced` and `lapped` record
  the three ways to lose a character.

`MainLoop`
: `Heartbeat.c`, the order of the calls in `main` and the watchdog, with the
  millisecond tick as the unit of time.  `Config`, `TenCheck`, `SecondCheck` are
  the loop's branches, each of which may wait (`left` ticks at most); `Config`
  answers one command after another, `MaxAsked` in a second at most.  `base`
  and `wraps` are `ms_counter` when the watchdog was last fed and the number of
  its wraps since.

`FlashPages`
: What `DataFlash.h` promises: an operation on a page of the token is done as a
  whole before the next one is asked for.  A reset may leave one operation
  (`late`) that still takes effect or does not.

`FlashBus`
: `DataFlash.c` and `AD7787_Driver.c` on the bus, byte by byte.  A driver function
  exchanges one `Frame` after its status frames; `Select`, `Transfer`, `Release` move through
  them, and the flash acts when its pin rises.  The wait for the ready bit is a
  status frame repeated; the wait for a converter keeps `Transfer` from going on
  until MISO is low.  `DataFlashInit`, `ConverterInit` and `ReadChipID` are the
  start-up code, `Reset` falls between any two bytes and leaves pins and devices
  as they are.  `ImplementsPages` is the refinement of `FlashPages`.

`PowerChannel`
: The operators of a voltage's way: `PowerChan_GetVolts` in unsigned 32 bits, the
  decimal number on the line, `atoi` through a `long` of either width.

`Calibration`
: The commands calib, offset and volt over a memory that behaves as `EEStore`
  (an instance of it), with the words of `conf_eeprom.h` byte by byte, and the
  copies the channels compute with.  `Set` writes memory and channel and answers
  from the memory, in one step since nothing of the main loop comes in between;
  `Restart` reads the words again, the
  default where all four bytes are 0xFF.

`UnitCommands`
: Lines on their way to the unit: the daemon's queries, what an operator typed up
  to any point, a token lost on the line (as a whole: a digit lost inside a
  number is not told from another number, here and in `PMonReceive`).  `RunConfig` is `Run_Config` on
  the next character, with `CP_Lookup` and the handler where it ends a line;
  `Reset` is the watchdog after `restart`, which forgets the line begun.  `heard`,
  `out`, `open` and `halfway` only record what was taken, answered and typed.

`PMonReceive`
: `readBuf` of the daemon, token by token, a token being a name and the number of
  the unit's line it comes from: a read of any length (`ReadData`), the
  terminator it writes, behind the buffer when it is full, and one
  `CmdParse_ProcessString` (`Parse`).  `Overwritten` is whoever the byte behind
  the buffer belongs to; the length is then past the end, and `read` refuses the
  size asked for (`ReadRefused`).  `text` and `junk` record what was sent and
  what the buffer held at first.

`PMonScript`
: The calls of `PowerMonitor.sh` and several daemons at once, each between its
  start and the end of its exit handler.

`MCEECache`, `MCPMonDaemon`, `MCCalibration`
: Values for the constants; `MCPMonDaemon` also the symmetry of readers.

`EECacheProofs`, `MainProofs`, `PMonDaemonProofs`, `PMonProofs`,
`UartBufferProofs`, `CalibrationProofs`, `FlashBusProofs`, `Division`
: The proofs.  `MainProofs` is about the two modules for `main.c`, `MainLoop` and
  `UnitCommands`, `PMonProofs` about `PMonReceive` and `PMonScript`; `Division` has
  the facts about quotients, remainders and least numbers the others cite.

The modules fit together at what they take from one another: `FlashBus` implements
the page operations `EECache` uses as single steps, `EECache` implements the store
`Calibration` is over, `UartBuffer` hands to `UnitCommands` the characters in the
order they came, and `PMonReceive` gives `PMonDaemon` its whole lines.

Definitions marked `slip` in a comment are not part of the models: each is a
variant with a plausible mistake, and replacing the definition after it by the
variant makes TLC report the property named in `PROJECT.json`.

## Runs

| Run | Instance | States | Shows |
|---|---|---|---|
| `EECacheEvict` | 2 slots, 3 pages of 1 byte, ages up to 3, writes of up to 2 bytes, fair | 674912 | structure of the cache; `ImplementsStore`; the victim is never the slot just used; writes reach the flash |
| `EECacheWide` | 1 slot, 2 pages of 2 bytes, writes of up to 3 bytes | 159152 | what a reset leaves of a word changes at a page limit only, nowhere else inside a write |
| `FlashBus` | pages 62 to 65, offsets 255 and 256, a token of 2 pages, 1 reset, fair | 184080 | `ImplementsPages`; one device selected; fresh readings; calls return |
| `Calibration` | words of 256 values in bytes of 4, 2 calibration commands | 169284 | memory, channel, answer and published voltage agree, also after a restart |
| `UnitCommands` | 3 lines, a buffer of 6 tokens, 1 token lost, fair | 168243 | each line answered as asked, no query sets a calibration, restart obeyed |
| `UartBuffer` | rings of 4, 5 characters in, 3 out, fair | 281826 | order and loss of characters; answers in order |
| `MainLoop` | dividers 8 and 32, counter below 14, watchdog 96, 4 commands a second, waits of 1, fair | 421897 | no tick lost, watchdog fed, restart resets, cache checked |
| `PMonReceive` | 4 lines, a buffer of 7 tokens, 1 fault, 1 token of initial text, fair | 1181632 | values in order and once; only faults fill the buffer; the tty is drained |
| `PMonDaemonReaders` | 2 readers, 2 starts of the daemon | 2978956 | mutex, snapshot, connected flag, detached segment |
| `PMonDaemonLive` | 1 reader, 1 start, every kind of line, fair | 62445 | signals end the daemon, a lost line is noticed, lines are read |
| `PMonScript` | 3 daemons, 4 calls | 9748 | who is told "connected" when daemons overlap |
| `PMonScriptUsage` | 2 daemons, 2 calls | - | a violation: see Findings |

Bounds.  Two slots over three pages are the least that make every path of
`ExtCache_Fill` happen with another slot left alone, and a page return after
being evicted; the firmware's four slots over four pages evict only through the
slots that `EE_Init` leaves dirty, which the instance has too.  A page of one
byte loses nothing there, since the cache moves whole pages; `EECacheWide` has
two for what depends on offsets.  Ages saturate at 3 so that saturation is
reached.  Two values of a byte, one of them the erased 0xFF, are enough for
agreement properties.  In `FlashBus` pages 62 to 65 and offsets 255 and 256 lie
on both sides of the limits of the address bytes, and the token begins at a page
other than 0 and ends before the last; a second reset would meet no pin the first
cannot leave low.  `Calibration` scales a word down to 256 values and a byte to 4,
so that products of the readings and numbers chosen wrap, differences are
negative and every word crosses bytes; the proofs are for every width.  Two
commands suffice to disturb a word set before.  In `UnitCommands` three lines hold a
half-typed command, the query that completes it and a restart; six tokens hold the
longest line whole, and a line glued to the next by a loss is cut at the limit.  In
`PMonReceive` a lost line end glues two of four lines and leaves others to be
found; seven tokens hold the colon of a glued line, and an unfinished line with the
newlines of unknown commands around it fills them.  In `PMonDaemon` one reading
besides 0 tells old from new; one unread line and one or two in `readBuf` make
backlogs and mixed chunks; two starts give a wipe with readers inside.  In
`UartBuffer` five characters go once round a ring of four and make it full.
`MainLoop` keeps the proportions of the code (10, 1000, 256 and 3000) roughly: a
second is more than two ranges of the counter and a third of the watchdog's period,
and the waits of a second fit the counter.  `MaxAsked` is 4: `PMon_Poll` sends two
queries at once, and a second of the unit, which its conversions lengthen, can hold
two polls.  `RoundsPerTick`, how often the idle loop goes round in
a millisecond, is 3; the real one is far above that.  Three daemons in
`PMonScript` are one that leaves, one that comes and one that is started between.

Deadlock is not checked where the system may stop: `UartBuffer` (the main loop may
wait in `usart_getchar` for a character the handler has taken, until the watchdog
resets it), and the three instances that end when their lines or calls are used up
(`PMonReceive`, `UnitCommands`, `PMonScript`).

Fairness.  `UartBuffer`: the processor runs (weak fairness of the main loop and
of an entered handler); that the interrupt fires at all is not assumed.
`MainLoop`: the loop, time and the watchdog go on (weak), and every wait ends.
`CacheChecked` is what makes the loop's share in the next line true.
`EECache`: a call under way is finished and the chip finishes
programming (weak), and the main loop returns to `EE_Cache_Check` between other
calls (strong, `main.c:329`).  `FlashBus`: the processor runs, the flash and the
converters finish what they were told (weak); the code has no timeout to do
without.  `UnitCommands`: the main loop comes round to `Run_Config` and a watchdog
that is not fed fires (weak).  `PMonReceive`: `select` reports waiting characters,
so the daemon reads and parses (weak each).  `PMonDaemon`: the daemon's own steps
and the clock (weak); nothing is assumed of readers, signals, the line or the
unit.  Waiting for the mutex is not assumed to end, and the liveness properties
say so.  `Calibration` and `PMonScript` assume none.

## What a maintainer should know

The runs state what the code does, including these consequences:

* After the first failure of the serial line the daemon never opens it again:
  `Serial_fd` becomes 0, which is `/dev/null`, and the loop spins on it.  The
  readers do see "disconnected" (`LossNoticed`), and the exit handler then faults.
  If `close` fails, `Serial_fd` is -1: the daemon does reconnect, and faults where it
  writes to the segment `Check_Serial` detached.  `NoUseAfterDetach` says that this is
  the only way there (`unclosed`); testing for a descriptor above 0 would make the
  first failure another (`PollPositive`).
* A reader attached since an earlier run of the daemon can be inside the mutex
  when it is initialised.  It then unlocks for whoever came in since, and that one
  for the next: one process too many can be inside, not always the one that was
  caught, until nobody is (`caught` in `MutualExclusion` and `SnapshotWhole`).
* A reader that does not look at `port_connected` can take a pair of which
  `PMon_ClearSharedMemory` has cleared one value; `SnapshotWhole` is about a port
  that is marked connected, which the code takes back first.
* The mutex may never wake a process that slept on it, the daemon included.
* The main loop's own call of `UartBuffer_Interrupt` (`main.c:325`) can lose or
  swap characters, and can stop in `usart_getchar`, if the interrupt does fire in
  the middle of it (`raced` in `NothingLost` and `WaitsOnlyIfRaced`).
* `UartBuffer_PutChar`'s test for a full ring compares the wrong indices and does
  no harm, because every character is sent before the call returns.
* A stream of commands that never pauses keeps `Run_Config` from returning;
  `MainLoop` assumes a bound on the commands of a second (`MaxAsked`), which the
  daemon keeps with two queries a poll; nothing covers other senders.
* A signal during `syslog` leaves the daemon hung.
* A reader that calls `PMon_Connect` before the first daemon gets `NULL`, although
  the comment at `PMon_Lib.c:43` has it "possibly create" the segment: `shmget`
  has no `IPC_CREAT` (`Connect` in `PMonDaemon`).
* `pkill` does not wait, so the exit handler of a daemon on its way out can clear
  the connected flag of its successor, which sets it only once: readers see
  "disconnected" for as long as that one runs (`crossed` in `RunningIsTold`).
  `pkill` also matches the script itself when it runs as `PowerMonitor.sh`.
* A command left half typed, `calib pri` and a blank, is completed by the
  daemon's next query and sets the calibration to 0, as `atol` makes 0 of what is
  no number.  A line left open at another place does the same if somebody types on
  behind it.  `ZeroOnlyUnfinished` allows these cases and a loss, and no other.
* A write of several bytes across a page limit can be split by a reset there, since
  the cache hands pages over one by one (`SplitOnlyAtPageLimit`); the words of
  `conf_eeprom.h` lie in one page (`WordInOnePage` in `CalibrationProofs`).
* A calibration or offset of -1 reads like erased flash: it holds until the next
  restart, which brings the default back (`AnswerIsUsed`, `RestartKeeps`).
* With conversions longer than the range of the 8-bit tick counter, ticks are
  lost and the second grows; `FedUnlessTicksLost` says that this is the only way
  for a loop that goes on to be reset.
* A line of the unit without its end, the text `readBuf` holds uninitialised, or
  nearly a buffer's length of answers to unknown commands, which are newlines
  without a CR, can fill the buffer; the terminator then lands behind it and every
  further read asks for 0 bytes (`FullOnlyByFault`).
* After a watchdog reset a converter can still be selected.  `DataFlash_Init`
  deselects the flash, and `AD7787_Init` the converters, before the first flash
  command (`DFS_ReadChipID`); `OneSelected` rests on that order.

## Findings

`PMonScriptUsage`: the case label at `PowerMonitor.sh:27` reads `retart)`, so the
`restart` of the usage line (`PowerMonitor.sh:32`) neither stops nor starts a daemon.

## Proofs

`MainProofs` on `MainLoop`, for every threshold, width and waiting time, from
`LoopAssumption`: `TypeCorrect` by `LoopInv`, which adds to `TypeOK` that a divider
is below its threshold from its test to the next tick (`DividersTested`; without
it the dividers could run past their range); `TicksConservedHolds` from the same
invariant; and `FedUnlessTicksLost`, that a loop which loses no tick always feeds
the watchdog in time, a consequence of the two that assumes nothing about waits.
`NoTickLostHolds` and `FedInTimeHolds` assume `WaitsFit`: a round makes good more
than the flash takes of it (`Gain`), a second's rounds make good its conversions
and its answers (`Jump`), and both together fit `ms_counter`.  Their invariant
`KeepsUp` weighs what is behind against what of the second is done: `Behind` counts
the ticks waiting and the waits under way or owed, in parts of a tick, with the
rounds and counted ticks that pay for them.  Each counted tick lowers it by `Gain`,
a second's end raises it by at most `Jump`, and nothing else raises it but a round
without a tick, in which it is small anyway (`Low`).  The constants of the run
meet `WaitsFit`; whether a board does depends on its converters and flash.

`MainProofs` on `UnitCommands`, for every size of `MsgBuf` and any number of lines
and losses, from `CommandAssumption`:

* `AnswersMatchHolds`, by `AnswerInv`: `MsgBuf` holds what came behind the last end,
  as far as it fits (`Since`).  The lemmas about `Ends`, `Closes` and `Text` say what
  one more character does to the lines heard (`EndsNext`, `LineHeard`); `RunAsks`,
  that the handlers, which skip to the next word twice (`ArgumentProps`), answer what
  `Asks` reads off the line.
* `ZeroOnlyUnfinishedHolds`, by `ZeroInv` on top of it.  The property says nothing of
  what is still on its way, so the invariant does: as long as nobody stopped behind
  a blank and nothing was lost, each blank the unit is ahead of or has heard is
  followed by a channel or a number, and a channel by an end, a number, or a new
  daemon's `ver` and its CR (`Plain`, `Follows`); and where a line is open, the
  daemon has not sent its first command.  Writing keeps this (`PlainJoin`), and so
  does cutting off the front by a reset (`PlainParts`).

`PMonDaemonProofs`, for any number of readers, starts, lines and readings, from
`PMonAssumption` (of which it needs that the readers are finitely many and the daemon
is not one of them):

* `MutualExclusionHolds`, by `MutexInv`, which counts those inside: going in takes a
  word that is clear and sets it (`GoesIn`), leaving takes one away and clears it
  (`GoesOut`), whoever it was set for.  `MutualExclusion` alone is not inductive,
  since an unlock by a process that is not inside would let in one too many:
  `DaemonPlace` and `ReaderPlace` say where the code stands when it is inside and
  when it is not, also after a signal or a death inside.  Every action is first
  brought to one of seven kinds of step of the mutex (`DaemonMoves`,
  `ReaderMoves`), and the lemmas are about the kinds.
* `SnapshotWholeHolds`, by `SnapInv` on top of it: with nobody caught and the word
  set for one reader, that reader is alone (`UncaughtAlone`), and the daemon is not inside.
  `SnapshotWhole` speaks of a connected port only; a port that is connected while
  a reader is inside needs the same of the time before (`Steady`), and that the
  segment is detached, and not used again before the next start, whenever it has
  been cleared (`Cleared`).
* `ConnectedIsTrueHolds` and `NoUseAfterDetachHolds`, by `PortInv`.  What is missing
  in either property is where the mapping and the port are between the places it
  names: in the main loop the segment is mapped, or the descriptor is
  `/dev/null`, from which the code never gets back to `Connect_To_Port`, or `close`
  has failed.

`UartBufferProofs`, for every size of the rings and any number of characters, from
`UartAssumption`:

* `TypeCorrect`, by `TypeInv`.
* `WaitsOnlyIfRacedHolds`, by `RaceInv`: a handler inside the main loop's stretch from
  test to index is recorded in `raced`, and what the handler itself has tested
  nobody takes away.
* `SentInOrderHolds`, by `TxInv`: the transmit ring holds one character during
  `PutChar`'s own call of `UartBuffer_Interrupt`, and none anywhere else.
* `NothingLostHolds`, by `RxInv`, which names the two counts the 8-bit indices
  stand for, `Taken` and `Added`: they differ by less than the ring, the indices
  are their remainders, slot k of the ring holds character k + 1 between them,
  and a context that holds a character holds number `Added` + 1.  The lemmas of
  `Division` about going round a ring do the rest.

`CalibrationProofs`, for every width of a word, base of a byte, reading, number
typed and default, from `NumberAssumption` and the assumption of `Calibration`:
`Inv` says that the memory holds bytes, that RAM holds what the stored words say
and that the last answer is of such a word; `UsesStoredHolds`, `AnswerIsUsedHolds`,
`VoltsExactHolds` and `TypeCorrect` follow, and `RestartKeepsHolds` is the action
property.  The lemmas are about `EE_Read4` after `EE_Write4`, on the same word and
on another.  `PublishedExact` is about `PowerChannel` alone: no wrap, no sign and no
`long` changes a voltage that the words can hold.

`FlashBusProofs`, for every set of pages and offsets and every number of resets,
from `BusAssumption`:

* `AddressBytes`: for each of 8192 pages and 1024 offsets the three address bytes
  are bytes, and the flash reads page and offset back from them.
* `OneSelectedHolds`, by `PinInv`: which pins may be low in each stage of the
  start-up code (`BootOK`), between calls (`IdlePins`) and in one (`CallPins`).
* `FreshVoltsHolds`, by `ConvInv`: behind the wait for MISO (`Waited`) the
  converter of the frame's own channel has finished.
* `ImplementsPagesHolds`: `FairSpec => ImplementsPages`, by `BusInv`: the function
  running has sent the first bytes of its frame, and a command is begun only while
  the flash is idle (`Commanded`); what a reset left in the flash is too short to
  mean anything, or the first bytes of the frame of the call it cut off (`CutOff`).
  `FrameShape` says what a frame holds, `Executed` what the flash makes of its first
  bytes; `WholeFrame` and `BrokenFrame` turn that into an operation of `FlashPages`.
  `CallFlash` maps to `Ask`, the end of a call (`Release`) to `Do`, `DataFlashInit`
  after a cut-off call to `Spill`, `ChipDone` to `Settle`, `Reset` to `Reset`, the
  calls for the converters and the chip's identity to `Forget`; the rest stutters.
  It needs a token of at least one page.

`EECacheProofs`, for every number of slots, pages, offsets
and bytes, from `EEAssumption` (positive sizes, `Blank` a byte, `NoPage` not a page,
ages up to at least 2).

* `TypeCorrect`: `TypeOK`, with `PhaseOK`, which ties the phase of a call to its
  kind and to a chosen slot, as the inductive invariant.
* `NoAliasHolds`, `CoherentHolds`: from `CacheInvariant`.  `NoAlias` and
  `Coherent` are not inductive alone: while a dirty slot is replaced it holds
  one page under the tag of another.  `Evicting` and `Buffered` say what holds
  then (the wanted page is nowhere, the old content is in buffer 2, the chip is
  idle or the tag is no page), `Located` and `Saving` do the same for a byte
  access and for a write-back.
* `AgesDistinctHolds`, `VictimNotLatestHolds`: from `AgeInv`, which adds that
  the slot used last is the only one of age zero.
* `SplitOnlyAtPageLimitHolds`, an action property: while a write stands in a page, no
  step changes what a reset would leave of that page
  (`PageStandsStill`): the page the write wants is in no slot while another is
  evicted (`Evicting`), and a chip that programs it has it from before.
* `CacheImplementsStore`: `Spec => ImplementsStore`, by `CacheInvariant` in both
  states of a step.  `EvictProgram` and `CheckProgram` map to `Save` (or to a
  stutter for a slot that never held a page), `UseRead` to `Read`, the byte
  writes to `Write`, `ChipDone` to `Settle`, `Reset` to `Forget`, `PowerFail` to
  `Damage`; the rest stutters.  The lemmas `ViewMiss`, `ViewHit`, `ViewEvicted`
  say where the abstract value of a page is found.

`PMonProofs` on `PMonReceive`, for every size of the buffer, any number of lines and
faults and any initial text, from `ReceiveAssumption`:

* `InOrderHolds`, by `OrderInv`: the colons in `readBuf` and on the wire together are
  of voltage lines, in rising order, and later ones than any value handled.  Reading moves
  the limit between the two, a zero byte and `Parse` cut a piece out of them
  (`Without`, `OrderedWithout`), and a fault takes out or puts in one token.
* `NoneSkippedHolds` and `FullOnlyByFaultHolds`, by `SkipInv`.  Without a fault,
  `readBuf` and the wire are the rest of `text` behind the newline the parser left in
  front, or behind what `readBuf` held at first (`Left`), and the voltages before it were handled (`Consumed`); `TextInv` says what
  may stand next to what in a text the unit sends, which is what makes the first CR
  the end of the line the parser looks at.  `Full`: a full buffer the parser has
  left alone holds no CR.

The least element of a set of numbers exists by `LeastNumber` of `Division`, from the
library's theorem that finite subsets are well-founded; it gives `Min` its meaning and
stands in for induction where a proof needs a first place.

`PMonProofs` on `PMonScript`, for every set of daemons and any number of calls:

* `RunningIsToldHolds`, `FlagHasOwnerHolds`: from `FlagInv`, which adds to both that
  two daemons are alive only if one was started beside the other (`OneAlive`), since
  a daemon that ends or starts would else take the flag from another, and that
  signals are on their way only to daemons that were started (`Started`), since only
  those are ended by them.

Every invariant, action property and refinement the runs check has its theorem.
Only model-checked: the liveness properties (`WritesReachFlash`, `SignalEnds`,
`LossNoticed`, `LinesAreRead`, `CharsReachMain`, `RestartResets`, `CacheChecked`,
`TtyDrained`, `CallsReturn`, `RestartObeyed`), since fairness speaks of `ENABLED`,
which is outside the prover's reach.

## Not modelled

* The vendored Atmel framework and CMSIS, which are most of the lines under
  `src/`: about 39000 of the 42000 lines of code, against some 2900 of
  PowerMonitor itself.  What the firmware relies on of them appears as guards and
  as external actions (a register, a pin, the watchdog, the tick).
* Registers and settings of SPI, USART and termios; LEDs.
* Formatting of answers and log lines; `SysLog`.
* Schematics, build files, and the older copy of `DataFlash.c` outside the build.
* `PMon_Shared_Mem.current`, which never changes because the table entry "current"
  does not match the unit's "Current:" and the daemon does not ask for it.
* `install` and `uninstall` of the script.

## What is left

In the order of what it would add: an abstract line that the receive ring
implements, so that `UnitCommands` rests on `UartBuffer` by a theorem; daemons that
overlap inside `PMonDaemon` rather than in `PMonScript` alone; the board's modules
composed with the daemon over one serial line.
