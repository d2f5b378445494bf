------------------------------ MODULE EECache ------------------------------
(***************************************************************************)
(* The write-back page cache of eeprom.c in front of the AT45DB DataFlash  *)
(* driven by DataFlash.c, with the steps between two flash commands kept   *)
(* apart so that a reset or a loss of power can fall between them.         *)
(*                                                                         *)
(* An address is the pair <<addr >> 9, addr & 511>> that the code splits   *)
(* it into.  The EE_CachePage array is held as one function per field.     *)
(* Callers stay inside the token, as main.c does.                          *)
(***************************************************************************)
EXTENDS Naturals

CONSTANTS NumPages,   \* cache_pages of EE_Init: slots in the cache
          TokenSize,  \* DF_Token.Size: pages of flash behind it
          PageSize,   \* EE_PAGE_SIZE
          CountMax,   \* PAGE_COUNT_MAX, where ageing stops
          MaxWrite,   \* longest EE_Write, in bytes (bound)
          Byte,       \* values of a byte
          Blank,      \* 0xFF: erased flash, and what EE_Init fills RAM with
          NoPage,     \* 0xFFFF: the page number EE_Init leaves in a slot
          NoSlot      \* no slot used since EE_Init

Slot == 0 .. NumPages - 1
Page == 0 .. TokenSize - 1
Offset == 0 .. PageSize - 1
Content == [Offset -> Byte]
Loc == [page : Page, off : Offset]

ASSUME EEAssumption ==
  /\ NumPages \in Nat \ {0}
  /\ TokenSize \in Nat \ {0}
  /\ PageSize \in Nat \ {0}
  /\ CountMax \in Nat \ {0, 1}
  /\ MaxWrite \in Nat \ {0}
  /\ Blank \in Byte
  /\ NoPage \notin Page
  /\ NoSlot \notin Slot

VARIABLES
  page, dirty, count, buf,   \* ExtCache[], field by field
  kind,    \* the call in progress, "idle" between calls
  phase,   \* where it stands
  loc,     \* the byte it is about to access
  sofar,   \* bytes already written by the EE_Write in progress
  cur,     \* the slot ExtCache_Fill returned last, or is filling
  ret,     \* the byte EE_Read1 returned last
  main,    \* flash: main memory array
  buf2,    \* flash: SRAM buffer 2
  prog     \* flash: page being programmed from buf2, NoPage when ready

cacheVars == <<page, dirty, count, buf>>
callVars == <<kind, phase, loc, sofar, cur, ret>>
chipVars == <<main, buf2, prog>>
vars == <<cacheVars, callVars, chipVars>>

BlankPage == [o \in Offset |-> Blank]

(***************************************************************************)
(* EE_Init: memset(ExtCache, 0xFF): no page, dirty, and as old as can be.  *)
(***************************************************************************)
FreshSlots ==
  [page  |-> [s \in Slot |-> NoPage],
   dirty |-> [s \in Slot |-> 1],
   count |-> [s \in Slot |-> CountMax],
   buf   |-> [s \in Slot |-> BlankPage]]

Start == [page |-> 0, off |-> 0]

EE_Init ==
  /\ page' = FreshSlots.page /\ dirty' = FreshSlots.dirty
  /\ count' = FreshSlots.count /\ buf' = FreshSlots.buf
  /\ kind' = "idle" /\ phase' = "none"
  /\ loc' = Start /\ sofar' = 0
  /\ cur' = NoSlot

Init ==
  /\ page = FreshSlots.page /\ dirty = FreshSlots.dirty
  /\ count = FreshSlots.count /\ buf = FreshSlots.buf
  /\ kind = "idle" /\ phase = "none"
  /\ loc = Start /\ sofar = 0
  /\ cur = NoSlot
  /\ ret = Blank
  /\ main \in [Page -> Content]
  /\ buf2 = BlankPage
  /\ prog = NoPage

-----------------------------------------------------------------------------
(* DataFlash.c: every command waits for the ready bit, and one that names  *)
(* a page outside the token returns before it touches the chip.            *)

ChipReady == prog = NoPage

TokenCheck(p) == p \in Page

\* slip: buffer 2 is written without waiting for the chip
BufferWriteNoWait(s) ==
  buf2' = IF TokenCheck(page[s]) THEN buf[s] ELSE buf2

\* DFS_BufferWrite(tk, page[s], 0, EE_PAGE_SIZE, Buffer2, buf[s])
BufferWrite(s) ==
  /\ TokenCheck(page[s]) => ChipReady
  /\ buf2' = IF TokenCheck(page[s]) THEN buf[s] ELSE buf2

\* DFS_WriteBufferToFlash(tk, page[s], Buffer2)
WriteBufferToFlash(s) ==
  /\ TokenCheck(page[s]) => ChipReady
  /\ prog' = IF TokenCheck(page[s]) THEN page[s] ELSE prog

\* DFS_ReadPageDirect(tk, p, 0, EE_PAGE_SIZE, buf[s])
ReadPageDirect(s, p) ==
  /\ ChipReady
  /\ buf' = [buf EXCEPT ![s] = main[p]]

-----------------------------------------------------------------------------
(* ExtCache_Fill                                                           *)

\* slip: counts past the width of the field
AgedUnbounded(s) == count[s] + 1

Aged(s) == IF count[s] < CountMax THEN count[s] + 1 ELSE count[s]

AgeCache == [s \in Slot |-> Aged(s)]

\* The scan stops at the first slot that holds the page.
IsMatch(s, p) == page[s] = p /\ \A t \in 0 .. s - 1 : page[t] # p

\* slip: the scan ends one slot early
IsMissShort(p) == \A t \in 0 .. NumPages - 2 : page[t] # p

IsMiss(p) == \A t \in Slot : page[t] # p

\* "ptr->count > oldest->count": of the oldest slots, the first.
IsOldest(s) ==
  \A t \in Slot : /\ Aged(t) <= Aged(s)
                  /\ Aged(t) = Aged(s) => s <= t

\* slip: a hit does not make the slot young again
FillHitNoReset(s) ==
  /\ phase = "fill"
  /\ IsMatch(s, loc.page)
  /\ count' = AgeCache
  /\ cur' = s
  /\ phase' = "use"
  /\ UNCHANGED <<page, dirty, buf, kind, loc, sofar, ret, chipVars>>

FillHit(s) ==
  /\ phase = "fill"
  /\ IsMatch(s, loc.page)
  /\ count' = [AgeCache EXCEPT ![s] = 0]
  /\ cur' = s
  /\ phase' = "use"
  /\ UNCHANGED <<page, dirty, buf, kind, loc, sofar, ret, chipVars>>

FillClean(s) ==
  /\ phase = "fill"
  /\ IsMiss(loc.page) /\ IsOldest(s)
  /\ dirty[s] = 0
  /\ ReadPageDirect(s, loc.page)
  /\ page' = [page EXCEPT ![s] = loc.page]
  /\ count' = [AgeCache EXCEPT ![s] = 0]
  /\ cur' = s
  /\ phase' = "use"
  /\ UNCHANGED <<dirty, kind, loc, sofar, ret, chipVars>>

\* The oldest slot is dirty: its content goes to buffer 2 first, ...
EvictBuffer(s) ==
  /\ phase = "fill"
  /\ IsMiss(loc.page) /\ IsOldest(s)
  /\ dirty[s] # 0
  /\ BufferWrite(s)
  /\ count' = AgeCache
  /\ cur' = s
  /\ phase' = "load"
  /\ UNCHANGED <<page, dirty, buf, kind, loc, sofar, ret, main, prog>>

\* ... the wanted page is read over it, ...
EvictLoad ==
  /\ phase = "load"
  /\ ReadPageDirect(cur, loc.page)
  /\ phase' = "program"
  /\ UNCHANGED <<page, dirty, count, kind, loc, sofar, cur, ret, chipVars>>

\* ... and only then is buffer 2 programmed under the old page number.
EvictProgram ==
  /\ phase = "program"
  /\ WriteBufferToFlash(cur)
  /\ page' = [page EXCEPT ![cur] = loc.page]
  /\ count' = [count EXCEPT ![cur] = 0]
  /\ dirty' = [dirty EXCEPT ![cur] = 0]
  /\ phase' = "use"
  /\ UNCHANGED <<buf, kind, loc, sofar, cur, ret, main, buf2>>

-----------------------------------------------------------------------------
(* EE_Read1 and EE_Write1, and the calls made of them.  EE_Read2, EE_Read4 *)
(* and EE_Read are EE_Read1 calls in a row, in an order C leaves open: any *)
(* sequence of EE_Read1 calls covers them.  A write of several bytes is    *)
(* one call here, since no other call can start before it returns.         *)

BeginRead(l) ==
  /\ kind = "idle"
  /\ kind' = "read" /\ phase' = "fill"
  /\ loc' = l
  /\ UNCHANGED <<sofar, cur, ret, cacheVars, chipVars>>

BeginWrite(l) ==
  /\ kind = "idle"
  /\ kind' = "write" /\ phase' = "fill"
  /\ loc' = l /\ sofar' = 0
  /\ UNCHANGED <<cur, ret, cacheVars, chipVars>>

UseRead ==
  /\ phase = "use" /\ kind = "read"
  /\ ret' = buf[cur][loc.off]
  /\ kind' = "idle" /\ phase' = "none"
  /\ UNCHANGED <<loc, sofar, cur, cacheVars, chipVars>>

\* addr + 1
InToken(l) == l.off + 1 < PageSize \/ l.page + 1 < TokenSize
Succ(l) ==
  IF l.off + 1 < PageSize THEN [l EXCEPT !.off = @ + 1]
                          ELSE [page |-> l.page + 1, off |-> 0]

\* slip: the slot is not marked dirty
PutByteClean(b) ==
  /\ phase = "use" /\ kind = "write"
  /\ buf' = [buf EXCEPT ![cur][loc.off] = b]
  /\ sofar' = sofar + 1
  /\ UNCHANGED <<page, count, dirty, cur, ret, chipVars>>

\* A byte equal to the one in the cache does not make the slot dirty.
PutByte(b) ==
  /\ phase = "use" /\ kind = "write"
  /\ dirty' = IF buf[cur][loc.off] # b THEN [dirty EXCEPT ![cur] = 1] ELSE dirty
  /\ buf' = [buf EXCEPT ![cur][loc.off] = b]
  /\ sofar' = sofar + 1
  /\ UNCHANGED <<page, count, cur, ret, chipVars>>

UseWriteMore(b) ==
  /\ PutByte(b)
  /\ sofar + 1 < MaxWrite
  /\ InToken(loc)
  /\ loc' = Succ(loc)
  /\ phase' = "fill"
  /\ UNCHANGED kind

UseWriteLast(b) ==
  /\ PutByte(b)
  /\ kind' = "idle" /\ phase' = "none"
  /\ UNCHANGED loc

-----------------------------------------------------------------------------
(* EE_Cache_Check, called by the main loop every 10 ms, writes back the    *)
(* first dirty slot it meets and returns 1; EE_Cache_Flush repeats it      *)
(* until it returns 0.                                                     *)

\* slip: the scan for a dirty slot starts at the second one
FirstDirtyFromOne(s) ==
  s # 0 /\ dirty[s] # 0 /\ \A t \in 1 .. s - 1 : dirty[t] = 0

FirstDirty(s) == dirty[s] # 0 /\ \A t \in 0 .. s - 1 : dirty[t] = 0

AllClean == \A s \in Slot : dirty[s] = 0

BeginCheck ==
  /\ kind = "idle"
  /\ kind' \in {"check", "flush"}
  /\ phase' = "scan"
  /\ UNCHANGED <<loc, sofar, cur, ret, cacheVars, chipVars>>

CheckBuffer(s) ==
  /\ phase = "scan"
  /\ FirstDirty(s)
  /\ BufferWrite(s)
  /\ phase' = "save"
  /\ UNCHANGED <<kind, loc, sofar, cur, ret, cacheVars, main, prog>>

CheckProgram(s) ==
  /\ phase = "save"
  /\ FirstDirty(s)
  /\ WriteBufferToFlash(s)
  /\ dirty' = [dirty EXCEPT ![s] = 0]
  /\ \/ /\ kind = "check" /\ kind' = "idle" /\ phase' = "none"
     \/ /\ kind = "flush" /\ phase' = "scan" /\ UNCHANGED kind
  /\ UNCHANGED <<page, count, buf, loc, sofar, cur, ret, main, buf2>>

CheckNone ==
  /\ phase = "scan"
  /\ AllClean
  /\ kind' = "idle" /\ phase' = "none"
  /\ UNCHANGED <<loc, sofar, cur, ret, cacheVars, chipVars>>

-----------------------------------------------------------------------------
(* The chip finishes programming on its own, whatever the processor does.  *)
ChipDone ==
  /\ prog # NoPage
  /\ main' = [main EXCEPT ![prog] = buf2]
  /\ prog' = NoPage
  /\ UNCHANGED <<cacheVars, callVars, buf2>>

\* The watchdog resets the processor (not the chip), and main calls EE_Init.
Reset ==
  /\ EE_Init
  /\ UNCHANGED <<ret, chipVars>>

\* Power is lost: each byte of a page being programmed is the old one, the
\* new one, or erased; buffer 2 is volatile.
PowerFail ==
  /\ EE_Init
  /\ \/ ChipReady /\ main' = main
     \/ /\ ~ ChipReady
        /\ \E c \in Content :
             /\ \A o \in Offset : c[o] \in {main[prog][o], buf2[o], Blank}
             /\ main' = [main EXCEPT ![prog] = c]
  /\ buf2' = BlankPage
  /\ prog' = NoPage
  /\ UNCHANGED ret

Fill ==
  \/ \E s \in Slot : FillHit(s) \/ FillClean(s) \/ EvictBuffer(s)
  \/ EvictLoad
  \/ EvictProgram

Store == \E b \in Byte : UseWriteMore(b) \/ UseWriteLast(b)

Check ==
  \/ \E s \in Slot : CheckBuffer(s) \/ CheckProgram(s)
  \/ CheckNone

Next ==
  \/ \E l \in Loc : BeginRead(l) \/ BeginWrite(l)
  \/ Fill
  \/ UseRead
  \/ Store
  \/ BeginCheck
  \/ Check
  \/ ChipDone
  \/ Reset
  \/ PowerFail

Spec == Init /\ [][Next]_vars

(***************************************************************************)
(* A call runs to its end, the chip finishes, and the main loop comes back *)
(* to EE_Cache_Check between any other calls (main.c:329).                 *)
(***************************************************************************)
Fairness ==
  /\ WF_vars(Fill) /\ WF_vars(UseRead) /\ WF_vars(Store)
  /\ WF_vars(Check) /\ WF_vars(ChipDone)
  /\ SF_vars(BeginCheck)

FairSpec == Spec /\ Fairness

-----------------------------------------------------------------------------
(* The view a caller has of the memory, and what a reset would leave.      *)

FlashView(p) == IF prog = p THEN buf2 ELSE main[p]

SlotOf(p) == CHOOSE s \in Slot : page[s] = p

\* Between EvictLoad and EvictProgram the slot is still tagged with the old
\* page while its buffer holds the new one: the old content is in buffer 2.
View(p) ==
  IF IsMiss(p) THEN FlashView(p)
  ELSE IF phase = "program" /\ page[cur] = p THEN buf2
  ELSE buf[SlotOf(p)]

Abs == INSTANCE EEStore WITH
         val  <- [p \in Page |-> View(p)],
         kept <- [p \in Page |-> FlashView(p)],
         busy <- prog

\* The cache is invisible: a read returns the byte last written, whatever was
\* evicted or written back meanwhile, and a reset loses exactly the writes
\* whose page was not handed to the chip (ExtCache_Fill, EE_Cache_Check).
ImplementsStore == Abs!StoreSpec

\* Every variable keeps to its declared width and range.
TypeOK ==
  /\ page \in [Slot -> Page \cup {NoPage}]
  /\ dirty \in [Slot -> {0, 1}]
  /\ count \in [Slot -> 0 .. CountMax]
  /\ buf \in [Slot -> Content]
  /\ kind \in {"idle", "read", "write", "check", "flush"}
  /\ phase \in {"none", "fill", "load", "program", "use", "scan", "save"}
  /\ loc \in Loc
  /\ sofar \in 0 .. MaxWrite
  /\ cur \in Slot \cup {NoSlot}
  /\ ret \in Byte
  /\ main \in [Page -> Content]
  /\ buf2 \in Content
  /\ prog \in Page \cup {NoPage}

\* No page is ever in two slots, or one of them would hide the other's writes.
NoAlias ==
  \A s, t \in Slot : s # t /\ page[s] = page[t] => page[s] = NoPage

\* A slot that is not marked dirty holds what the flash holds or is being
\* given: nothing unsaved can be dropped by the "dirty == 0" path of a miss.
Coherent ==
  \A s \in Slot :
    page[s] \in Page /\ dirty[s] = 0 => buf[s] = FlashView(page[s])

\* "that way we can find the oldest" (eeprom.c:69): two slots have the same
\* age only once both have stopped ageing at PAGE_COUNT_MAX.
AgesDistinct ==
  \A s, t \in Slot : s # t /\ count[s] = count[t] => count[s] = CountMax

\* A miss never recycles the slot that the access before it used, however the
\* ages stand, as long as there is another slot.
VictimNotLatest ==
  [][phase = "fill" /\ phase' \in {"use", "load"} /\ IsMiss(loc.page)
       /\ NumPages > 1 => cur' # cur]_vars

\* A reset splits a write of several bytes at a page limit only (EE_Write4 gives
\* its word away in four byte writes): while the call stands in a page nothing,
\* an eviction or the chip still programming that very page included, changes
\* what a reset would leave of it, so it leaves all of the call's bytes there or
\* none.  A page the call has gone on from may be handed over with its share.
SplitOnlyAtPageLimit ==
  [][kind = "write" /\ kind' = "write" /\ loc'.page = loc.page
       => FlashView(loc.page)' = FlashView(loc.page)]_vars

\* Once calls stop writing and the processor stays up, the periodic
\* EE_Cache_Check brings every slot to flash and the cache stays clean.
WritesReachFlash ==
  []<><<Store \/ Reset \/ PowerFail>>_vars \/ <>[]AllClean
=============================================================================
