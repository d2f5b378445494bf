--------------------------- MODULE EECacheProofs ---------------------------
(* Proofs about EECache, for every number of slots, pages and bytes.       *)
EXTENDS EECache, TLAPS

(***************************************************************************)
(* What ties the phase of a call to the cache and the chip.                *)
(***************************************************************************)

\* A slot is chosen while ExtCache_Fill works on it and until it is used,
\* and calls and phases go together.
PhaseOK ==
  /\ phase \in {"load", "program", "use"} => cur \in Slot
  /\ phase \in {"fill", "load", "program", "use"} <=> kind \in {"read", "write"}
  /\ phase \in {"scan", "save"} <=> kind \in {"check", "flush"}
  /\ kind = "write" => sofar < MaxWrite

\* The byte is accessed in the slot that holds its page.
Located == phase = "use" => page[cur] = loc.page

\* While a dirty slot is being replaced the wanted page is in no slot, ...
Evicting ==
  phase \in {"load", "program"} => IsMiss(loc.page) /\ dirty[cur] = 1

\* ... its old content is in buffer 2, which nothing else writes, and after
\* the load its buffer is what the flash holds of the wanted page.
Buffered ==
  /\ phase = "load" /\ page[cur] \in Page =>
       prog = NoPage /\ buf2 = buf[cur]
  /\ phase = "program" => prog = NoPage /\ buf[cur] = main[loc.page]

\* Between the two commands of EE_Cache_Check buffer 2 holds the dirty slot.
Saving ==
  phase = "save" =>
    \A s \in Slot : FirstDirty(s) /\ page[s] \in Page =>
                      prog = NoPage /\ buf2 = buf[s]

\* The slot being replaced does not count for Coherent: it is dirty.
IInv ==
  /\ TypeOK /\ PhaseOK /\ Located /\ Evicting
  /\ Buffered /\ Saving /\ NoAlias /\ Coherent

\* Ages are distinct and, outside an eviction, the slot used last is the only
\* one of age zero; during one every slot has just been aged.
AgeInv ==
  /\ AgesDistinct
  /\ phase \in {"load", "program"} => \A s \in Slot : count[s] > 0
  /\ cur \in Slot =>
       /\ phase \notin {"load", "program"} => count[cur] = 0
       /\ \A s \in Slot : s # cur => count[s] > 0
  /\ cur \notin Slot => \A s \in Slot : count[s] = CountMax

-----------------------------------------------------------------------------
(* Operators                                                               *)

\* One more EE_Write1 address stays within the token.
LEMMA SuccInToken ==
  ASSUME NEW l \in Loc, InToken(l)
  PROVE  Succ(l) \in Loc
BY EEAssumption DEF InToken, Succ, Loc, Page, Offset

\* Ageing keeps the ages in range, never to zero, and does not merge two
\* ages below the limit (Age_Cache).
LEMMA AgeCacheType ==
  ASSUME count \in [Slot -> 0 .. CountMax]
  PROVE  /\ AgeCache \in [Slot -> 0 .. CountMax]
         /\ \A s \in Slot : AgeCache[s] > 0
         /\ AgesDistinct =>
              \A s, t \in Slot : s # t /\ AgeCache[s] = AgeCache[t] =>
                                   AgeCache[s] = CountMax
BY EEAssumption DEF AgeCache, Aged, AgesDistinct

\* A blank page is a page.
LEMMA BlankPageType == BlankPage \in Content
BY EEAssumption DEF BlankPage, Content

\* EE_Init leaves a cache that holds nothing.
LEMMA FreshSlotsType ==
  /\ FreshSlots.page \in [Slot -> Page \cup {NoPage}]
  /\ FreshSlots.dirty \in [Slot -> {0, 1}]
  /\ FreshSlots.count \in [Slot -> 0 .. CountMax]
  /\ FreshSlots.buf \in [Slot -> Content]
  /\ \A s \in Slot : FreshSlots.page[s] = NoPage
  /\ \A s \in Slot : FreshSlots.dirty[s] = 1
  /\ \A s \in Slot : FreshSlots.count[s] = CountMax
  /\ Start \in Loc
BY EEAssumption, BlankPageType DEF FreshSlots, Start, Loc, Page, Offset

-----------------------------------------------------------------------------
(* Types and phases                                                        *)

LEMMA TypeInit == Init => TypeOK /\ PhaseOK
BY EEAssumption, FreshSlotsType, BlankPageType DEF Init, TypeOK, PhaseOK

LEMMA TypeStep == TypeOK /\ PhaseOK /\ [Next]_vars => TypeOK' /\ PhaseOK'
<1> SUFFICES ASSUME TypeOK, PhaseOK, [Next]_vars
             PROVE  TypeOK' /\ PhaseOK'
  OBVIOUS
<1> USE EEAssumption DEF TypeOK, PhaseOK, cacheVars, chipVars, callVars
<1>1. ASSUME NEW l \in Loc, BeginRead(l) \/ BeginWrite(l)
      PROVE  TypeOK' /\ PhaseOK'
  BY <1>1 DEF BeginRead, BeginWrite
<1>2. ASSUME NEW s \in Slot, FillHit(s)
      PROVE  TypeOK' /\ PhaseOK'
  BY <1>2, AgeCacheType DEF FillHit
<1>3. ASSUME NEW s \in Slot, FillClean(s)
      PROVE  TypeOK' /\ PhaseOK'
  BY <1>3, AgeCacheType DEF FillClean, ReadPageDirect, Loc
<1>4. ASSUME NEW s \in Slot, EvictBuffer(s)
      PROVE  TypeOK' /\ PhaseOK'
  BY <1>4, AgeCacheType DEF EvictBuffer, BufferWrite
<1>5. ASSUME EvictLoad
      PROVE  TypeOK' /\ PhaseOK'
  BY <1>5 DEF EvictLoad, ReadPageDirect, Loc
<1>6. ASSUME EvictProgram
      PROVE  TypeOK' /\ PhaseOK'
  BY <1>6 DEF EvictProgram, WriteBufferToFlash, TokenCheck, Loc
<1>7. ASSUME UseRead
      PROVE  TypeOK' /\ PhaseOK'
  BY <1>7 DEF UseRead, Loc, Content
<1>8. ASSUME NEW b \in Byte, UseWriteMore(b)
      PROVE  TypeOK' /\ PhaseOK'
  BY <1>8, SuccInToken DEF UseWriteMore, PutByte, Loc, Content
<1>9. ASSUME NEW b \in Byte, UseWriteLast(b)
      PROVE  TypeOK' /\ PhaseOK'
  BY <1>9 DEF UseWriteLast, PutByte, Loc, Content
<1>10. ASSUME BeginCheck
       PROVE  TypeOK' /\ PhaseOK'
  BY <1>10 DEF BeginCheck
<1>11. ASSUME NEW s \in Slot, CheckBuffer(s)
       PROVE  TypeOK' /\ PhaseOK'
  BY <1>11 DEF CheckBuffer, BufferWrite
<1>12. ASSUME NEW s \in Slot, CheckProgram(s)
       PROVE  TypeOK' /\ PhaseOK'
  BY <1>12 DEF CheckProgram, WriteBufferToFlash, TokenCheck
<1>13. ASSUME CheckNone
       PROVE  TypeOK' /\ PhaseOK'
  BY <1>13 DEF CheckNone
<1>14. ASSUME ChipDone
       PROVE  TypeOK' /\ PhaseOK'
  BY <1>14 DEF ChipDone
<1>15. ASSUME Reset
       PROVE  TypeOK' /\ PhaseOK'
  BY <1>15, FreshSlotsType DEF Reset, EE_Init
<1>16. ASSUME PowerFail
       PROVE  TypeOK' /\ PhaseOK'
  BY <1>16, FreshSlotsType, BlankPageType DEF PowerFail, EE_Init, ChipReady
<1>17. CASE UNCHANGED vars
  BY <1>17 DEF vars
<1> QED
  BY <1>1, <1>2, <1>3, <1>4, <1>5, <1>6, <1>7, <1>8, <1>9, <1>10, <1>11,
     <1>12, <1>13, <1>14, <1>15, <1>16, <1>17 DEF Next, Fill, Store, Check

\* Every field of the cache and of the flash keeps to its width, whatever the
\* number of slots, pages and bytes.
THEOREM TypeCorrect == Spec => []TypeOK
<1>1. TypeOK /\ PhaseOK /\ [Next]_vars => (TypeOK /\ PhaseOK)'
  BY TypeStep
<1> QED
  BY TypeInit, <1>1, PTL DEF Spec

-----------------------------------------------------------------------------
(* The cache and the flash agree                                           *)

CoreInv == Located /\ Evicting /\ Buffered /\ Saving /\ NoAlias /\ Coherent

LEMMA CoreInit == Init => CoreInv
BY EEAssumption, FreshSlotsType
   DEF Init, CoreInv, Located, Evicting, Buffered, Saving, NoAlias, Coherent

\* A reset or a loss of power leaves a cache that holds no page.
LEMMA CoreFresh ==
  ASSUME EE_Init
  PROVE  CoreInv'
BY EEAssumption, FreshSlotsType
   DEF EE_Init, CoreInv, Located, Evicting, Buffered, Saving, NoAlias, Coherent

\* At most one slot is the first dirty one.
LEMMA FirstDirtyUnique ==
  ASSUME NEW s \in Slot, NEW t \in Slot, FirstDirty(s), FirstDirty(t)
  PROVE  s = t
BY EEAssumption DEF FirstDirty, Slot

\* A byte put into the slot keeps the slots and the flash in agreement: only a
\* byte equal to the one there leaves a clean slot clean (EE_Write1).
LEMMA PutByteStep ==
  ASSUME TypeOK, PhaseOK, CoreInv, NEW b \in Byte, PutByte(b),
         phase' \in {"fill", "none"}
  PROVE  CoreInv'
<1> USE EEAssumption DEF TypeOK, PhaseOK, CoreInv, PutByte, chipVars
<1>1. cur \in Slot /\ loc.off \in Offset
  BY DEF Loc
<1>2. Located' /\ Evicting' /\ Buffered' /\ Saving'
  BY DEF Located, Evicting, Buffered, Saving
<1>3. NoAlias'
  BY DEF NoAlias
<1>4. ASSUME NEW s \in Slot, page'[s] \in Page, dirty'[s] = 0
      PROVE  buf'[s] = FlashView(page[s])
  <2>1. dirty[s] = 0 /\ (s = cur => buf[cur][loc.off] = b)
    BY <1>1, <1>4
  <2>2. buf'[s] = buf[s]
    BY <1>1, <2>1 DEF Content
  <2> QED
    BY <1>4, <2>1, <2>2 DEF Coherent
<1>5. Coherent'
  BY <1>4 DEF Coherent, FlashView
<1> QED
  BY <1>2, <1>3, <1>5

LEMMA CoreStep ==
  TypeOK /\ PhaseOK /\ CoreInv /\ [Next]_vars => CoreInv'
<1> SUFFICES ASSUME TypeOK, PhaseOK, CoreInv, [Next]_vars
             PROVE  CoreInv'
  OBVIOUS
<1> USE EEAssumption DEF TypeOK, PhaseOK, CoreInv, cacheVars, chipVars, callVars
<1>1. ASSUME NEW l \in Loc, BeginRead(l) \/ BeginWrite(l)
      PROVE  CoreInv'
  BY <1>1 DEF BeginRead, BeginWrite, Located, Evicting, Buffered, Saving,
     NoAlias, Coherent, FlashView, IsMiss, FirstDirty
<1>2. ASSUME NEW s \in Slot, FillHit(s)
      PROVE  CoreInv'
  BY <1>2 DEF FillHit, IsMatch, Located, Evicting, Buffered, Saving,
     NoAlias, Coherent, FlashView, IsMiss, FirstDirty
<1>3. ASSUME NEW s \in Slot, FillClean(s)
      PROVE  CoreInv'
  <2>1. Located'
    BY <1>3 DEF FillClean, ReadPageDirect, ChipReady, Located
  <2>2. Evicting'
    BY <1>3 DEF FillClean, ReadPageDirect, ChipReady, Evicting, IsMiss
  <2>3. Buffered'
    BY <1>3 DEF FillClean, ReadPageDirect, ChipReady, Buffered, Located, Evicting, IsMiss
  <2>4. Saving'
    BY <1>3 DEF FillClean, ReadPageDirect, ChipReady, Saving, FirstDirty
  <2>5. NoAlias'
    BY <1>3 DEF FillClean, ReadPageDirect, ChipReady, NoAlias, Evicting, IsMiss, Located
  <2>6. Coherent'
    BY <1>3 DEF FillClean, ReadPageDirect, ChipReady, Coherent, FlashView, Buffered, Evicting, Located, Saving, NoAlias, IsMiss, FirstDirty
  <2> QED
    BY <2>1, <2>2, <2>3, <2>4, <2>5, <2>6
<1>4. ASSUME NEW s \in Slot, EvictBuffer(s)
      PROVE  CoreInv'
  <2>1. Located'
    BY <1>4 DEF EvictBuffer, BufferWrite, TokenCheck, ChipReady, Located
  <2>2. Evicting'
    BY <1>4 DEF EvictBuffer, BufferWrite, TokenCheck, ChipReady, Evicting, IsMiss
  <2>3. Buffered'
    BY <1>4 DEF EvictBuffer, BufferWrite, TokenCheck, ChipReady, Buffered, Located, Evicting, IsMiss
  <2>4. Saving'
    BY <1>4 DEF EvictBuffer, BufferWrite, TokenCheck, ChipReady, Saving, FirstDirty
  <2>5. NoAlias'
    BY <1>4 DEF EvictBuffer, BufferWrite, TokenCheck, ChipReady, NoAlias, Evicting, IsMiss, Located
  <2>6. Coherent'
    BY <1>4 DEF EvictBuffer, BufferWrite, TokenCheck, ChipReady, Coherent, FlashView, Buffered, Evicting, Located, Saving, NoAlias, IsMiss, FirstDirty
  <2> QED
    BY <2>1, <2>2, <2>3, <2>4, <2>5, <2>6
<1>5. ASSUME EvictLoad
      PROVE  CoreInv'
  <2>1. Located'
    BY <1>5 DEF EvictLoad, ReadPageDirect, ChipReady, Located
  <2>2. Evicting'
    BY <1>5 DEF EvictLoad, ReadPageDirect, ChipReady, Evicting, IsMiss
  <2>3. Buffered'
    BY <1>5 DEF EvictLoad, ReadPageDirect, ChipReady, Buffered, Located, Evicting, IsMiss
  <2>4. Saving'
    BY <1>5 DEF EvictLoad, ReadPageDirect, ChipReady, Saving, FirstDirty
  <2>5. NoAlias'
    BY <1>5 DEF EvictLoad, ReadPageDirect, ChipReady, NoAlias, Evicting, IsMiss, Located
  <2>6. Coherent'
    BY <1>5 DEF EvictLoad, ReadPageDirect, ChipReady, Coherent, FlashView, Buffered, Evicting, Located, Saving, NoAlias, IsMiss, FirstDirty
  <2> QED
    BY <2>1, <2>2, <2>3, <2>4, <2>5, <2>6
<1>6. ASSUME EvictProgram
      PROVE  CoreInv'
  <2>1. Located'
    BY <1>6 DEF EvictProgram, WriteBufferToFlash, TokenCheck, ChipReady, Located
  <2>2. Evicting'
    BY <1>6 DEF EvictProgram, WriteBufferToFlash, TokenCheck, ChipReady, Evicting, IsMiss
  <2>3. Buffered'
    BY <1>6 DEF EvictProgram, WriteBufferToFlash, TokenCheck, ChipReady, Buffered, Located, Evicting, IsMiss
  <2>4. Saving'
    BY <1>6 DEF EvictProgram, WriteBufferToFlash, TokenCheck, ChipReady, Saving, FirstDirty
  <2>5. NoAlias'
    BY <1>6 DEF EvictProgram, WriteBufferToFlash, TokenCheck, ChipReady, NoAlias, Evicting, IsMiss, Located
  <2>6. Coherent'
    BY <1>6 DEF EvictProgram, WriteBufferToFlash, TokenCheck, ChipReady, Coherent, FlashView, Buffered, Evicting, Located, Saving, NoAlias, IsMiss, FirstDirty
  <2> QED
    BY <2>1, <2>2, <2>3, <2>4, <2>5, <2>6
<1>7. ASSUME UseRead
      PROVE  CoreInv'
  BY <1>7 DEF UseRead, Located, Evicting, Buffered, Saving,
     NoAlias, Coherent, FlashView, IsMiss, FirstDirty
<1>8. ASSUME NEW b \in Byte, UseWriteMore(b) \/ UseWriteLast(b)
      PROVE  CoreInv'
  BY <1>8, PutByteStep DEF UseWriteMore, UseWriteLast
<1>9. ASSUME BeginCheck
       PROVE  CoreInv'
  BY <1>9 DEF BeginCheck, Located, Evicting, Buffered, Saving,
     NoAlias, Coherent, FlashView, IsMiss, FirstDirty
<1>10. ASSUME NEW s \in Slot, CheckBuffer(s)
       PROVE  CoreInv'
  <2>1. Located'
    BY <1>10 DEF CheckBuffer, BufferWrite, TokenCheck, ChipReady, Located
  <2>2. Evicting'
    BY <1>10 DEF CheckBuffer, BufferWrite, TokenCheck, ChipReady, Evicting, IsMiss
  <2>3. Buffered'
    BY <1>10 DEF CheckBuffer, BufferWrite, TokenCheck, ChipReady, Buffered, Located, Evicting, IsMiss
  <2>4. Saving'
    <3>1. ASSUME NEW t \in Slot, FirstDirty(t)' PROVE t = s
      BY <1>10, <3>1, FirstDirtyUnique DEF CheckBuffer, FirstDirty
    <3> QED
      BY <1>10, <3>1 DEF CheckBuffer, BufferWrite, TokenCheck, ChipReady, Saving
  <2>5. NoAlias'
    BY <1>10 DEF CheckBuffer, BufferWrite, TokenCheck, ChipReady, NoAlias, Evicting, IsMiss, Located
  <2>6. Coherent'
    BY <1>10 DEF CheckBuffer, BufferWrite, TokenCheck, ChipReady, Coherent, FlashView, Buffered, Evicting, Located, Saving, NoAlias, IsMiss, FirstDirty
  <2> QED
    BY <2>1, <2>2, <2>3, <2>4, <2>5, <2>6
<1>11. ASSUME NEW s \in Slot, CheckProgram(s)
       PROVE  CoreInv'
  <2>1. Located'
    BY <1>11 DEF CheckProgram, WriteBufferToFlash, TokenCheck, ChipReady, Located
  <2>2. Evicting'
    BY <1>11 DEF CheckProgram, WriteBufferToFlash, TokenCheck, ChipReady, Evicting, IsMiss
  <2>3. Buffered'
    BY <1>11 DEF CheckProgram, WriteBufferToFlash, TokenCheck, ChipReady, Buffered, Located, Evicting, IsMiss
  <2>4. Saving'
    BY <1>11 DEF CheckProgram, WriteBufferToFlash, TokenCheck, ChipReady, Saving, FirstDirty
  <2>5. NoAlias'
    BY <1>11 DEF CheckProgram, WriteBufferToFlash, TokenCheck, ChipReady, NoAlias, Evicting, IsMiss, Located
  <2>6. Coherent'
    BY <1>11 DEF CheckProgram, WriteBufferToFlash, TokenCheck, ChipReady, Coherent, FlashView, Buffered, Evicting, Located, Saving, NoAlias, IsMiss, FirstDirty
  <2> QED
    BY <2>1, <2>2, <2>3, <2>4, <2>5, <2>6
<1>12. ASSUME CheckNone
       PROVE  CoreInv'
  BY <1>12 DEF CheckNone, Located, Evicting, Buffered, Saving,
     NoAlias, Coherent, FlashView, IsMiss, FirstDirty
<1>13. ASSUME ChipDone
       PROVE  CoreInv'
  <2>1. Located'
    BY <1>13 DEF ChipDone, Located
  <2>2. Evicting'
    BY <1>13 DEF ChipDone, Evicting, IsMiss
  <2>3. Buffered'
    BY <1>13 DEF ChipDone, Buffered, Located, Evicting, IsMiss
  <2>4. Saving'
    BY <1>13 DEF ChipDone, Saving, FirstDirty
  <2>5. NoAlias'
    BY <1>13 DEF ChipDone, NoAlias, Evicting, IsMiss, Located
  <2>6. Coherent'
    BY <1>13 DEF ChipDone, Coherent, FlashView, Buffered, Evicting, Located, Saving, NoAlias, IsMiss, FirstDirty
  <2> QED
    BY <2>1, <2>2, <2>3, <2>4, <2>5, <2>6
<1>14. ASSUME Reset \/ PowerFail
       PROVE  CoreInv'
  BY <1>14, CoreFresh DEF Reset, PowerFail
<1>15. CASE UNCHANGED vars
  BY <1>15 DEF vars, Located, Evicting, Buffered, Saving,
     NoAlias, Coherent, FlashView, IsMiss, FirstDirty
<1> QED
  BY <1>1, <1>2, <1>3, <1>4, <1>5, <1>6, <1>7, <1>8, <1>9, <1>10, <1>11, <1>12, <1>13, <1>14, <1>15
     DEF Next, Fill, Store, Check

\* The inductive invariant of EECache.
THEOREM CacheInvariant == Spec => []IInv
<1>1. Init => TypeOK /\ PhaseOK /\ CoreInv
  BY TypeInit, CoreInit
<1>2. TypeOK /\ PhaseOK /\ CoreInv /\ [Next]_vars => (TypeOK /\ PhaseOK /\ CoreInv)'
  BY TypeStep, CoreStep
<1>3. TypeOK /\ PhaseOK /\ CoreInv <=> IInv
  BY DEF IInv, CoreInv
<1> QED
  BY <1>1, <1>2, <1>3, PTL DEF Spec

\* No page is in two slots at once (ExtCache_Fill searches before it loads).
THEOREM NoAliasHolds == Spec => []NoAlias
BY CacheInvariant, PTL DEF IInv

\* A clean slot agrees with the flash (a miss may drop it unsaved).
THEOREM CoherentHolds == Spec => []Coherent
BY CacheInvariant, PTL DEF IInv

\* What a reset leaves of a page changes under an EE_Write that stands in it
\* neither by an eviction, which gives away another page and writes buffer 2 only
\* once the chip is ready, nor by the chip.
LEMMA PageStandsStill ==
  ASSUME IInv, [Next]_vars, kind = "write", kind' = "write", loc'.page = loc.page
  PROVE  FlashView(loc.page)' = FlashView(loc.page)
<1> USE EEAssumption DEF IInv, TypeOK, PhaseOK, FlashView, chipVars
<1>0. loc.page \in Page /\ loc.page # NoPage
  BY DEF Loc
<1>1. CASE \E s \in Slot : EvictBuffer(s)
  <2>1. PICK s \in Slot : EvictBuffer(s)
    BY <1>1
  <2>2. prog' = prog /\ main' = main /\ (buf2' = buf2 \/ prog = NoPage)
    BY <2>1 DEF EvictBuffer, BufferWrite, ChipReady
  <2> QED
    BY <1>0, <2>2
<1>2. CASE EvictProgram
  <2>1. page[cur] # loc.page
    BY <1>2 DEF EvictProgram, Evicting, IsMiss
  <2>2. /\ buf2' = buf2 /\ main' = main
        /\ prog' = IF page[cur] \in Page THEN page[cur] ELSE prog
        /\ prog = NoPage
    BY <1>2 DEF EvictProgram, WriteBufferToFlash, TokenCheck, Buffered
  <2> QED
    BY <1>0, <2>1, <2>2
<1>3. CASE \/ \E s \in Slot : FillHit(s) \/ FillClean(s)
           \/ EvictLoad \/ Store
  BY <1>3 DEF FillHit, FillClean, EvictLoad, Store, UseWriteMore, UseWriteLast, PutByte
<1>4. CASE ChipDone
  BY <1>0, <1>4 DEF ChipDone
<1>5. CASE Check
  BY <1>5 DEF Check, CheckBuffer, CheckProgram, CheckNone
<1>6. CASE \/ \E l \in Loc : BeginRead(l) \/ BeginWrite(l)
           \/ UseRead \/ BeginCheck \/ Reset \/ PowerFail \/ UNCHANGED vars
  BY <1>6 DEF BeginRead, BeginWrite, UseRead, BeginCheck, Reset, PowerFail, EE_Init, vars
<1> QED
  BY <1>1, <1>2, <1>3, <1>4, <1>5, <1>6 DEF Next, Fill

\* A write of several bytes reaches the flash whole as far as it lies in a page:
\* a reset at any point finds all of its bytes in a page or none.
THEOREM SplitOnlyAtPageLimitHolds == Spec => SplitOnlyAtPageLimit
<1>1. IInv /\ [Next]_vars =>
        [kind = "write" /\ kind' = "write" /\ loc'.page = loc.page
           => FlashView(loc.page)' = FlashView(loc.page)]_vars
  BY PageStandsStill
<1> QED
  BY <1>1, CacheInvariant, PTL DEF Spec, SplitOnlyAtPageLimit

-----------------------------------------------------------------------------
(* Ages                                                                    *)

LEMMA AgeStep == TypeOK /\ PhaseOK /\ AgeInv /\ [Next]_vars => AgeInv'
<1> SUFFICES ASSUME TypeOK, PhaseOK, AgeInv, [Next]_vars
             PROVE  AgeInv'
  OBVIOUS
<1> USE EEAssumption
    DEF TypeOK, PhaseOK, AgeInv, AgesDistinct, cacheVars, chipVars, callVars
<1>1. ASSUME NEW s \in Slot, FillHit(s) \/ FillClean(s) \/ EvictBuffer(s)
      PROVE  AgeInv'
  BY <1>1, AgeCacheType DEF FillHit, FillClean, EvictBuffer
<1>2. CASE EvictProgram
  BY <1>2 DEF EvictProgram
<1>3. CASE Reset \/ PowerFail
  BY <1>3, FreshSlotsType DEF Reset, PowerFail, EE_Init
<1>4. CASE EvictLoad
  BY <1>4 DEF EvictLoad
<1>5. ASSUME NEW l \in Loc, BeginRead(l) \/ BeginWrite(l)
      PROVE  AgeInv'
  BY <1>5 DEF BeginRead, BeginWrite
<1>6. CASE UseRead \/ BeginCheck \/ CheckNone \/ ChipDone
  BY <1>6 DEF UseRead, BeginCheck, CheckNone, ChipDone
<1>7. ASSUME NEW b \in Byte, UseWriteMore(b) \/ UseWriteLast(b)
      PROVE  AgeInv'
  BY <1>7 DEF UseWriteMore, UseWriteLast, PutByte
<1>8. ASSUME NEW s \in Slot, CheckBuffer(s) \/ CheckProgram(s)
      PROVE  AgeInv'
  BY <1>8 DEF CheckBuffer, CheckProgram
<1>9. CASE UNCHANGED vars
  BY <1>9 DEF vars
<1> QED
  BY <1>1, <1>2, <1>3, <1>4, <1>5, <1>6, <1>7, <1>8, <1>9
     DEF Next, Fill, Store, Check

LEMMA AgeInvariant == Spec => [](TypeOK /\ PhaseOK /\ AgeInv)
<1>1. Init => AgeInv
  BY EEAssumption, FreshSlotsType DEF Init, AgeInv, AgesDistinct
<1>2. TypeOK /\ PhaseOK /\ AgeInv /\ [Next]_vars => (TypeOK /\ PhaseOK /\ AgeInv)'
  BY TypeStep, AgeStep
<1> QED
  BY TypeInit, <1>1, <1>2, PTL DEF Spec

\* Ages order the slots by their last use until they stop at PAGE_COUNT_MAX.
THEOREM AgesDistinctHolds == Spec => []AgesDistinct
BY AgeInvariant, PTL DEF AgeInv

\* The slot used last is not the oldest one after Age_Cache, if there is
\* another slot.
LEMMA LatestNotOldest ==
  ASSUME TypeOK, AgeInv, NumPages > 1, cur \in Slot,
         phase \notin {"load", "program"}
  PROVE  ~ IsOldest(cur)
<1>1. PICK t \in Slot : t # cur
  BY EEAssumption DEF Slot
<1>2. Aged(cur) = 1 /\ Aged(t) \in Nat /\ Aged(t) > 1
  BY <1>1, EEAssumption DEF TypeOK, AgeInv, Aged
<1> QED
  BY <1>1, <1>2 DEF IsOldest

\* A miss never takes the slot of the access before it.
THEOREM VictimNotLatestHolds == Spec => VictimNotLatest
<1>1. ASSUME TypeOK, PhaseOK, AgeInv, [Next]_vars,
             phase = "fill", phase' \in {"use", "load"},
             IsMiss(loc.page), NumPages > 1
      PROVE  cur' # cur
  <2>1. PICK s \in Slot : FillHit(s) \/ FillClean(s) \/ EvictBuffer(s)
    <3>1. ~ UNCHANGED vars
      BY <1>1 DEF vars, callVars
    <3>2. ~ (EvictLoad \/ EvictProgram \/ UseRead \/ Store \/ BeginCheck \/ Check)
      BY <1>1 DEF EvictLoad, EvictProgram, UseRead, Store, UseWriteMore,
         UseWriteLast, PutByte, BeginCheck, Check, CheckBuffer, CheckProgram,
         CheckNone, PhaseOK
    <3>3. ~ (ChipDone \/ Reset \/ PowerFail)
      BY <1>1 DEF ChipDone, callVars, Reset, PowerFail, EE_Init
    <3>4. \A l \in Loc : ~ BeginRead(l) /\ ~ BeginWrite(l)
      BY <1>1 DEF BeginRead, BeginWrite, PhaseOK
    <3> QED
      BY <1>1, <3>1, <3>2, <3>3, <3>4 DEF Next, Fill
  <2>2. ~ FillHit(s)
    BY <1>1 DEF FillHit, IsMatch, IsMiss
  <2>3. cur' = s /\ IsOldest(s)
    BY <2>1, <2>2 DEF FillClean, EvictBuffer
  <2> QED
    BY <1>1, <2>3, LatestNotOldest
<1>2. TypeOK /\ PhaseOK /\ AgeInv /\ [Next]_vars =>
        [phase = "fill" /\ phase' \in {"use", "load"} /\ IsMiss(loc.page)
           /\ NumPages > 1 => cur' # cur]_vars
  BY <1>1
<1> QED
  BY <1>2, AgeInvariant, PTL DEF Spec, VictimNotLatest

(***************************************************************************)
(* EECache implements EEStore.                                             *)
(***************************************************************************)

(* What a caller sees, by the slot that holds the page                     *)

\* A page in no slot is seen as the flash has it.
LEMMA ViewMiss ==
  \A p \in Page : IsMiss(p) => View(p) = FlashView(p)
BY DEF View

\* A page in a slot is seen as the slot has it, the page of a slot being
\* replaced excepted.
LEMMA ViewHit ==
  TypeOK /\ PhaseOK /\ NoAlias =>
    \A s \in Slot :
      page[s] \in Page /\ ~ (phase = "program" /\ s = cur) =>
        View(page[s]) = buf[s]
<1> SUFFICES ASSUME TypeOK, PhaseOK, NoAlias, NEW s \in Slot,
                    page[s] \in Page, ~ (phase = "program" /\ s = cur)
             PROVE  View(page[s]) = buf[s]
  OBVIOUS
<1>1. \A t \in Slot : page[t] = page[s] => t = s
  BY EEAssumption DEF NoAlias
<1>2. SlotOf(page[s]) = s
  BY <1>1 DEF SlotOf
<1>3. ~ (phase = "program" /\ page[cur] = page[s])
  BY <1>1 DEF PhaseOK
<1> QED
  BY <1>2, <1>3 DEF View, IsMiss

\* While a slot is replaced its old page is in buffer 2.
LEMMA ViewEvicted ==
  TypeOK /\ PhaseOK /\ phase = "program" /\ page[cur] \in Page =>
    View(page[cur]) = buf2
BY DEF View, IsMiss, PhaseOK

\* The three facts, in the next state.
LEMMA ViewMissNext == (\A p \in Page : IsMiss(p) => View(p) = FlashView(p))'
BY ViewMiss, PTL

LEMMA ViewHitNext ==
  (TypeOK /\ PhaseOK /\ NoAlias =>
    \A s \in Slot :
      page[s] \in Page /\ ~ (phase = "program" /\ s = cur) =>
        View(page[s]) = buf[s])'
BY ViewHit, PTL

LEMMA ViewEvictedNext ==
  (TypeOK /\ PhaseOK /\ phase = "program" /\ page[cur] \in Page =>
    View(page[cur]) = buf2)'
BY ViewEvicted, PTL

\* What is seen, and what a reset would leave, are whole pages.
LEMMA ViewType ==
  ASSUME IInv, NEW p \in Page
  PROVE  View(p) \in Content /\ FlashView(p) \in Content
<1> USE DEF IInv, TypeOK, PhaseOK, FlashView
<1>1. CASE IsMiss(p)
  BY <1>1, ViewMiss
<1>2. CASE ~ IsMiss(p)
  <2>1. PICK s \in Slot : page[s] = p
    BY <1>2 DEF IsMiss
  <2>2. CASE phase = "program" /\ s = cur
    BY <2>1, <2>2, ViewEvicted
  <2>3. CASE ~ (phase = "program" /\ s = cur)
    BY <2>1, <2>3, ViewHit
  <2> QED
    BY <2>2, <2>3
<1> QED
  BY <1>1, <1>2

-----------------------------------------------------------------------------
(* The steps                                                               *)

\* Neither the slots nor what the flash keeps changes: the caller sees no
\* change either.
LEMMA SameSlots ==
  ASSUME IInv, IInv', page' = page, buf' = buf,
         phase # "program", phase' # "program",
         \A p \in Page : FlashView(p)' = FlashView(p)
  PROVE  \A p \in Page : View(p)' = View(p)
<1> SUFFICES ASSUME NEW p \in Page PROVE View(p)' = View(p)
  OBVIOUS
<1>1. CASE IsMiss(p)
  BY <1>1, ViewMiss, ViewMissNext DEF IsMiss
<1>2. CASE ~ IsMiss(p)
  <2>1. PICK s \in Slot : page[s] = p
    BY <1>2 DEF IsMiss
  <2> QED
    BY <2>1, ViewHit, ViewHitNext DEF IInv
<1> QED
  BY <1>1, <1>2

LEMMA Stutter ==
  ASSUME \A p \in Page : View(p)' = View(p) /\ FlashView(p)' = FlashView(p),
         prog' = prog, ret' = ret
  PROVE  UNCHANGED Abs!storeVars
BY DEF Abs!storeVars

\* A slot programmed as the caller sees it is a Save.
LEMMA SaveStep ==
  ASSUME NEW q \in Page, prog = NoPage, prog' = q, ret' = ret,
         buf2' = buf2, main' = main, buf2 = View(q),
         \A p \in Page : View(p)' = View(p)
  PROVE  Abs!Save(q)
BY EEAssumption DEF Abs!Save, FlashView

\* Loading a page over a clean slot is not seen.
LEMMA FillCleanStep ==
  ASSUME IInv, IInv', NEW s \in Slot, FillClean(s)
  PROVE  UNCHANGED Abs!storeVars
<1> USE EEAssumption DEF FillClean, ReadPageDirect, ChipReady, chipVars
<1>1. loc.page \in Page /\ \A p \in Page : FlashView(p)' = FlashView(p)
  BY DEF FlashView, IInv, TypeOK, Loc
<1>2. ASSUME NEW p \in Page
      PROVE  View(p)' = View(p)
  <2>1. CASE p = loc.page
    <3>1. page'[s] = p /\ buf'[s] = main[p] /\ FlashView(p) = main[p]
      BY <2>1 DEF FlashView, IInv, TypeOK
    <3> QED
      BY <2>1, <3>1, ViewMiss, ViewHitNext DEF IInv
  <2>2. CASE p # loc.page /\ p = page[s]
    <3>1. IsMiss(p)'
      BY <2>2 DEF IInv, TypeOK, NoAlias, IsMiss
    <3>2. View(p) = buf[s]
      BY <2>2, ViewHit DEF IInv
    <3>3. buf[s] = FlashView(p)
      BY <2>2 DEF IInv, Coherent
    <3> QED
      BY <1>1, <3>1, <3>2, <3>3, ViewMissNext
  <2>3. CASE p # loc.page /\ p # page[s] /\ IsMiss(p)
    <3>1. IsMiss(p)'
      BY <2>3 DEF IInv, TypeOK, IsMiss
    <3> QED
      BY <1>1, <2>3, <3>1, ViewMiss, ViewMissNext
  <2>4. CASE p # loc.page /\ p # page[s] /\ ~ IsMiss(p)
    <3>1. PICK t \in Slot : page[t] = p
      BY <2>4 DEF IsMiss
    <3>2. page'[t] = p /\ buf'[t] = buf[t]
      BY <2>4, <3>1 DEF IInv, TypeOK
    <3> QED
      BY <3>1, <3>2, ViewHit, ViewHitNext DEF IInv
  <2> QED
    BY <2>1, <2>2, <2>3, <2>4
<1> QED
  BY <1>1, <1>2, Stutter

\* Loading a page over a dirty slot, its content being in buffer 2, is not
\* seen.
LEMMA EvictLoadStep ==
  ASSUME IInv, IInv', EvictLoad
  PROVE  UNCHANGED Abs!storeVars
<1> USE EEAssumption DEF EvictLoad, ReadPageDirect, ChipReady, chipVars
<1>1. cur \in Slot /\ \A p \in Page : FlashView(p)' = FlashView(p)
  BY DEF FlashView, IInv, PhaseOK
<1>2. ASSUME NEW p \in Page
      PROVE  View(p)' = View(p)
  <2>1. CASE IsMiss(p)
    BY <1>1, <2>1, ViewMiss, ViewMissNext DEF IsMiss
  <2>2. CASE p = page[cur]
    BY <1>1, <2>2, ViewHit, ViewEvictedNext DEF IInv, Buffered
  <2>3. CASE p # page[cur] /\ ~ IsMiss(p)
    <3>1. PICK t \in Slot : page[t] = p /\ t # cur
      BY <2>3 DEF IsMiss
    <3>2. buf'[t] = buf[t]
      BY <3>1 DEF IInv, TypeOK
    <3> QED
      BY <3>1, <3>2, ViewHit, ViewHitNext DEF IInv
  <2> QED
    BY <2>1, <2>2, <2>3
<1> QED
  BY <1>1, <1>2, Stutter

\* Programming buffer 2 under the old page is a Save of that page, or
\* nothing if the slot held none.
LEMMA EvictProgramStep ==
  ASSUME IInv, IInv', EvictProgram
  PROVE  Abs!StoreNext \/ UNCHANGED Abs!storeVars
<1> USE EEAssumption
    DEF EvictProgram, WriteBufferToFlash, TokenCheck, ChipReady
<1>1. cur \in Slot /\ loc.page \in Page /\ IsMiss(loc.page) /\ prog = NoPage
      /\ buf[cur] = main[loc.page]
  BY DEF IInv, TypeOK, PhaseOK, Evicting, Buffered, Loc
<1>2. page' = [page EXCEPT ![cur] = loc.page] /\ page \in [Slot -> Page \cup {NoPage}]
  BY DEF IInv, TypeOK
<1>3. ASSUME NEW p \in Page
      PROVE  View(p)' = View(p)
  <2>1. CASE p = loc.page
    <3>1. View(p)' = buf[cur]
      BY <1>1, <1>2, <2>1, ViewHitNext DEF IInv
    <3>2. View(p) = main[p]
      BY <1>1, <2>1, ViewMiss DEF FlashView
    <3> QED
      BY <1>1, <2>1, <3>1, <3>2
  <2>2. CASE p # loc.page /\ p = page[cur]
    <3>1. IsMiss(p)'
      BY <1>1, <1>2, <2>2 DEF IInv, NoAlias, IsMiss
    <3>2. FlashView(p)' = buf2
      BY <2>2 DEF FlashView
    <3> QED
      BY <2>2, <3>1, <3>2, ViewMissNext, ViewEvicted DEF IInv
  <2>3. CASE p # loc.page /\ p # page[cur] /\ IsMiss(p)
    <3>1. IsMiss(p)'
      BY <1>1, <1>2, <2>3 DEF IsMiss
    <3>2. FlashView(p)' = FlashView(p)
      BY <1>1, <2>3 DEF FlashView
    <3> QED
      BY <2>3, <3>1, <3>2, ViewMiss, ViewMissNext
  <2>4. CASE p # loc.page /\ p # page[cur] /\ ~ IsMiss(p)
    <3>1. PICK t \in Slot : page[t] = p /\ t # cur
      BY <2>4 DEF IsMiss
    <3>2. page'[t] = p
      BY <1>2, <3>1
    <3> QED
      BY <3>1, <3>2, ViewHit, ViewHitNext DEF IInv
  <2> QED
    BY <2>1, <2>2, <2>3, <2>4
<1>4. CASE page[cur] \in Page
  <2>1. Abs!Save(page[cur])
    BY <1>1, <1>3, <1>4, SaveStep, ViewEvicted DEF IInv
  <2> QED
    BY <1>4, <2>1 DEF Abs!StoreNext
<1>5. CASE page[cur] \notin Page
  <2>1. \A p \in Page : FlashView(p)' = FlashView(p)
    BY <1>5 DEF FlashView
  <2> QED
    BY <1>3, <1>5, <2>1, Stutter
<1> QED
  BY <1>4, <1>5

\* A byte put into the slot in use is a Write.
LEMMA PutByteWrites ==
  ASSUME IInv, IInv', NEW b \in Byte, PutByte(b),
         page' = page, phase' # "program"
  PROVE  Abs!Write(loc.page, loc.off, b)
<1> USE EEAssumption DEF PutByte, chipVars
<1>1. cur \in Slot /\ page[cur] = loc.page /\ loc.page \in Page
      /\ loc.off \in Offset
  BY DEF IInv, TypeOK, PhaseOK, Located, Loc
<1>2. ASSUME NEW p \in Page
      PROVE  View(p)' = IF p = loc.page
                          THEN [View(p) EXCEPT ![loc.off] = b] ELSE View(p)
  <2>1. CASE IsMiss(p)
    BY <1>1, <2>1, ViewMiss, ViewMissNext DEF IsMiss, FlashView
  <2>2. CASE ~ IsMiss(p)
    <3>1. PICK s \in Slot : page[s] = p
      BY <2>2 DEF IsMiss
    <3>2. View(p) = buf[s] /\ View(p)' = buf'[s]
      BY <3>1, ViewHit, ViewHitNext DEF IInv
    <3>3. s = cur <=> p = loc.page
      BY <1>1, <3>1 DEF IInv, NoAlias
    <3> QED
      BY <1>1, <3>2, <3>3 DEF IInv, TypeOK
  <2> QED
    BY <2>1, <2>2
<1>3. \A p \in Page : FlashView(p)' = FlashView(p)
  BY DEF FlashView
<1> QED
  BY <1>1, <1>2, <1>3 DEF Abs!Write

\* EE_Init shows the flash as it is.
LEMMA FreshView ==
  ASSUME EE_Init
  PROVE  \A p \in Page : View(p)' = FlashView(p)'
<1>1. \A p \in Page : IsMiss(p)'
  BY EEAssumption, FreshSlotsType DEF EE_Init, IsMiss
<1> QED
  BY <1>1, ViewMissNext

\* A power failure may spoil the page being programmed, and no other.
LEMMA PowerFailStep ==
  ASSUME IInv, PowerFail
  PROVE  Abs!Damage
<1> USE EEAssumption DEF PowerFail, ChipReady, Abs!Damage, Abs!Content, Content
<1>1. \A p \in Page : FlashView(p)' = main'[p]
  BY DEF FlashView
<1>2. \A p \in Page : View(p)' = main'[p]
  BY <1>1, FreshView
<1>3. CASE ChipReady
  <2>1. 0 \in Page /\ BlankPage \in [Offset -> Byte]
    BY BlankPageType DEF Page
  <2>2. \A p \in Page : FlashView(p) = main[p]
    BY <1>3 DEF FlashView
  <2> QED
    BY <1>1, <1>2, <1>3, <2>1, <2>2
<1>4. CASE ~ ChipReady
  <2>1. PICK c \in [Offset -> Byte] : main' = [main EXCEPT ![prog] = c]
    BY <1>4
  <2>2. prog \in Page /\ main \in [Page -> Content]
    BY <1>4 DEF IInv, TypeOK
  <2>3. [p \in Page |-> FlashView(p)'] =
          [[p \in Page |-> FlashView(p)] EXCEPT ![prog] = c]
    BY <1>1, <2>1, <2>2 DEF FlashView
  <2>4. [p \in Page |-> View(p)'] = [p \in Page |-> FlashView(p)']
    BY <1>1, <1>2
  <2> QED
    BY <1>4, <2>1, <2>2, <2>3, <2>4
<1> QED
  BY <1>3, <1>4

LEMMA RefineStep ==
  ASSUME IInv, IInv', [Next]_vars
  PROVE  Abs!StoreNext \/ UNCHANGED Abs!storeVars
<1> USE EEAssumption DEF cacheVars, chipVars, callVars
<1>1. ASSUME NEW l \in Loc, BeginRead(l) \/ BeginWrite(l)
      PROVE  UNCHANGED Abs!storeVars
  BY <1>1, SameSlots, Stutter
     DEF BeginRead, BeginWrite, FlashView, IInv, PhaseOK
<1>2. ASSUME NEW s \in Slot, FillHit(s) \/ EvictBuffer(s)
      PROVE  UNCHANGED Abs!storeVars
  <2>1. page' = page /\ buf' = buf /\ prog' = prog /\ ret' = ret
        /\ phase # "program" /\ phase' # "program"
    BY <1>2 DEF FillHit, EvictBuffer
  <2>2. \A p \in Page : FlashView(p)' = FlashView(p)
    BY <1>2 DEF FillHit, EvictBuffer, BufferWrite, TokenCheck, ChipReady,
       FlashView, IInv, TypeOK
  <2> QED
    BY <2>1, <2>2, SameSlots, Stutter
<1>3. ASSUME NEW s \in Slot, FillClean(s)
      PROVE  UNCHANGED Abs!storeVars
  BY <1>3, FillCleanStep
<1>4. CASE EvictLoad
  BY <1>4, EvictLoadStep
<1>5. CASE EvictProgram
  BY <1>5, EvictProgramStep
<1>6. CASE UseRead
  <2>1. cur \in Slot /\ page[cur] = loc.page /\ loc.page \in Page
        /\ loc.off \in Offset
    BY <1>6 DEF UseRead, IInv, TypeOK, PhaseOK, Located, Loc
  <2>2. View(loc.page) = buf[cur]
    BY <1>6, <2>1, ViewHit DEF UseRead, IInv
  <2>3. \A p \in Page : View(p)' = View(p) /\ FlashView(p)' = FlashView(p)
    BY <1>6, SameSlots DEF UseRead, FlashView
  <2>4. Abs!Read(loc.page, loc.off)
    BY <1>6, <2>1, <2>2, <2>3 DEF UseRead, Abs!Read
  <2> QED
    BY <2>1, <2>4 DEF Abs!StoreNext
<1>7. ASSUME NEW b \in Byte, UseWriteMore(b) \/ UseWriteLast(b)
      PROVE  Abs!StoreNext
  <2>1. PutByte(b) /\ page' = page /\ phase' # "program"
    BY <1>7 DEF UseWriteMore, UseWriteLast, PutByte
  <2>2. loc.page \in Page /\ loc.off \in Offset
    BY DEF IInv, TypeOK, Loc
  <2>3. Abs!Write(loc.page, loc.off, b)
    BY <2>1, PutByteWrites
  <2> QED
    BY <2>2, <2>3 DEF Abs!StoreNext
<1>8. CASE BeginCheck \/ CheckNone
  BY <1>8, SameSlots, Stutter DEF BeginCheck, CheckNone, FlashView, IInv, PhaseOK
<1>9. ASSUME NEW s \in Slot, CheckBuffer(s)
      PROVE  UNCHANGED Abs!storeVars
  <2>1. \A p \in Page : FlashView(p)' = FlashView(p)
    BY <1>9 DEF CheckBuffer, BufferWrite, TokenCheck, ChipReady,
       FlashView, IInv, TypeOK
  <2> QED
    BY <1>9, <2>1, SameSlots, Stutter DEF CheckBuffer
<1>10. ASSUME NEW s \in Slot, CheckProgram(s)
       PROVE  Abs!StoreNext \/ UNCHANGED Abs!storeVars
  <2> USE <1>10 DEF CheckProgram, WriteBufferToFlash, TokenCheck, ChipReady
  <2>1. \A p \in Page : IsMiss(p) => p # page[s]
    BY DEF IsMiss
  <2>2. CASE page[s] \in Page
    <3>1. prog = NoPage /\ buf2 = View(page[s])
      BY <2>2, ViewHit DEF IInv, Saving
    <3>2. \A p \in Page : View(p)' = View(p)
      BY <2>1, <2>2, <3>1, SameSlots, ViewMiss, ViewMissNext, ViewHit, ViewHitNext
         DEF IInv, IsMiss, FlashView
    <3>3. Abs!Save(page[s])
      BY <2>2, <3>1, <3>2, SaveStep
    <3> QED
      BY <2>2, <3>3 DEF Abs!StoreNext
  <2>3. CASE page[s] \notin Page
    BY <2>3, SameSlots, Stutter DEF FlashView
  <2> QED
    BY <2>2, <2>3
<1>11. CASE ChipDone
  <2>1. phase # "program" /\ \A p \in Page : FlashView(p)' = FlashView(p)
    BY <1>11 DEF ChipDone, FlashView, IInv, TypeOK, Buffered
  <2>2. Abs!Settle
    BY <1>11, <2>1, SameSlots DEF ChipDone, Abs!Settle
  <2> QED
    BY <2>2 DEF Abs!StoreNext
<1>12. CASE Reset
  <2>1. \A p \in Page : FlashView(p)' = FlashView(p)
    BY <1>12 DEF Reset, FlashView
  <2>2. Abs!Forget
    BY <1>12, <2>1, FreshView DEF Reset, Abs!Forget
  <2> QED
    BY <2>2 DEF Abs!StoreNext
<1>13. CASE PowerFail
  BY <1>13, PowerFailStep DEF Abs!StoreNext
<1>14. CASE UNCHANGED vars
  BY <1>14 DEF vars, Abs!storeVars, View, FlashView, IsMiss, SlotOf
<1> QED
  BY <1>1, <1>2, <1>3, <1>4, <1>5, <1>6, <1>7, <1>8, <1>9, <1>10, <1>11,
     <1>12, <1>13, <1>14 DEF Next, Fill, Store, Check

LEMMA RefineInit == Init => Abs!StoreInit
<1> SUFFICES ASSUME Init PROVE Abs!StoreInit
  OBVIOUS
<1>1. IInv
  BY TypeInit, CoreInit DEF IInv, CoreInv
<1>2. \A p \in Page : View(p) = FlashView(p)
  BY EEAssumption, FreshSlotsType, ViewMiss DEF Init, IsMiss
<1> QED
  BY <1>1, <1>2, ViewType DEF Init, IInv, TypeOK, Abs!StoreInit, Abs!Content, Content

\* The cache implements the store, for every number of slots, pages and
\* bytes: reads see the last write, and a reset loses exactly what was not
\* handed to the chip (eeprom.c as a whole).
THEOREM CacheImplementsStore == Spec => ImplementsStore
<1>1. IInv /\ IInv' /\ [Next]_vars => [Abs!StoreNext]_(Abs!storeVars)
  BY RefineStep
<1> QED
  BY RefineInit, <1>1, CacheInvariant, PTL DEF Spec, ImplementsStore, Abs!StoreSpec
=============================================================================
