------------------------------ MODULE EEStore ------------------------------
(***************************************************************************)
(* What eeprom.c promises its callers: a byte memory, addressed by page    *)
(* and offset, in which a write is seen by the next read at once and       *)
(* survives a reset from the moment its page has been handed to the flash  *)
(* chip.  There is no cache here; EECache is shown to implement this.      *)
(***************************************************************************)
CONSTANTS Page,     \* the pages of the token, 0 .. Size-1
          Offset,   \* the byte positions within a page
          Byte,     \* the values a byte takes
          NoPage    \* no page at all

VARIABLES val,      \* val[p][o]: the byte a read at <<p, o>> returns
          kept,     \* kept[p][o]: the byte found there after a reset
          busy,     \* the page the chip is programming, or NoPage
          ret       \* the byte the last read returned

storeVars == <<val, kept, busy, ret>>

Content == [Offset -> Byte]

StoreInit ==
  /\ val \in [Page -> Content]
  /\ kept = val
  /\ busy = NoPage
  /\ ret \in Byte

Read(p, o) ==
  /\ ret' = val[p][o]
  /\ UNCHANGED <<val, kept, busy>>

Write(p, o, b) ==
  /\ val' = [val EXCEPT ![p][o] = b]
  /\ UNCHANGED <<kept, busy, ret>>

\* The whole page becomes durable at once, as it stands.
Save(p) ==
  /\ busy = NoPage
  /\ kept' = [kept EXCEPT ![p] = val[p]]
  /\ busy' = p
  /\ UNCHANGED <<val, ret>>

Settle ==
  /\ busy' = NoPage
  /\ UNCHANGED <<val, kept, ret>>

\* A reset of the processor: what was not saved is forgotten.
Forget ==
  /\ val' = kept
  /\ UNCHANGED <<kept, busy, ret>>

\* A loss of power: besides, the page being programmed may be damaged.
Damage ==
  /\ \E p \in Page, c \in Content :
       kept' = IF busy = p THEN [kept EXCEPT ![p] = c] ELSE kept
  /\ val' = kept'
  /\ busy' = NoPage
  /\ UNCHANGED ret

StoreNext ==
  \/ \E p \in Page, o \in Offset : Read(p, o)
  \/ \E p \in Page, o \in Offset, b \in Byte : Write(p, o, b)
  \/ \E p \in Page : Save(p)
  \/ Settle
  \/ Forget
  \/ Damage

StoreSpec == StoreInit /\ [][StoreNext]_storeVars
=============================================================================
