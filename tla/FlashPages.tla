----------------------------- MODULE FlashPages ----------------------------
(***************************************************************************)
(* What DataFlash.h promises whoever holds a token: an operation asked for *)
(* is done, as a whole, before the next one, on the pages of the token.    *)
(* There is no bus here; FlashBus is shown to implement this.              *)
(***************************************************************************)
EXTENDS Integers, Sequences

CONSTANTS Page,    \* pages of the chip
          First,   \* the first one of the token
          Offset,  \* positions in a page
          Byte,
          NoPage,  \* no page at all
          Nothing  \* no operation

VARIABLES mem,     \* mem[p][o], the main memory
          buf,     \* buf[b][o], buffers 1 and 2
          prog,    \* page being programmed, or NoPage
          todo,    \* the operation asked for and not yet done, or Nothing
          late,    \* one cut off by a reset that may still have an effect
          ret,     \* the bytes the last operation returned
          resets   \* resets of the processor so far

flash == <<mem, buf, prog>>
pageVars == <<flash, todo, late, ret, resets>>

PagesInit ==
  /\ mem \in [Page -> [Offset -> Byte]] /\ buf \in [{1, 2} -> [Offset -> Byte]]
  /\ prog = NoPage /\ todo = Nothing /\ late = Nothing /\ ret = <<>> /\ resets \in Nat

WriteBuffer(b, o, d) ==
  /\ buf' = [buf EXCEPT ![b] =
       [i \in Offset |-> IF i - o + 1 \in DOMAIN d THEN d[i - o + 1] ELSE @[i]]]
  /\ UNCHANGED <<mem, prog>>

Load(p, b) ==
  /\ buf' = [buf EXCEPT ![b] = mem[p]] /\ UNCHANGED <<mem, prog>>

Program(p, b) ==
  /\ prog' = p /\ mem' = [mem EXCEPT ![p] = buf[b]] /\ UNCHANGED buf

\* What an operation does, only ever to a flash that is not busy.
Effect(c) ==
  /\ prog = NoPage
  /\ \/ c.op = "bufwrite" /\ WriteBuffer(c.buffer, c.offset, c.data)
     \/ c.op = "load" /\ Load(First + c.page, c.buffer)
     \/ c.op = "program" /\ Program(First + c.page, c.buffer)
     \/ c.op \in {"read", "bufread"} /\ UNCHANGED flash

Result(c) ==
  CASE c.op = "read"    -> [i \in 1 .. c.n |-> mem[First + c.page][c.offset + i - 1]]
    [] c.op = "bufread" -> [i \in 1 .. c.n |-> buf[c.buffer][c.offset + i - 1]]
    [] OTHER -> <<>>

Ask ==
  /\ todo = Nothing /\ late = Nothing /\ todo' # Nothing
  /\ ret' = <<>> /\ UNCHANGED <<flash, late, resets>>

Do ==
  /\ todo # Nothing /\ todo' = Nothing
  /\ Effect(todo) /\ ret' = Result(todo)
  /\ UNCHANGED <<late, resets>>

Settle == prog' = NoPage /\ UNCHANGED <<mem, buf, todo, late, ret, resets>>

\* A reset cuts off the operation in hand.
Reset ==
  /\ resets' = resets + 1
  /\ todo' = Nothing /\ late' \in {Nothing, todo, late} /\ ret' = <<>>
  /\ UNCHANGED flash

\* It may still have its effect, or part of it, or none.
Spill ==
  /\ late # Nothing /\ late' = Nothing
  /\ \/ UNCHANGED flash
     \/ Effect(late)
     \/ /\ late.op = "bufwrite"
        /\ \E n \in DOMAIN late.data :
             Effect([late EXCEPT !.data = SubSeq(@, 1, n)])
  /\ UNCHANGED <<todo, ret, resets>>

\* Other devices' functions are none of the flash's concern.
Forget == ret' = <<>> /\ todo = Nothing /\ UNCHANGED <<flash, todo, late, resets>>

PagesNext == Ask \/ Do \/ Settle \/ Reset \/ Spill \/ Forget
PagesSpec == PagesInit /\ [][PagesNext]_pageVars
=============================================================================
