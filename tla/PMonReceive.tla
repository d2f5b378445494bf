---------------------------- MODULE PMonReceive ----------------------------
(***************************************************************************)
(* How the daemon turns the characters of the serial line into lines: the  *)
(* reception in main (PowerMon_Main.c) and CmdParse_ProcessString.  What a *)
(* line does to the shared memory is in PMonDaemon, which sees whole lines *)
(* only.                                                                   *)
(*                                                                         *)
(* Characters are grouped into tokens that the parser treats alike; a read *)
(* may end behind any of them.  A token is a name and the number of the    *)
(* unit's line it belongs to, 0 for nobody's; the code sees the name, and, *)
(* of the text behind a colon, the channel and value that are this line's. *)
(***************************************************************************)
EXTENDS Naturals, SequencesExt

CONSTANTS Capacity,   \* sizeof(readBuf), in tokens
          MaxLines,   \* lines the unit sends (bound)
          MaxFaults,  \* tokens lost, or zero bytes inserted, on the line (bound)
          MaxJunk     \* length of the text readBuf may hold at first (bound)

ASSUME ReceiveAssumption ==
  /\ Capacity \in Nat \ {0} /\ {MaxLines, MaxFaults} \subseteq Nat
  /\ MaxJunk \in 0 .. Capacity

\* What the unit sends: a voltage, another text, its start-up message, and
\* what is left of the answer to a command it does not know.  Cmd_Table knows
\* "Voltage"; "text" is anything no entry of it is a prefix of.
Kind == {"voltage", "text", "startup", "nothing"}

LineOf(kind, i) ==
  CASE kind = "voltage" ->
         <<<<"nl", i>>, <<"Voltage", i>>, <<":", i>>, <<"cr", i>>, <<"nl", i>>>>
    [] kind = "text"    -> <<<<"nl", i>>, <<"text", i>>, <<"cr", i>>, <<"nl", i>>>>
    [] kind = "startup" ->
         <<<<"cr", i>>, <<"nl", i>>, <<"text", i>>, <<"cr", i>>, <<"nl", i>>>>
    [] kind = "nothing" -> <<<<"nl", i>>>>

Nul == <<"nul", 0>>

VARIABLES
  readBuf,  \* its text up to the terminator
  cut,      \* FALSE: no terminator in readBuf or in the byte behind it
  wire,     \* characters received by the tty and not read yet
  pc,       \* "select", "parse", or "lost" after Check_Serial saw an error
  sent,     \* kinds of the lines sent so far
  text,     \* and their tokens, as they left the unit
  handled,  \* the arguments Receive_Voltage was given, by line number
  faults,   \* faults of the line so far
  junk      \* what readBuf held at first

vars == <<readBuf, cut, wire, pc, sent, text, handled, faults, junk>>

\* readBuf is an uninitialised array: some text, possibly unterminated.
Init ==
  /\ \/ /\ readBuf \in UNION {[1 .. n -> {<<"text", 0>>, <<"cr", 0>>}] : n \in 0 .. MaxJunk}
        /\ cut = TRUE
     \/ /\ \E last \in {"text", "cr"} :
             readBuf = [i \in 1 .. Capacity |-> <<IF i = Capacity THEN last ELSE "text", 0>>]
        /\ cut \in BOOLEAN
  /\ junk = readBuf
  /\ wire = <<>> /\ pc = "select"
  /\ sent = <<>> /\ text = <<>> /\ handled = <<>> /\ faults = 0

-----------------------------------------------------------------------------
Faulty(line) ==
       {RemoveAt(line, d) : d \in DOMAIN line}
  \cup {InsertAt(line, d, Nul) : d \in DOMAIN line}

Send(kind) ==
  /\ Len(sent) < MaxLines
  /\ sent' = Append(sent, kind)
  /\ LET line == LineOf(kind, Len(sent'))
     IN  /\ text' = text \o line
         /\ \/ wire' = wire \o line /\ UNCHANGED faults
            \/ /\ faults < MaxFaults /\ faults' = faults + 1
               /\ \E l \in Faulty(line) : wire' = wire \o l
  /\ UNCHANGED <<readBuf, cut, pc, handled, junk>>

\* Where s has a token of that name.
At(s, name) == {p \in DOMAIN s : s[p][1] = name}

\* What strlen and strchr see: a received zero byte ends the text, and what
\* was read behind it is overwritten by the next read.
UpToNul(s) ==
  IF At(s, "nul") = {} THEN s ELSE SubSeq(s, 1, Min(At(s, "nul")) - 1)

\* sizeof(readBuf) - length
Room == Capacity - Len(readBuf)

\* A buffer filled to the brim gets its terminator in the byte behind it.
ReadData ==
  /\ pc = "select" /\ cut
  /\ \E n \in 1 .. Len(wire) :
       /\ n <= Room
       /\ readBuf' = UpToNul(readBuf \o SubSeq(wire, 1, n))
       /\ wire' = SubSeq(wire, n + 1, Len(wire))
  /\ pc' = "parse"
  /\ UNCHANGED <<cut, sent, text, handled, faults, junk>>

\* The byte behind readBuf belongs to somebody else, who may write it.
Overwritten ==
  /\ pc = "select" /\ cut /\ Len(readBuf) = Capacity
  /\ cut' = FALSE
  /\ UNCHANGED <<readBuf, wire, pc, sent, text, handled, faults, junk>>

\* strlen is then past the end: the size, below 0, is refused by read.
ReadRefused ==
  /\ pc = "select" /\ ~cut /\ wire # <<>>
  /\ pc' = "lost"
  /\ UNCHANGED <<readBuf, cut, wire, sent, text, handled, faults, junk>>

\* slip: a line no entry takes is not removed
LeftoverUnknown(end, took) ==
  IF took THEN SubSeq(readBuf, end + 1, Len(readBuf)) ELSE readBuf
\* slip: what is behind the line is forgotten with it
LeftoverNone(end, took) == <<>>
\* What memmove leaves of readBuf when the line up to end is done with: string
\* was stepped over one newline in front, which stays where it is.
Leftover(end, took) ==
  LET from == IF readBuf[1][1] = "nl" THEN 1 ELSE 0
  IN  SubSeq(readBuf, 1, from) \o SubSeq(readBuf, end + 1, Len(readBuf))

\* The line begins with the command, but for white space.
Took(end) ==
  \E p \in At(readBuf, "Voltage") :
    p < end /\ \A q \in 1 .. p - 1 : readBuf[q][1] = "nl"

\* slip: the colon is looked for before the line is terminated
ColonsAhead(end) == At(readBuf, ":")
\* The colons strchr can find, once the line is terminated.
Colons(end) == {p \in At(readBuf, ":") : p < end}

\* CmdParse_ProcessString on the line that ends at end: Receive_Voltage gets the
\* text behind the first colon, if there is one.
ProcessLine(end) ==
  /\ readBuf' = Leftover(end, Took(end))
  /\ handled' = IF Took(end) /\ Colons(end) # {}
                  THEN Append(handled, readBuf[Min(Colons(end))][2]) ELSE handled
  /\ pc' = IF Took(end) THEN "parse" ELSE "select"

\* slip: rv is 0 unless a handler says otherwise
ParseForever ==
  /\ pc = "parse"
  /\ IF At(readBuf, "cr") # {} THEN ProcessLine(Min(At(readBuf, "cr")))
                              ELSE UNCHANGED <<pc, readBuf, handled>>
  /\ UNCHANGED <<cut, wire, sent, text, faults, junk>>

\* The loop around it: strchr finds the end of a line, or the loop ends.
Parse ==
  /\ pc = "parse"
  /\ IF At(readBuf, "cr") # {} THEN ProcessLine(Min(At(readBuf, "cr")))
                              ELSE pc' = "select" /\ UNCHANGED <<readBuf, handled>>
  /\ UNCHANGED <<cut, wire, sent, text, faults, junk>>

Next ==
  \/ \E kind \in Kind : Send(kind)
  \/ ReadData \/ ReadRefused \/ Overwritten
  \/ Parse

Spec == Init /\ [][Next]_vars

\* select tells the daemon of waiting characters, and it does not stop.
FairSpec == Spec /\ WF_vars(ReadData) /\ WF_vars(Parse)

-----------------------------------------------------------------------------
\* Whatever is lost on the line, however reads cut it and lines get glued to
\* one another: a value that reaches Receive_Voltage is the argument of a
\* voltage line, and values arrive in the order they were sent, once each.
InOrder ==
  /\ \A k \in DOMAIN handled : handled[k] \in DOMAIN sent /\ sent[handled[k]] = "voltage"
  /\ \A j, k \in DOMAIN handled : j < k => handled[j] < handled[k]

Waiting(i) == Contains(readBuf, <<":", i>>) \/ Contains(wire, <<":", i>>)

\* The text readBuf held at first does not end a line.
Unended == junk # <<>> /\ Last(junk)[1] # "cr"

\* No line is skipped: without a fault of the line, each voltage sent is
\* handled, or still on its way.  Only the first line may be spoilt, by the
\* text an uninitialised readBuf held: nothing before it ended with a CR.
NoneSkipped ==
  faults = 0 =>
    \A i \in DOMAIN sent :
      \/ sent[i] # "voltage" \/ Waiting(i) \/ Contains(handled, i)
      \/ Unended /\ \A j \in 1 .. i - 1 : sent[j] = "nothing"

\* Newlines of unknown commands, one behind the other: all of a full buffer but
\* the newlines and the unfinished line that may stand around them.
Silence ==
  \E n \in DOMAIN text : \A p \in n .. n + Capacity - 6 :
    p \in DOMAIN text /\ sent[text[p][2]] = "nothing"

\* Reception never stops by itself.  A buffer full of text without a line in
\* it makes every later read ask for 0 bytes.  That takes text nobody sent, a
\* lost CR, or a buffer's length of answers that have none; what the parser
\* leaves behind never adds up.
FullOnlyByFault ==
  pc = "select" /\ Len(readBuf) = Capacity =>
    Unended \/ Len(junk) = Capacity \/ faults > 0 \/ Silence

\* What the unit sends is read in the end, unless the buffer is full or its
\* terminator is gone.
TtyDrained ==
  wire # <<>> ~> (wire = <<>> \/ Len(readBuf) = Capacity \/ ~cut)
=============================================================================
