---------------------------- MODULE UnitCommands ---------------------------
(***************************************************************************)
(* Command lines on their way to the unit: what the daemon and an operator *)
(* write, Run_Config of main.c that cuts it into lines, CP_Lookup and the  *)
(* handlers.  Characters are grouped into tokens no function of            *)
(* CmdProcessor.c takes apart; words without a blank between them are one  *)
(* word to it.  The commands current, rawv and rawc are like volt, offset  *)
(* is like calib.                                                          *)
(***************************************************************************)
EXTENDS Naturals, SequencesExt

CONSTANTS Size,      \* RX_SIZE, in tokens
          MaxLines,  \* lines written (bound)
          MaxFaults  \* tokens lost on the line (bound)

ASSUME CommandAssumption == Size \in Nat \ {0} /\ {MaxLines, MaxFaults} \subseteq Nat

End == {"cr", "nl"}
Blank == "blank"
Channel == {"pri", "sec"}

Ver == <<"ver", "cr", "nl">>
Restart == <<"restart", "cr", "nl">>
Single == <<"volt", Blank, "pri", "cr", "nl", "volt", Blank, "sec", "cr", "nl">>

\* What an operator types, as far as he gets with it.
Typed == {<<"calib", Blank, "pri", Blank, "number", "cr">>, <<"volt", Blank, "sec", "cr">>}
Beginnings == UNION {{SubSeq(l, 1, n) : n \in 1 .. Len(l)} : l \in Typed}

VARIABLES
  wire,     \* written and not yet taken by Run_Config: on the line, in RxBuffer
  msg,      \* MsgBuf, RxSize tokens
  resp,     \* RespBuf
  spinning, \* in the endless loop of Cmd_Restart
  daemon,   \* what it does next: "open", "ver", "restart" or "poll"
  heard,    \* tokens Run_Config took since the reset
  out,      \* answers since then; <<"none">> is the newline alone
  due,      \* the daemon asked for a restart: "no", "yes", or "unsure" after a loss
  open,     \* what was written last does not end a line
  halfway,  \* the operator stopped behind a blank, or typed on behind an open line
  lines, faults

unit == <<msg, resp, spinning, heard, out>>
unitVars == <<wire, unit, daemon, due, open, halfway, lines, faults>>

UnitInit ==
  /\ wire = <<>> /\ msg = <<>> /\ resp = <<"none">> /\ spinning = FALSE
  /\ daemon = "open" /\ heard = <<>> /\ out = <<>>
  /\ due = "no" /\ open = FALSE /\ halfway = FALSE /\ lines = 0 /\ faults = 0

-----------------------------------------------------------------------------
Write(l) ==
  /\ lines < MaxLines /\ lines' = lines + 1
  /\ wire' = wire \o l /\ open' = (Last(l) \notin End)

\* Serial_Openport
Open ==
  /\ daemon = "open" /\ daemon' = "ver"
  /\ UNCHANGED <<wire, unit, due, open, halfway, lines, faults>>

\* slip: the unit is restarted before its version is asked for
StartupSwapped ==
  \/ /\ daemon = "ver" /\ Write(Restart) /\ daemon' = "restart" /\ due' = "yes"
     /\ UNCHANGED <<unit, halfway, faults>>
  \/ /\ daemon = "restart" /\ Write(Ver) /\ daemon' = "poll"
     /\ UNCHANGED <<unit, due, halfway, faults>>
\* PMon_SetStartup, and PMon_Send_Restart
Startup ==
  \/ /\ daemon = "ver" /\ Write(Ver) /\ daemon' = "restart"
     /\ UNCHANGED <<unit, due, halfway, faults>>
  \/ /\ daemon = "restart" /\ Write(Restart) /\ daemon' = "poll" /\ due' = "yes"
     /\ UNCHANGED <<unit, halfway, faults>>

\* PMon_Poll
Poll ==
  /\ daemon = "poll" /\ Write(Single)
  /\ UNCHANGED <<unit, daemon, due, halfway, faults>>

\* The daemon ends, or loses the line.
Close ==
  /\ daemon # "open" /\ daemon' = "open"
  /\ UNCHANGED <<wire, unit, due, open, halfway, lines, faults>>

\* Somebody at a terminal, while no daemon has the port.
Type ==
  /\ daemon = "open"
  /\ \E l \in Beginnings : Write(l) /\ halfway' = (halfway \/ open \/ Last(l) = Blank)
  /\ UNCHANGED <<unit, daemon, due, faults>>

\* What reaches RxBuffer while Cmd_Restart spins is gone with the reset.
Forgotten ==
  /\ spinning /\ wire # <<>> /\ wire' = Tail(wire)
  /\ due' = IF due = "yes" /\ Head(wire) = "restart" THEN "no" ELSE due
  /\ UNCHANGED <<unit, daemon, open, halfway, lines, faults>>

Lose ==
  /\ wire # <<>> /\ wire' = Tail(wire)
  /\ faults < MaxFaults /\ faults' = faults + 1
  /\ due' = IF due = "yes" THEN "unsure" ELSE due
  /\ UNCHANGED <<unit, daemon, open, halfway, lines>>

-----------------------------------------------------------------------------
\* CP_SkipChars, CP_SkipSpace: places in the line, its end being one of them.
SkipChars(l, k) == Min({i \in k .. Len(l) + 1 : i = Len(l) + 1 \/ l[i] = Blank})
SkipSpace(l, k) == Min({i \in k .. Len(l) + 1 : i = Len(l) + 1 \/ l[i] # Blank})

\* Where the next word begins, behind the one at k.
Argument(l, k) == SkipSpace(l, SkipChars(l, k))
Names(l, k) == k <= Len(l) /\ l[k] \in Channel

\* slip: the name of the channel is not skipped
VoltCalibUnskipped(l, a) ==
  IF Names(l, a) THEN <<"set", l[a], "zero">> ELSE <<"none">>
\* Cmd_VoltCalib.  atol makes 0 of what is no number.
VoltCalib(l, a) ==
  IF ~Names(l, a) THEN <<"none">>
  ELSE LET v == Argument(l, a)
       IN  IF v > Len(l) THEN <<"calib", l[a]>>
           ELSE <<"set", l[a], IF l[v] = "number" THEN "number" ELSE "zero">>

Voltage(l, a) == IF Names(l, a) THEN <<"volt", l[a]>> ELSE <<"none">>

\* The handler of a line's command; an answer a handler refuses is empty.
Run(l) ==
  CASE l[1] = "ver"   -> <<"version">>
    [] l[1] = "volt"  -> Voltage(l, Argument(l, 1))
    [] l[1] = "calib" -> VoltCalib(l, Argument(l, 1))
    [] OTHER -> <<"none">>

\* slip: the answer before is not cleared
LookupStale(l) == IF Run(l) = <<"none">> THEN resp ELSE Run(l)
\* CP_Lookup clears the answer first.
Lookup(l) == Run(l)

\* Run_Config, character by character.  The terminator of a full buffer goes
\* into the byte behind it; characters beyond are forgotten.
Keep(c) == msg' = IF Len(msg) < Size THEN Append(msg, c) ELSE msg

Take ==
  /\ wire # <<>> /\ ~spinning
  /\ wire' = Tail(wire) /\ heard' = Append(heard, Head(wire))

RunConfig ==
  /\ Take
  /\ \/ Head(wire) \notin End /\ Keep(Head(wire)) /\ UNCHANGED <<resp, spinning, out>>
     \/ Head(wire) \in End /\ msg = <<>> /\ UNCHANGED <<msg, resp, spinning, out>>
     \/ /\ Head(wire) \in End /\ msg # <<>> /\ Head(msg) # "restart"
        /\ \E r \in {Lookup(msg)} : resp' = r /\ out' = Append(out, r)
        /\ msg' = <<>> /\ UNCHANGED spinning
     \/ /\ Head(wire) \in End /\ msg # <<>> /\ Head(msg) = "restart"
        /\ spinning' = TRUE /\ out' = Append(out, <<"restarting">>)
        /\ UNCHANGED <<msg, resp>>
  /\ UNCHANGED <<daemon, due, open, halfway, lines, faults>>

\* The watchdog resets a unit that spins.
Reset ==
  /\ spinning /\ spinning' = FALSE
  /\ msg' = <<>> /\ resp' = <<"none">> /\ heard' = <<>> /\ out' = <<>>
  /\ due' = "no"
  /\ UNCHANGED <<wire, daemon, open, halfway, lines, faults>>

UnitNext ==
  \/ Open \/ Startup \/ Poll \/ Close \/ Type
  \/ Lose \/ Forgotten \/ RunConfig \/ Reset

UnitSpec == UnitInit /\ [][UnitNext]_unitVars

\* The unit's main loop goes round, its watchdog works.
UnitFairSpec == UnitSpec /\ WF_unitVars(RunConfig) /\ WF_unitVars(Reset)

-----------------------------------------------------------------------------

\* The lines in what was heard: the text between two ends, if there is any.
Ends == {i \in DOMAIN heard : heard[i] \in End}
Closes == {i \in Ends : i > 1 /\ i - 1 \notin Ends}
Text(i) ==
  LET from == Max({0} \cup {j \in Ends : j < i}) + 1
  IN  SubSeq(heard, from, Min({i - 1, from + Size - 1}))

\* What a line asks: a command at its very beginning, and behind the first
\* blanks a word that begins with a channel.
Words(l) == {k \in 2 .. Len(l) : l[k] # Blank /\ l[k - 1] = Blank}
Asks(l) ==
  IF l[1] \notin {"ver", "volt", "calib", "restart"} THEN <<"none">>
  ELSE IF l[1] = "ver" THEN <<"version">>
  ELSE IF l[1] = "restart" THEN <<"restarting">>
  ELSE IF Words(l) = {} \/ l[Min(Words(l))] \notin Channel THEN <<"none">>
  ELSE LET w == Min(Words(l))
           rest == Words(l) \ {w}
       IN  CASE l[1] = "volt" -> <<"volt", l[w]>>
             [] l[1] = "calib" /\ rest = {} -> <<"calib", l[w]>>
             [] l[1] = "calib" /\ rest # {} ->
                  <<"set", l[w], IF l[Min(rest)] = "number" THEN "number" ELSE "zero">>

\* Every line gets the answer to what its first Size tokens ask, in the order
\* of the lines and once, however lines were cut, glued together or too long,
\* and whatever was answered before.
AnswersMatch ==
  /\ Len(out) = Cardinality(Closes)
  /\ \A i \in Closes : out[Cardinality({j \in Closes : j <= i})] = Asks(Text(i))

\* Calibration is set to zero by a line in which no number was typed only when
\* an operator stopped behind a blank, or typed on behind a line he had left, or
\* something got lost: what the daemon sends never completes a half-typed command
\* otherwise, even where a reset or a new daemon cuts into the stream.
ZeroOnlyUnfinished ==
  \A i \in DOMAIN out :
    out[i] \in {<<"set", ch, "zero">> : ch \in Channel} => halfway \/ faults > 0

\* Whatever somebody left half typed in MsgBuf, the restart the daemon asks for
\* takes place, unless something is lost on the way: the answer to "ver" is the
\* one that suffers.
RestartObeyed == due = "yes" ~> due # "yes"
=============================================================================
