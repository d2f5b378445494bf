----------------------------- MODULE PMonDaemon ----------------------------
(***************************************************************************)
(* The PowerMonitor daemon (PowerMon_Main.c, Cmds_PMon.c), the shared      *)
(* memory segment it keeps up to date and the processes that read it       *)
(* through PMon_Lib.c.  All of them run concurrently; the daemon may be    *)
(* signalled, killed and started again, a reader may die, and the serial   *)
(* line may go away and come back.                                         *)
(*                                                                         *)
(* The unit's answers are whole lines here.  A value of 0 (millivolts) is  *)
(* the one memset and PMon_ClearSharedMemory leave.                        *)
(***************************************************************************)
EXTENDS Naturals, Sequences, FiniteSets, Functions

CONSTANTS Client,      \* processes that link PMon_Lib
          Daemon,      \* the daemon, as a party to the mutex
          Reading,     \* voltages the unit may report
          Sent,        \* the lines it does send
          MaxWire,     \* lines the tty holds unread (bound)
          MaxBacklog,  \* lines readBuf holds (bound)
          MaxStarts    \* times the daemon is started (bound)

Proc == Client \cup {Daemon}
Chan == {1, 2}                       \* Pri, Sec
Value == Reading \cup {0}

\* What the parser tells apart: "Voltage: Pri 1234 mV", the same with another
\* word for the channel, and anything that no entry of Cmd_Table matches.
Voltage(ch, v) == [kind |-> "voltage", ch |-> ch, value |-> v]
BadChannel == [kind |-> "badch", ch |-> 1, value |-> 0]
Other == [kind |-> "other", ch |-> 1, value |-> 0]
Line == {Voltage(ch, v) : ch \in Chan, v \in Reading} \cup {BadChannel, Other}

ASSUME PMonAssumption ==
  /\ IsFiniteSet(Client) /\ Daemon \notin Client
  /\ Reading \subseteq Nat
  /\ Sent \subseteq Line
  /\ MaxWire \in Nat \ {0}
  /\ MaxBacklog \in Nat \ {0}
  /\ MaxStarts \in Nat \ {0}

VARIABLES
  seg,        \* the segment exists
  mutex,      \* futex word of PMon_Shared_Mem.access: 0, 1, 2 (contended)
  volts,      \* PMon_Shared_Mem.voltage
  connected,  \* PMon_Shared_Mem.port_connected
  lk,         \* where each process stands in the mutex
  pc,         \* the daemon's place in its code
  via,        \* what made it call PMon_ClearSharedMemory
  fd,         \* Serial_fd: "none" -1, "null" 0, which is /dev/null
  attached,   \* PM_ptr points to mapped memory
  due,        \* a second has passed since PMon_Poll's last write
  backlog,    \* lines in readBuf
  starts,     \* how often the daemon was started
  plugged,    \* the unit is reachable
  wire,       \* lines received by the tty and not yet read
  cpc,        \* each reader's place in PMon_Lib
  got,        \* the values its call has read so far
  caught,     \* history: how many were inside when the mutex was last initialised;
              \* 0 again once nobody has been inside since
  unclosed    \* history: close failed in this run of the daemon

shmVars == <<seg, mutex, volts, connected>>
daemonVars == <<pc, via, fd, attached, due, backlog, starts>>
lineVars == <<plugged, wire>>
clientVars == <<cpc, got>>
history == <<caught, unclosed>>
vars == <<shmVars, lk, daemonVars, lineVars, clientVars, history>>

Zeros == [ch \in Chan |-> 0]

Init ==
  /\ seg = FALSE /\ mutex = 0 /\ volts = Zeros /\ connected = 0
  /\ lk = [p \in Proc |-> "none"]
  /\ pc = "off" /\ via = "poll" /\ fd = "none" /\ attached = FALSE
  /\ due = TRUE /\ backlog = << >> /\ starts = 0
  /\ plugged = TRUE /\ wire = << >>
  /\ cpc = [c \in Client |-> "out"] /\ got = [c \in Client |-> Zeros]
  /\ caught = 0 /\ unclosed = FALSE

-----------------------------------------------------------------------------
(* pthread_mutex_lock and _unlock on a mutex without the process-shared    *)
(* attribute.  The word is in shared memory, so taking it works between    *)
(* processes; but the futex is private, so an unlock wakes sleepers of its *)
(* own process only, and every process here has one thread.                *)

\* Who is inside.  A process that ended there still is: nobody unlocks for it.
Inside(p) == lk[p] = "in"
In == {p \in Proc : Inside(p)}

LockTry(p) ==
  /\ lk[p] = "try"
  /\ \/ mutex = 0 /\ mutex' = 1 /\ lk' = [lk EXCEPT ![p] = "in"]
     \/ mutex # 0 /\ lk' = [lk EXCEPT ![p] = "contend"] /\ UNCHANGED mutex

LockSwap(p) ==
  /\ lk[p] = "contend"
  /\ mutex' = 2
  /\ lk' = [lk EXCEPT ![p] = IF mutex = 0 THEN "in" ELSE "wait"]

\* futex_wait returns at once if the word is no longer 2.
LockWait(p) ==
  /\ lk[p] = "wait"
  /\ lk' = [lk EXCEPT ![p] = IF mutex = 2 THEN "asleep" ELSE "contend"]
  /\ UNCHANGED mutex

\* The word is cleared whoever it was set for.
Unlock(p) ==
  /\ mutex' = 0
  /\ lk' = [lk EXCEPT ![p] = "none"]
  /\ caught' = IF In = {p} THEN 0 ELSE caught

\* A process that ends inside leaves the word set.
Abandon(p) == [lk EXCEPT ![p] = IF Inside(p) THEN @ ELSE "none"]

LockStep(p) ==
  /\ LockTry(p) \/ LockSwap(p) \/ LockWait(p)
  /\ UNCHANGED <<seg, volts, connected, daemonVars, lineVars, clientVars, history>>

-----------------------------------------------------------------------------
(* The daemon starts: PMon_CreateSharedMemory, which readers that are      *)
(* attached already do not wait for.                                       *)

\* A new process has no port and no mapping, as Ended leaves it, and its first
\* PMon_Poll writes.  readBuf is not initialised: it may hold some text, which
\* is no command.
StartDaemon ==
  /\ pc = "off" /\ starts < MaxStarts
  /\ pc' = "create" /\ starts' = starts + 1
  /\ backlog' \in {<< >>, <<Other>>}
  /\ UNCHANGED <<shmVars, lk, via, fd, attached, due, lineVars, clientVars, history>>

\* shmget and shmat; should one fail, exit runs System_Shutdown all the same.
CreateAttach ==
  /\ pc = "create"
  /\ \/ pc' = "zero" /\ seg' = TRUE /\ attached' = TRUE /\ UNCHANGED via
     \/ pc' = "clrconn" /\ via' = "exit" /\ UNCHANGED <<seg, attached>>
  /\ UNCHANGED <<mutex, volts, connected, lk, fd, due, backlog, starts,
                 lineVars, clientVars, history>>

CreateZero ==
  /\ pc = "zero"
  /\ mutex' = 0 /\ volts' = Zeros /\ connected' = 0
  /\ lk' = [lk EXCEPT ![Daemon] = "none"]
  /\ caught' = Cardinality(In \ {Daemon})
  /\ pc' = "mutex"
  /\ UNCHANGED <<seg, via, fd, attached, due, backlog, starts,
                 lineVars, clientVars, unclosed>>

\* pthread_mutex_init, then the signal handlers and daemon(), which may fail.
CreateMutex ==
  /\ pc = "mutex"
  /\ mutex' = 0 /\ caught' = Cardinality(In)
  /\ \/ pc' = "connect" /\ UNCHANGED via
     \/ pc' = "clrconn" /\ via' = "exit"
  /\ UNCHANGED <<seg, volts, connected, lk, fd, attached, due, backlog, starts,
                 lineVars, clientVars, unclosed>>

-----------------------------------------------------------------------------
(* Connect_To_Port and the main loop                                       *)

OpenPort ==
  /\ pc = "connect"
  /\ \/ plugged /\ fd' = "port" /\ pc' = "openlog"
     \/ fd' = "none" /\ pc' = "sleep"
  /\ UNCHANGED <<shmVars, lk, via, attached, due, backlog, starts,
                 lineVars, clientVars, history>>

OpenLog ==
  /\ pc = "openlog"
  /\ pc' = "setconn"
  /\ UNCHANGED <<shmVars, lk, via, fd, attached, due, backlog, starts,
                 lineVars, clientVars, history>>

\* The results of the two start-up writes are not looked at.
SetConnected ==
  /\ pc = "setconn" /\ attached
  /\ connected' = 1
  /\ pc' = "poll"
  /\ UNCHANGED <<seg, mutex, volts, lk, via, fd, attached, due, backlog,
                 starts, lineVars, clientVars, history>>

Sleep ==
  /\ pc = "sleep"
  /\ pc' = "connect"
  /\ UNCHANGED <<shmVars, lk, via, fd, attached, due, backlog, starts,
                 lineVars, clientVars, history>>

\* slip: the result of the write is not looked at
PollUnchecked ==
  /\ pc = "poll"
  /\ pc' = IF fd = "none" THEN "sleep" ELSE "select"
  /\ due' = IF fd = "none" THEN due ELSE FALSE
  /\ UNCHANGED <<shmVars, lk, via, fd, attached, backlog, starts,
                 lineVars, clientVars, history>>

\* slip: the inner loop ends at a descriptor of 0
PollPositive ==
  /\ pc = "poll"
  /\ \/ fd # "port" /\ pc' = "sleep" /\ UNCHANGED <<via, due>>
     \/ fd = "port" /\ plugged /\ pc' = "select" /\ due' = FALSE /\ UNCHANGED via
     \/ fd = "port" /\ ~ plugged /\ pc' = "clrconn" /\ due' = FALSE /\ via' = "poll"
  /\ UNCHANGED <<shmVars, lk, fd, attached, backlog, starts,
                 lineVars, clientVars, history>>

\* The test of the inner loop, PMon_Poll and Check_Serial on its result.
Poll ==
  /\ pc = "poll"
  /\ \/ /\ fd = "none"
        /\ pc' = "sleep" /\ UNCHANGED <<via, due>>
     \/ /\ fd # "none" /\ ~ due
        /\ pc' = "select" /\ UNCHANGED <<via, due>>
     \/ /\ fd # "none" /\ due /\ due' = FALSE
        /\ fd = "null" \/ plugged
        /\ pc' = "select" /\ UNCHANGED via
     \/ /\ fd # "none" /\ due /\ due' = FALSE
        /\ ~ (fd = "null" \/ plugged)
        /\ pc' = "clrconn" /\ via' = "poll"
  /\ UNCHANGED <<shmVars, lk, fd, attached, backlog, starts,
                 lineVars, clientVars, history>>

\* A line that has hung up is readable, and so is /dev/null.
Readable ==
  \/ fd = "null"
  \/ fd = "port" /\ (wire # << >> \/ ~ plugged)

\* FD_SET and FD_ISSET of -1, behind a close that failed, are undefined.
Select ==
  /\ pc = "select"
  /\ \/ (Readable \/ fd = "none") /\ pc' = "read"
     \/ ~ Readable /\ pc' = "poll"
  /\ UNCHANGED <<shmVars, lk, via, fd, attached, due, backlog, starts,
                 lineVars, clientVars, history>>

ReadLines ==
  /\ pc = "read" /\ fd = "port" /\ wire # << >>
  /\ \E k \in 1 .. Len(wire) :
       /\ Len(backlog) + k <= MaxBacklog
       /\ backlog' = backlog \o SubSeq(wire, 1, k)
       /\ wire' = SubSeq(wire, k + 1, Len(wire))
  /\ pc' = "parse"
  /\ UNCHANGED <<shmVars, lk, via, fd, attached, due, starts, plugged,
                 clientVars, history>>

\* End of file, or an error on a line that has hung up, for Check_Serial.
ReadNothing ==
  /\ pc = "read"
  /\ fd # "port" \/ wire = << >>
  /\ \/ fd # "none" /\ pc' = "poll" /\ UNCHANGED via
     \/ /\ fd = "none" \/ (fd = "port" /\ ~ plugged)
        /\ pc' = "clrconn" /\ via' = "read"
  /\ UNCHANGED <<shmVars, lk, fd, attached, due, backlog, starts,
                 lineVars, clientVars, history>>

\* slip: an unknown line is left in the buffer
ParseStuck ==
  /\ pc = "parse"
  /\ pc' = "poll"
  /\ UNCHANGED <<shmVars, lk, via, fd, attached, due, starts, backlog,
                 lineVars, clientVars, history>>

\* One CmdParse_ProcessString that changes no reading: it ends the loop when
\* there is no line, and also when there is one no handler takes.
Parse ==
  /\ pc = "parse"
  /\ \/ /\ backlog = << >>
        /\ pc' = "poll" /\ UNCHANGED backlog
     \/ /\ backlog # << >> /\ Head(backlog).kind # "voltage"
        /\ pc' = IF Head(backlog).kind = "other" THEN "poll" ELSE "parse"
        /\ backlog' = Tail(backlog)
  /\ UNCHANGED <<shmVars, lk, via, fd, attached, due, starts,
                 lineVars, clientVars, history>>

\* Receive_Voltage: lock, store, unlock.
ReceiveVoltage ==
  /\ pc = "parse"
  /\ backlog # << >> /\ Head(backlog).kind = "voltage"
  /\ lk' = [lk EXCEPT ![Daemon] = "try"]
  /\ pc' = "lock"
  /\ UNCHANGED <<shmVars, via, fd, attached, due, backlog, starts,
                 lineVars, clientVars, history>>

\* slip: the voltage is stored without the mutex
ReceiveStoreUnlocked ==
  /\ pc = "lock"
  /\ volts' = [volts EXCEPT ![Head(backlog).ch] = Head(backlog).value]
  /\ lk' = [lk EXCEPT ![Daemon] = "none"]
  /\ backlog' = Tail(backlog)
  /\ pc' = "parse"
  /\ UNCHANGED <<seg, mutex, connected, via, fd, attached, due, starts,
                 lineVars, clientVars, history>>

ReceiveStore ==
  /\ pc = "lock" /\ Inside(Daemon)
  /\ volts' = [volts EXCEPT ![Head(backlog).ch] = Head(backlog).value]
  /\ pc' = "unlock"
  /\ UNCHANGED <<seg, mutex, connected, lk, via, fd, attached, due, backlog,
                 starts, lineVars, clientVars, history>>

ReceiveUnlock ==
  /\ pc = "unlock"
  /\ Unlock(Daemon)
  /\ backlog' = Tail(backlog)
  /\ pc' = "parse"
  /\ UNCHANGED <<seg, volts, connected, via, fd, attached, due, starts,
                 lineVars, clientVars, unclosed>>

-----------------------------------------------------------------------------
(* PMon_ClearSharedMemory, called by Check_Serial and by System_Shutdown.  *)
(* It takes no lock, and it detaches the segment for good.                 *)

\* slip: the flag is left as it is
ClearConnectedNot ==
  /\ pc = "clrconn" /\ attached
  /\ pc' = "clrpri"
  /\ UNCHANGED <<shmVars, lk, via, fd, attached, due, backlog, starts,
                 lineVars, clientVars, history>>

\* slip: and gives the mutex back, should a signal have come inside
ClearConnectedUnlocking ==
  /\ pc = "clrconn" /\ attached
  /\ connected' = 0 /\ mutex' = 0
  /\ lk' = [lk EXCEPT ![Daemon] = "none"]
  /\ pc' = "clrpri"
  /\ UNCHANGED <<seg, volts, via, fd, attached, due, backlog, starts,
                 lineVars, clientVars, history>>

ClearConnected ==
  /\ pc = "clrconn" /\ attached
  /\ connected' = 0
  /\ pc' = "clrpri"
  /\ UNCHANGED <<seg, mutex, volts, lk, via, fd, attached, due, backlog,
                 starts, lineVars, clientVars, history>>

ClearVoltage ==
  /\ \/ pc = "clrpri" /\ volts' = [volts EXCEPT ![1] = 0] /\ pc' = "clrsec"
     \/ pc = "clrsec" /\ volts' = [volts EXCEPT ![2] = 0] /\ pc' = "detach"
  /\ UNCHANGED <<seg, mutex, connected, lk, via, fd, attached, due, backlog,
                 starts, lineVars, clientVars, history>>

Exiting == via \in {"exit", "exitinlog"}

Detach ==
  /\ pc = "detach"
  /\ attached' = FALSE
  /\ pc' = IF Exiting THEN "exitlog" ELSE "close"
  /\ UNCHANGED <<shmVars, lk, via, fd, due, backlog, starts,
                 lineVars, clientVars, history>>

\* Serial_fd becomes what close returned: 0, which is /dev/null after daemon(),
\* or -1 if it failed, which sends the main loop back to Connect_To_Port.
ClosePort ==
  /\ pc = "close"
  /\ \/ fd' = "null" /\ UNCHANGED unclosed
     \/ fd' = "none" /\ unclosed' = TRUE
  /\ pc' = "lostlog"
  /\ UNCHANGED <<shmVars, lk, via, attached, due, backlog, starts,
                 lineVars, clientVars, caught>>

LostLog ==
  /\ pc = "lostlog"
  /\ pc' = IF via = "poll" THEN "select" ELSE "poll"
  /\ UNCHANGED <<shmVars, lk, via, fd, attached, due, backlog, starts,
                 lineVars, clientVars, history>>

-----------------------------------------------------------------------------
(* The end of the daemon                                                   *)

Ended ==
  /\ pc' = "off" /\ via' = "poll" /\ fd' = "none" /\ attached' = FALSE
  /\ due' = TRUE /\ backlog' = << >> /\ unclosed' = FALSE
  /\ lk' = Abandon(Daemon)
  /\ UNCHANGED <<shmVars, starts, lineVars, clientVars, caught>>

\* An access through PM_ptr after shmdt, or before shmat.
Fault == pc \in {"clrconn", "setconn", "lock", "unlock"} /\ ~ attached /\ Ended

\* syslog takes a lock of its own: exit called by a signal handler that
\* interrupted it waits for ever.
ExitLog ==
  /\ pc = "exitlog"
  /\ \/ via = "exit" /\ Ended
     \/ /\ via = "exitinlog" /\ pc' = "hung"
        /\ UNCHANGED <<shmVars, lk, via, fd, attached, due, backlog, starts,
                       lineVars, clientVars, history>>

\* slip: the handler waits for the mutex before it cleans up
SignalLocking ==
  /\ pc \notin {"off", "create", "zero", "mutex"} /\ ~ Exiting
  /\ via' = "exit"
  /\ pc' = IF mutex = 0 THEN "clrconn" ELSE "waiting"
  /\ lk' = Abandon(Daemon)
  /\ UNCHANGED <<shmVars, fd, attached, due, backlog, starts,
                 lineVars, clientVars, history>>

\* Run_CtrlC calls exit wherever the daemon is, inside the mutex included.
Signal ==
  /\ pc \notin {"off", "create", "zero", "mutex"} /\ ~ Exiting
  /\ via' = IF pc \in {"openlog", "lostlog"} THEN "exitinlog" ELSE "exit"
  /\ pc' = "clrconn"
  /\ lk' = Abandon(Daemon)
  /\ UNCHANGED <<shmVars, fd, attached, due, backlog, starts,
                 lineVars, clientVars, history>>

\* SIGKILL, a signal with no handler (SIGHUP), or another handled one during the
\* exit handler, whose exit calls nothing a second time.
Kill == pc # "off" /\ Ended

-----------------------------------------------------------------------------
(* Readers                                                                 *)

\* PMon_Connect: there may be no segment to attach to.
Connect(c) ==
  /\ cpc[c] \in {"out", "null"}
  /\ cpc' = [cpc EXCEPT ![c] = IF seg THEN "idle" ELSE "null"]
  /\ UNCHANGED <<shmVars, lk, daemonVars, lineVars, got, history>>

\* PMon_GetVoltages; PMon_GetVoltage is the same with one value wanted.
GetVoltages(c) ==
  /\ cpc[c] = "idle"
  /\ cpc' = [cpc EXCEPT ![c] = "pri"]
  /\ lk' = [lk EXCEPT ![c] = "try"]
  /\ got' = [got EXCEPT ![c] = Zeros]
  /\ UNCHANGED <<shmVars, daemonVars, lineVars, history>>

GetPri(c) ==
  /\ cpc[c] = "pri" /\ Inside(c)
  /\ got' = [got EXCEPT ![c][1] = volts[1]]
  /\ cpc' = [cpc EXCEPT ![c] = "sec"]
  /\ UNCHANGED <<shmVars, lk, daemonVars, lineVars, history>>

GetSec(c) ==
  /\ cpc[c] = "sec"
  /\ got' = [got EXCEPT ![c][2] = volts[2]]
  /\ cpc' = [cpc EXCEPT ![c] = "unlock"]
  /\ UNCHANGED <<shmVars, lk, daemonVars, lineVars, history>>

GetDone(c) ==
  /\ cpc[c] = "unlock"
  /\ Unlock(c)
  /\ cpc' = [cpc EXCEPT ![c] = "idle"]
  /\ UNCHANGED <<seg, volts, connected, daemonVars, lineVars, got, unclosed>>

Die(c) ==
  /\ cpc[c] \notin {"out", "null", "gone"}
  /\ cpc' = [cpc EXCEPT ![c] = "gone"]
  /\ lk' = Abandon(c)
  /\ UNCHANGED <<shmVars, daemonVars, lineVars, got, history>>

-----------------------------------------------------------------------------
(* The serial line and the clock                                           *)

Answer(l) ==
  /\ plugged /\ Len(wire) < MaxWire
  /\ wire' = Append(wire, l)
  /\ UNCHANGED <<shmVars, lk, daemonVars, plugged, clientVars, history>>

Unplug ==
  /\ plugged
  /\ plugged' = FALSE /\ wire' = << >>
  /\ UNCHANGED <<shmVars, lk, daemonVars, clientVars, history>>

Plug ==
  /\ ~ plugged
  /\ plugged' = TRUE
  /\ UNCHANGED <<shmVars, lk, daemonVars, wire, clientVars, history>>

Tick ==
  /\ ~ due
  /\ due' = TRUE
  /\ UNCHANGED <<shmVars, lk, pc, via, fd, attached, backlog, starts,
                 lineVars, clientVars, history>>

\* What the daemon does of its own accord once it runs.
Run ==
  \/ CreateAttach \/ CreateZero \/ CreateMutex
  \/ OpenPort \/ OpenLog \/ SetConnected \/ Sleep
  \/ Poll \/ Select \/ ReadLines \/ ReadNothing
  \/ Parse \/ ReceiveVoltage \/ ReceiveStore \/ ReceiveUnlock
  \/ ClearConnected \/ ClearVoltage \/ Detach \/ ClosePort \/ LostLog
  \/ Fault \/ ExitLog
  \/ LockStep(Daemon)

Reader(c) ==
  \/ Connect(c) \/ GetVoltages(c) \/ GetPri(c) \/ GetSec(c) \/ GetDone(c)
  \/ LockStep(c)

SerialLine == \/ \E l \in Sent : Answer(l)
              \/ Unplug \/ Plug

Next ==
  \/ StartDaemon \/ Run \/ Signal \/ Kill
  \/ \E c \in Client : Reader(c) \/ Die(c)
  \/ SerialLine
  \/ Tick

Spec == Init /\ [][Next]_vars

(***************************************************************************)
(* The daemon is scheduled and the clock runs; opening a port that is      *)
(* there works in the end.  Readers, signals and the unit promise nothing. *)
(***************************************************************************)
FairSpec == Spec /\ WF_vars(Run) /\ WF_vars(Tick)

-----------------------------------------------------------------------------
\* One process is inside the mutex at a time, and then the word is set; but after
\* an initialisation with others inside, which PMon_CreateSharedMemory does not
\* wait for, as many more may be as were inside then, until all have left.  And
\* the word is set only while somebody, alive or dead, is inside.
MutualExclusion ==
  /\ Cardinality(In) <= caught + (IF mutex # 0 THEN 1 ELSE 0)
  /\ mutex # 0 => In # {}

\* The first value PMon_GetVoltages took is still the current one when it takes
\* the second, as long as the port is marked connected, which
\* PMon_ClearSharedMemory takes back before it touches the values; unless
\* processes were inside when the mutex was initialised and the reader is not
\* alone again with the word set.
SnapshotWhole ==
  \A c \in Client :
    cpc[c] = "sec" /\ connected = 1 /\ (caught = 0 \/ (mutex # 0 /\ In = {c}))
      => got[c][1] = volts[1]

\* While a daemon runs, readers see "connected" only if the port is open; and
\* once its exit handler has run they see "disconnected" (System_Shutdown).
ConnectedIsTrue ==
  /\ connected = 1 /\ pc \notin {"off", "create", "zero", "clrconn"} => fd = "port"
  /\ pc \in {"exitlog", "hung"} => connected = 0

\* Outside the exit handler the daemon touches the segment it detached only if
\* close failed before: PMon_ClearSharedMemory detaches it in the middle of the
\* main loop, and only a Serial_fd of -1 leads that loop back to where it is used.
NoUseAfterDetach ==
  ~ unclosed =>
    /\ pc \in {"setconn", "lock", "unlock"} => attached
    /\ pc = "clrconn" /\ ~ Exiting => attached

\* A signal always ends the daemon, wherever it arrives (inside the mutex,
\* asleep on it, half way through PMon_ClearSharedMemory), except in syslog.
SignalEnds ==
  (Exiting /\ pc # "off") ~> (pc = "off" \/ via = "exitinlog")

\* A line that stays lost is noticed: "connected" is taken back, unless the
\* daemon is stopped or waits for the mutex for ever.
LossNoticed ==
  <>[] ~ plugged => <>[](connected = 0 \/ pc \in {"off", "lock"})

\* With the port open the unit's lines are read, whatever they are, unless
\* the daemon is stopped or waits for the mutex for ever.
LinesAreRead ==
  [](Len(wire) = MaxWire /\ fd = "port" =>
       <>(Len(wire) < MaxWire \/ fd # "port" \/ pc \in {"hung", "lock"}))

=============================================================================
