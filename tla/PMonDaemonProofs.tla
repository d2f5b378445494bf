-------------------------- MODULE PMonDaemonProofs -------------------------
(***************************************************************************)
(* The mutex in the shared segment, for any number of readers, starts of   *)
(* the daemon and lines.                                                   *)
(***************************************************************************)
EXTENDS PMonDaemon, FiniteSetTheorems, TLAPS

LockState == {"none", "try", "contend", "wait", "asleep", "in"}

ReaderPC == {"out", "null", "idle", "pri", "sec", "unlock", "gone"}

MutexType ==
  /\ mutex \in 0 .. 2 /\ lk \in [Proc -> LockState]
  /\ cpc \in [Client -> ReaderPC] /\ caught \in Nat

\* Where the code is outside of the mutex, or has just been inside, lk agrees.
DaemonPlace ==
  /\ pc \in {"mutex", "connect", "openlog", "setconn", "sleep", "poll", "select",
             "read", "parse", "close", "lostlog"} => lk[Daemon] = "none"
  /\ pc \in {"clrconn", "clrpri", "clrsec", "detach"} /\ ~ Exiting
       => lk[Daemon] = "none"
  /\ pc = "unlock" => Inside(Daemon)

ReaderPlace ==
  \A c \in Client :
    /\ cpc[c] \in {"out", "null", "idle"} => lk[c] = "none"
    /\ cpc[c] \in {"sec", "unlock"} => Inside(c)

MutexInv == MutexType /\ DaemonPlace /\ ReaderPlace /\ MutualExclusion

\* What a step may do to the mutex.
Same == UNCHANGED <<mutex, lk, caught>>
Wipe == /\ mutex' = 0 /\ lk' = [lk EXCEPT ![Daemon] = "none"]
        /\ caught' = Cardinality(In \ {Daemon})
Reinit == mutex' = 0 /\ lk' = lk /\ caught' = Cardinality(In)
Enter(p) ==
  lk[p] = "none" /\ lk' = [lk EXCEPT ![p] = "try"] /\ UNCHANGED <<mutex, caught>>
Contend(p) == (LockTry(p) \/ LockSwap(p) \/ LockWait(p)) /\ UNCHANGED caught
Leave(p) == Inside(p) /\ Unlock(p)
End(p) == lk' = Abandon(p) /\ UNCHANGED <<mutex, caught>>

\* Of the places a process is at, those it is certainly outside or inside stay
\* so through every step of the mutex another process makes.
LEMMA OthersKeep ==
  ASSUME MutexType, NEW p \in Proc, NEW q \in Proc, p # q,
         Enter(p) \/ Contend(p) \/ Leave(p) \/ End(p)
  PROVE  /\ lk[q] = "none" => lk'[q] = "none"
         /\ Inside(q) => Inside(q)'
  BY DEF MutexType, Enter, Contend, Leave, End, LockTry, LockSwap, LockWait,
         Unlock, Abandon, Inside

LEMMA ReinitKeeps ==
  ASSUME MutexType, NEW q \in Proc, Reinit \/ (Wipe /\ q # Daemon)
  PROVE  /\ lk[q] = "none" => lk'[q] = "none"
         /\ Inside(q) => Inside(q)'
  BY DEF MutexType, Reinit, Wipe, Inside, Proc

\* Those inside are finitely many, and can be counted one by one.
LEMMA InFinite == IsFiniteSet(In) /\ Cardinality(In) \in Nat
<1>1. IsFiniteSet(Proc)
  BY PMonAssumption, FS_AddElement DEF Proc
<1>2. In \subseteq Proc
  BY DEF In
<1> QED
  BY <1>1, <1>2, FS_Subset, FS_CardinalityType

\* A process that goes in finds the word clear and sets it, and one that leaves
\* clears it: the count stays below what the word and the last initialisation allow.
LEMMA GoesIn ==
  ASSUME MutexType, MutualExclusion, NEW p \in Proc, ~ Inside(p), mutex = 0,
         mutex' \in {1, 2}, lk' = [lk EXCEPT ![p] = "in"], UNCHANGED caught
  PROVE  MutualExclusion'
<1>1. In' = In \cup {p} /\ p \notin In
  BY DEF MutexType, In, Inside
<1>2. Cardinality(In') = Cardinality(In) + 1
  BY <1>1, InFinite, FS_AddElement
<1>3. Cardinality(In) <= caught
  BY InFinite DEF MutualExclusion, MutexType
<1> QED
  BY <1>1, <1>2, <1>3, InFinite DEF MutualExclusion, MutexType

LEMMA GoesOut ==
  ASSUME MutexType, MutualExclusion, NEW p \in Proc, Leave(p)
  PROVE  MutualExclusion' /\ caught' \in Nat
<1>1. In' = In \ {p} /\ p \in In /\ mutex' = 0
      /\ caught' = IF In = {p} THEN 0 ELSE caught
  BY DEF MutexType, In, Inside, Leave, Unlock
<1>2. Cardinality(In') = Cardinality(In) - 1
  BY <1>1, InFinite, FS_RemoveElement
<1>3. CASE In = {p}
  BY <1>1, <1>3, FS_EmptySet DEF MutualExclusion
<1>4. CASE In # {p}
  <2>1. Cardinality(In) <= caught + 1
    BY InFinite DEF MutualExclusion, MutexType
  <2> QED
    BY <1>1, <1>2, <1>4, <2>1, InFinite DEF MutualExclusion, MutexType
<1> QED
  BY <1>3, <1>4

\* Every kind of step keeps the count.
LEMMA LockKeeps ==
  ASSUME MutexType, MutualExclusion,
         \/ Same \/ Reinit \/ Wipe
         \/ \E p \in Proc : Enter(p) \/ Contend(p) \/ Leave(p) \/ End(p)
  PROVE  /\ mutex' \in 0 .. 2 /\ lk' \in [Proc -> LockState] /\ caught' \in Nat
         /\ MutualExclusion'
<1> USE DEF MutexType, LockState
<1>0. ASSUME In' = In, UNCHANGED caught, mutex' = 0 <=> mutex = 0 PROVE MutualExclusion'
  BY <1>0 DEF MutualExclusion
<1>1. CASE Same
  BY <1>0, <1>1 DEF Same, In, Inside
<1>2. CASE Reinit \/ Wipe
  <2>1. In' = IF Wipe THEN In \ {Daemon} ELSE In
    BY <1>2 DEF Reinit, Wipe, In, Inside, Proc
  <2>2. caught' = Cardinality(In')
    BY <1>2, <2>1 DEF Reinit, Wipe, In, Inside, Proc
  <2>3. Cardinality(In \ {Daemon}) \in Nat
    BY InFinite, FS_RemoveElement, FS_CardinalityType
  <2> QED
    BY <1>2, <2>1, <2>2, <2>3, InFinite DEF Reinit, Wipe, MutualExclusion, Proc
<1>3. ASSUME NEW p \in Proc, Enter(p) \/ Contend(p) \/ Leave(p) \/ End(p)
      PROVE  /\ mutex' \in 0 .. 2 /\ lk' \in [Proc -> LockState] /\ caught' \in Nat
             /\ MutualExclusion'
  <2>1. CASE Enter(p)
    <3>1. In' = In
      BY <2>1 DEF Enter, In, Inside
    <3> QED
      BY <1>0, <2>1, <3>1 DEF Enter
  <2>2. CASE LockTry(p) /\ UNCHANGED caught
    <3>1. CASE mutex = 0
      BY <2>2, <3>1, GoesIn DEF LockTry, Inside
    <3>2. CASE mutex # 0
      <4>1. In' = In
        BY <2>2, <3>2 DEF LockTry, In, Inside
      <4> QED
        BY <1>0, <2>2, <3>2, <4>1 DEF LockTry
    <3> QED
      BY <3>1, <3>2
  <2>3. CASE LockSwap(p) /\ UNCHANGED caught
    <3>1. CASE mutex = 0
      <4>1. ~ Inside(p) /\ mutex' = 2 /\ lk' = [lk EXCEPT ![p] = "in"]
        BY <2>3, <3>1 DEF LockSwap, Inside
      <4>2. MutualExclusion'
        BY <2>3, <3>1, <4>1, GoesIn
      <4>3. mutex' \in 0 .. 2 /\ lk' \in [Proc -> LockState] /\ caught' \in Nat
        BY <2>3, <4>1
      <4> QED
        BY <4>2, <4>3
    <3>2. CASE mutex # 0
      <4>1. In' = In
        BY <2>3, <3>2 DEF LockSwap, In, Inside
      <4> QED
        BY <1>0, <2>3, <3>2, <4>1 DEF LockSwap
    <3> QED
      BY <3>1, <3>2
  <2>4. CASE LockWait(p) /\ UNCHANGED caught
    <3>1. In' = In
      BY <2>4 DEF LockWait, In, Inside
    <3> QED
      BY <1>0, <2>4, <3>1 DEF LockWait
  <2>5. CASE Leave(p)
    <3>1. mutex' = 0 /\ lk' = [lk EXCEPT ![p] = "none"]
      BY <2>5 DEF Leave, Unlock
    <3> QED
      BY <2>5, <3>1, GoesOut
  <2>6. CASE End(p)
    <3>1. In' = In
      BY <2>6 DEF End, Abandon, In, Inside
    <3> QED
      BY <1>0, <2>6, <3>1 DEF End, Abandon, Inside
  <2> QED
    BY <1>3, <2>1, <2>2, <2>3, <2>4, <2>5, <2>6 DEF Contend
<1> QED
  BY <1>1, <1>2, <1>3

LEMMA MutexInit == Init => MutexInv
<1> SUFFICES ASSUME Init PROVE MutexInv
  OBVIOUS
<1>1. /\ mutex = 0 /\ lk = [p \in Proc |-> "none"] /\ pc = "off"
      /\ cpc = [c \in Client |-> "out"] /\ caught = 0
  BY DEF Init
<1>2. MutexType /\ MutualExclusion
  <2>1. In = {}
    BY <1>1 DEF In, Inside
  <2> QED
    BY <1>1, <2>1, FS_EmptySet DEF MutexType, MutualExclusion, LockState, ReaderPC
<1>3. DaemonPlace /\ ReaderPlace
  BY <1>1 DEF DaemonPlace, ReaderPlace, Proc
<1> QED
  BY <1>2, <1>3 DEF MutexInv

\* The kinds of step the daemon makes of the mutex.
DaemonKind ==
  \/ Same \/ Reinit \/ Wipe
  \/ Enter(Daemon) \/ Contend(Daemon) \/ Leave(Daemon) \/ End(Daemon)

LEMMA DaemonMoves ==
  ASSUME MutexInv, StartDaemon \/ Run \/ Signal \/ Kill
  PROVE  DaemonKind /\ DaemonPlace' /\ UNCHANGED cpc
<1> USE DEF DaemonKind, DaemonPlace, Exiting, Inside, shmVars, clientVars, history
<1>0. Daemon \in Proc /\ lk \in [Proc -> LockState] /\ DaemonPlace
  BY DEF MutexInv, MutexType, Proc
<1>1. CASE StartDaemon
  BY <1>0, <1>1 DEF StartDaemon, Same
<1>2. CASE CreateAttach
  BY <1>0, <1>2 DEF CreateAttach, Same
<1>3. CASE CreateZero
  <2>1. Wipe /\ lk'[Daemon] = "none" /\ pc' = "mutex" /\ UNCHANGED cpc
    BY <1>0, <1>3 DEF CreateZero, Wipe
  <2> QED
    BY <2>1
<1>4. CASE CreateMutex
  <2>1. Reinit /\ lk'[Daemon] = "none" /\ UNCHANGED cpc
    BY <1>0, <1>4 DEF CreateMutex, Reinit
  <2>2. pc' # "unlock"
    BY <1>4 DEF CreateMutex
  <2> QED
    BY <2>1, <2>2
<1>5. CASE OpenPort \/ OpenLog \/ SetConnected \/ Sleep \/ Select
  BY <1>0, <1>5 DEF OpenPort, OpenLog, SetConnected, Sleep, Select, Same
<1>6. CASE Poll
  BY <1>0, <1>6 DEF Poll, Same
<1>7. CASE ReadLines \/ ReadNothing \/ Parse
  BY <1>0, <1>7 DEF ReadLines, ReadNothing, Parse, Same
<1>8. CASE ReceiveVoltage
  BY <1>0, <1>8 DEF ReceiveVoltage, Enter
<1>9. CASE ReceiveStore
  BY <1>0, <1>9 DEF ReceiveStore, Same
<1>10. CASE ReceiveUnlock
  <2>1. Leave(Daemon) /\ lk'[Daemon] = "none" /\ pc' = "parse" /\ UNCHANGED cpc
    BY <1>0, <1>10 DEF ReceiveUnlock, Leave, Unlock
  <2> QED
    BY <2>1
<1>11. CASE ClearConnected \/ ClearVoltage \/ Detach \/ ClosePort \/ LostLog
  BY <1>0, <1>11 DEF ClearConnected, ClearVoltage, Detach, ClosePort, LostLog, Same
<1>12. CASE Fault \/ Kill \/ ExitLog
  BY <1>0, <1>12 DEF Fault, Kill, ExitLog, Ended, End, Same
<1>13. CASE LockStep(Daemon)
  <2>1. Contend(Daemon) /\ UNCHANGED <<pc, via, cpc>>
    BY <1>13 DEF LockStep, Contend, daemonVars
  <2>2. lk[Daemon] # "none" /\ ~ Inside(Daemon)
    BY <2>1 DEF Contend, LockTry, LockSwap, LockWait
  <2> QED
    BY <1>0, <2>1, <2>2
<1>14. CASE Signal
  BY <1>0, <1>14 DEF Signal, End
<1> QED
  BY <1>1, <1>2, <1>3, <1>4, <1>5, <1>6, <1>7, <1>8, <1>9, <1>10, <1>11, <1>12,
     <1>13, <1>14 DEF Run

\* The kinds of step reader c makes of the mutex.
ReaderKind(c) == Same \/ Enter(c) \/ Contend(c) \/ Leave(c) \/ End(c)

LEMMA ReaderMoves ==
  ASSUME MutexInv, NEW c \in Client, Reader(c) \/ Die(c)
  PROVE  /\ ReaderKind(c) /\ UNCHANGED <<pc, via>>
         /\ \A d \in Client \ {c} : cpc'[d] = cpc[d]
         /\ cpc' \in [Client -> ReaderPC]
         /\ cpc'[c] \in {"out", "null", "idle"} => lk'[c] = "none"
         /\ cpc'[c] \in {"sec", "unlock"} => Inside(c)'
<1> USE DEF ReaderKind, Inside, shmVars, daemonVars, history, ReaderPC
<1>0. /\ c \in Proc /\ lk \in [Proc -> LockState] /\ cpc \in [Client -> ReaderPC]
      /\ cpc[c] \in {"out", "null", "idle"} => lk[c] = "none"
      /\ cpc[c] \in {"sec", "unlock"} => Inside(c)
  BY DEF MutexInv, MutexType, ReaderPlace, Proc
<1>1. CASE Connect(c)
  BY <1>0, <1>1 DEF Connect, Same
<1>2. CASE GetVoltages(c)
  BY <1>0, <1>2 DEF GetVoltages, Enter
<1>3. CASE GetPri(c) \/ GetSec(c)
  BY <1>0, <1>3 DEF GetPri, GetSec, Same
<1>4. CASE GetDone(c)
  BY <1>0, <1>4 DEF GetDone, Leave, Unlock
<1>5. CASE LockStep(c)
  <2>1. Contend(c) /\ UNCHANGED <<pc, via, cpc>>
    BY <1>5 DEF LockStep, Contend, clientVars
  <2>2. lk[c] # "none" /\ ~ Inside(c)
    BY <2>1 DEF Contend, LockTry, LockSwap, LockWait
  <2> QED
    BY <1>0, <2>1, <2>2
<1>6. CASE Die(c)
  BY <1>0, <1>6 DEF Die, End
<1> QED
  BY <1>1, <1>2, <1>3, <1>4, <1>5, <1>6 DEF Reader

LEMMA MutexStep == MutexInv /\ [Next]_vars => MutexInv'
<1> SUFFICES ASSUME MutexInv, [Next]_vars PROVE MutexInv'
  OBVIOUS
<1>0. MutexType /\ MutualExclusion /\ DaemonPlace /\ ReaderPlace
  BY DEF MutexInv
<1>1. CASE StartDaemon \/ Run \/ Signal \/ Kill
  <2>1. DaemonKind /\ DaemonPlace' /\ UNCHANGED cpc
    BY <1>1, DaemonMoves
  <2>2. Daemon \in Proc /\ \A c \in Client : c \in Proc /\ c # Daemon
    BY PMonAssumption DEF Proc
  <2>3. MutexType' /\ MutualExclusion'
    BY <1>0, <2>1, <2>2, LockKeeps DEF DaemonKind, MutexType
  <2>4. ASSUME NEW c \in Client
        PROVE  /\ lk[c] = "none" => lk'[c] = "none"
               /\ Inside(c) => Inside(c)'
    <3>1. CASE Same
      BY <3>1 DEF Same, Inside
    <3>2. CASE Reinit \/ Wipe
      BY <1>0, <2>2, <3>2, ReinitKeeps
    <3>3. CASE Enter(Daemon) \/ Contend(Daemon) \/ Leave(Daemon) \/ End(Daemon)
      BY <1>0, <2>2, <3>3, OthersKeep
    <3> QED
      BY <2>1, <3>1, <3>2, <3>3 DEF DaemonKind
  <2>5. ReaderPlace'
    BY <1>0, <2>1, <2>4 DEF ReaderPlace
  <2> QED
    BY <2>1, <2>3, <2>5 DEF MutexInv
<1>2. ASSUME NEW c \in Client, Reader(c) \/ Die(c) PROVE MutexInv'
  <2>1. /\ ReaderKind(c) /\ UNCHANGED <<pc, via>>
        /\ \A d \in Client \ {c} : cpc'[d] = cpc[d]
        /\ cpc' \in [Client -> ReaderPC]
        /\ cpc'[c] \in {"out", "null", "idle"} => lk'[c] = "none"
        /\ cpc'[c] \in {"sec", "unlock"} => Inside(c)'
    BY <1>2, ReaderMoves
  <2>2. c \in Proc /\ c # Daemon
    BY PMonAssumption DEF Proc
  <2>3. MutexType' /\ MutualExclusion'
    BY <1>0, <2>1, <2>2, LockKeeps DEF ReaderKind, MutexType
  <2>4. ASSUME NEW q \in Proc, q # c
        PROVE  /\ lk[q] = "none" => lk'[q] = "none"
               /\ Inside(q) => Inside(q)'
    <3>1. CASE Same
      BY <3>1 DEF Same, Inside
    <3>2. CASE Enter(c) \/ Contend(c) \/ Leave(c) \/ End(c)
      BY <1>0, <2>2, <2>4, <3>2, OthersKeep
    <3> QED
      BY <2>1, <3>1, <3>2 DEF ReaderKind
  <2>5. DaemonPlace'
    <3>1. Daemon \in Proc
      BY DEF Proc
    <3>2. /\ lk[Daemon] = "none" => lk'[Daemon] = "none"
          /\ Inside(Daemon) => Inside(Daemon)'
      BY <2>2, <2>4, <3>1
    <3>3. Exiting' <=> Exiting
      BY <2>1 DEF Exiting
    <3> QED
      BY <1>0, <2>1, <3>2, <3>3 DEF DaemonPlace
  <2>6. ASSUME NEW d \in Client, d # c
        PROVE  /\ cpc'[d] \in {"out", "null", "idle"} => lk'[d] = "none"
               /\ cpc'[d] \in {"sec", "unlock"} => Inside(d)'
    BY <1>0, <2>1, <2>4, <2>6 DEF ReaderPlace, Proc
  <2>7. ReaderPlace'
    BY <2>1, <2>6 DEF ReaderPlace
  <2> QED
    BY <2>3, <2>5, <2>7 DEF MutexInv
<1>3. CASE SerialLine \/ Tick \/ UNCHANGED vars
  <2>1. UNCHANGED <<mutex, lk, caught, pc, via, cpc>>
    BY <1>3 DEF SerialLine, Answer, Unplug, Plug, Tick, vars, shmVars, daemonVars,
                clientVars, history
  <2> QED
    BY <1>0, <2>1 DEF MutexInv, MutexType, MutualExclusion, DaemonPlace,
                      ReaderPlace, In, Inside, Exiting
<1> QED
  BY <1>1, <1>2, <1>3 DEF Next

\* One process is inside at a time, for any number of readers, starts and deaths,
\* but for as many as an initialisation found inside (Cmds_PMon.c:69), until all
\* have left; and the word is set only while somebody is inside.
THEOREM MutualExclusionHolds == Spec => []MutualExclusion
<1>1. MutexInv => MutualExclusion
  BY DEF MutexInv
<1> QED
  BY MutexInit, MutexStep, <1>1, PTL DEF Spec

-----------------------------------------------------------------------------
(* The pair of voltages a reader takes                                     *)

\* The daemon has initialised the segment and not begun to clear it.
Steady ==
  /\ attached
  /\ pc \in {"mutex", "connect", "openlog", "setconn", "sleep", "poll", "select",
             "read", "parse", "lock", "unlock"}

Cleared ==
  /\ pc \in {"clrpri", "clrsec", "detach"} => connected = 0
  /\ pc \in {"close", "lostlog"} => ~ attached

Functional ==
  /\ volts = [ch \in Chan |-> volts[ch]]
  /\ got = [c \in Client |-> [ch \in Chan |-> got[c][ch]]]

\* The reader is the only one inside, and the word is set: nobody else gets in.
Alone(c) == mutex # 0 /\ In = {c}

\* SnapshotWhole, and the same while the port is not yet marked connected.
FirstCurrent(c) ==
  cpc[c] = "sec" /\ Alone(c) /\ (connected = 1 \/ Steady) => got[c][1] = volts[1]

SnapInv == Cleared /\ Functional /\ \A c \in Client : FirstCurrent(c)

LEMMA SnapInit == Init => SnapInv
<1> SUFFICES ASSUME Init PROVE SnapInv
  OBVIOUS
<1>1. /\ volts = Zeros /\ got = [c \in Client |-> Zeros] /\ pc = "off"
      /\ cpc = [c \in Client |-> "out"]
  BY DEF Init
<1> QED
  BY <1>1 DEF SnapInv, Cleared, Functional, FirstCurrent, Zeros

\* A reader that is inside while nobody was caught by an initialisation is alone.
LEMMA UncaughtAlone ==
  ASSUME MutexInv, NEW c \in Client, Inside(c), caught = 0
  PROVE  Alone(c)
<1>1. c \in In /\ Cardinality(In) <= IF mutex # 0 THEN 1 ELSE 0
  BY DEF MutexInv, MutualExclusion, In, Proc
<1>2. Cardinality(In \ {c}) = Cardinality(In) - 1 /\ Cardinality(In \ {c}) \in Nat
      /\ IsFiniteSet(In \ {c})
  BY <1>1, InFinite, FS_RemoveElement, FS_CardinalityType
<1>3. mutex # 0 /\ Cardinality(In \ {c}) = 0
  BY <1>1, <1>2, InFinite
<1>4. In \ {c} = {}
  BY <1>2, <1>3, FS_EmptySet
<1> QED
  BY <1>1, <1>3, <1>4 DEF Alone

\* Nobody else's step leaves a reader alone inside who was not before.
LEMMA AloneBefore ==
  ASSUME MutexInv, NEW c \in Client, NEW q \in Proc, c # q,
         \/ Same \/ Reinit \/ Wipe
         \/ Enter(q) \/ Contend(q) \/ Leave(q) \/ End(q),
         Alone(c)'
  PROVE  Alone(c)
<1>1. c \in Proc /\ lk \in [Proc -> LockState]
  BY DEF MutexInv, MutexType, Proc
<1> USE <1>1 DEF Alone, In, Inside
<1>2. CASE Same
  BY <1>2 DEF Same
<1>3. CASE Reinit \/ Wipe \/ Leave(q)
  BY <1>3 DEF Reinit, Wipe, Leave, Unlock
<1>4. CASE Enter(q) \/ End(q)
  <2>1. In' = In /\ mutex' = mutex
    BY <1>4 DEF Enter, End, Abandon
  <2> QED
    BY <2>1
<1>5. CASE Contend(q)
  <2>1. lk'[q] # "in" /\ lk[q] # "in"
    BY <1>5 DEF Contend, LockTry, LockSwap, LockWait
  <2>2. \A p \in Proc : lk'[p] = "in" <=> lk[p] = "in"
    BY <1>5, <2>1 DEF Contend, LockTry, LockSwap, LockWait
  <2>3. mutex # 0
    BY <1>5, <2>1 DEF Contend, LockTry, LockSwap, LockWait
  <2> QED
    BY <2>2, <2>3
<1> QED
  BY <1>2, <1>3, <1>4, <1>5

\* A daemon step that neither stores a voltage nor makes the segment steady or
\* connected leaves the snapshot as it is.
LEMMA QuietKeeps ==
  ASSUME MutexInv, SnapInv, DaemonKind, UNCHANGED <<volts, got, cpc>>,
         (connected' = 1 \/ Steady') => (connected = 1 \/ Steady)
  PROVE  Functional' /\ \A c \in Client : FirstCurrent(c)'
<1>1. Functional'
  BY DEF SnapInv, Functional
<1>2. ASSUME NEW c \in Client PROVE FirstCurrent(c)'
  <2>1. Daemon \in Proc /\ c # Daemon
    BY PMonAssumption DEF Proc
  <2>2. Alone(c)' => Alone(c)
    BY <2>1, AloneBefore DEF DaemonKind
  <2> QED
    BY <2>2 DEF SnapInv, FirstCurrent
<1> QED
  BY <1>1, <1>2

LEMMA SnapDaemon ==
  ASSUME MutexInv, SnapInv, StartDaemon \/ Run \/ Signal \/ Kill
  PROVE  SnapInv'
<1>0. DaemonKind /\ UNCHANGED cpc
  BY DaemonMoves
<1>1. CASE CreateZero
  <2>1. /\ mutex' = 0 /\ volts' = Zeros /\ pc' = "mutex" /\ UNCHANGED got
    BY <1>1 DEF CreateZero, clientVars
  <2> QED
    BY <2>1 DEF SnapInv, Cleared, Functional, FirstCurrent, Alone, Zeros
<1>2. CASE ReceiveStore
  <2>1. /\ Inside(Daemon) /\ pc' = "unlock" /\ UNCHANGED <<lk, got, connected, attached>>
        /\ volts' = [volts EXCEPT ![Head(backlog).ch] = Head(backlog).value]
    BY <1>2 DEF ReceiveStore, clientVars
  <2>2. ASSUME NEW c \in Client PROVE ~ Alone(c)'
    BY <2>1, PMonAssumption DEF Alone, In, Inside, Proc
  <2>3. Functional'
    BY <2>1 DEF SnapInv, Functional
  <2> QED
    BY <2>1, <2>2, <2>3 DEF SnapInv, Cleared, FirstCurrent
<1>3. CASE ClearVoltage
  <2>1. /\ connected = 0 /\ connected' = 0 /\ pc' \in {"clrsec", "detach"}
        /\ UNCHANGED got
    BY <1>3 DEF ClearVoltage, SnapInv, Cleared, clientVars
  <2>2. Functional'
    BY <1>3, <2>1 DEF ClearVoltage, SnapInv, Functional
  <2> QED
    BY <2>1, <2>2 DEF SnapInv, Cleared, FirstCurrent, Steady
<1>4. CASE \/ StartDaemon \/ CreateAttach \/ CreateMutex
           \/ OpenPort \/ OpenLog \/ SetConnected \/ Sleep
  <2>1. /\ UNCHANGED <<volts, got>> /\ Cleared'
        /\ (connected' = 1 \/ Steady') => (connected = 1 \/ Steady)
    BY <1>4 DEF StartDaemon, CreateAttach, CreateMutex, OpenPort, OpenLog,
                SetConnected, Sleep, Steady, Cleared, shmVars, clientVars
  <2> QED
    BY <1>0, <2>1, QuietKeeps DEF SnapInv
<1>5. CASE \/ Poll \/ Select \/ ReadLines \/ ReadNothing
           \/ Parse \/ ReceiveVoltage \/ ReceiveUnlock \/ LockStep(Daemon)
  <2>1. /\ UNCHANGED <<volts, got, connected, attached>> /\ Cleared'
        /\ Steady' => Steady
    BY <1>5 DEF Poll, Select, ReadLines, ReadNothing, Parse, ReceiveVoltage,
                ReceiveUnlock, LockStep, Steady, SnapInv, Cleared, shmVars,
                clientVars, daemonVars
  <2> QED
    BY <1>0, <2>1, QuietKeeps DEF SnapInv
<1>6. CASE \/ ClearConnected \/ Detach \/ ClosePort \/ LostLog
           \/ Fault \/ ExitLog \/ Signal \/ Kill
  <2>1. /\ UNCHANGED <<volts, got>> /\ Cleared'
        /\ (connected' = 1 \/ Steady') => (connected = 1 \/ Steady)
    BY <1>6 DEF ClearConnected, Detach, ClosePort, LostLog, Fault, ExitLog,
                Ended, Signal, Kill, Steady, SnapInv, Cleared, shmVars, clientVars
  <2> QED
    BY <1>0, <2>1, QuietKeeps DEF SnapInv
<1> QED
  BY <1>1, <1>2, <1>3, <1>4, <1>5, <1>6 DEF Run

\* Writing one of a reader's two values leaves got a function of pairs.
LEMMA PairWritten ==
  ASSUME Functional, NEW c \in Client, NEW i \in Chan, NEW v,
         got' = [got EXCEPT ![c][i] = v]
  PROVE  /\ got' = [d \in Client |-> [ch \in Chan |-> got'[d][ch]]]
         /\ \A d \in Client \ {c} : got'[d] = got[d]
         /\ got'[c][i] = v
<1>1. got = [d \in Client |-> [ch \in Chan |-> got[d][ch]]]
  BY DEF Functional
<1>2. DOMAIN got = Client /\ \A d \in Client : got[d] = [ch \in Chan |-> got[d][ch]]
  BY <1>1
<1>3. \A d \in Client : DOMAIN got[d] = Chan
  BY <1>2
<1>4. got' = [d \in Client |-> IF d = c THEN [got[c] EXCEPT ![i] = v] ELSE got[d]]
  BY <1>2
<1>5. got'[c] = [ch \in Chan |-> IF ch = i THEN v ELSE got[c][ch]]
  BY <1>3, <1>4
<1>6. \A d \in Client \ {c} : got'[d] = got[d]
  BY <1>4
<1>7. \A d \in Client : got'[d] = [ch \in Chan |-> got'[d][ch]]
  BY <1>2, <1>5, <1>6
<1>8. got' = [d \in Client |-> got'[d]]
  BY <1>4
<1> QED
  BY <1>5, <1>6, <1>7, <1>8

LEMMA SnapReader ==
  ASSUME MutexInv, SnapInv, NEW c \in Client, Reader(c) \/ Die(c)
  PROVE  SnapInv'
<1>0. /\ ReaderKind(c) /\ UNCHANGED <<volts, connected, attached, pc>>
      /\ \A d \in Client \ {c} : cpc'[d] = cpc[d]
  <2>1. UNCHANGED <<volts, connected, attached>>
    BY DEF Reader, Connect, GetVoltages, GetPri, GetSec, GetDone, LockStep, Die,
           shmVars, daemonVars
  <2> QED
    BY <2>1, ReaderMoves
<1>1. Cleared' /\ (Steady' <=> Steady)
  BY <1>0 DEF SnapInv, Cleared, Steady
<1>2. /\ Functional'
      /\ \A d \in Client \ {c} : got'[d] = got[d]
      /\ cpc'[c] = "sec" => \/ GetPri(c)
                            \/ LockStep(c) /\ cpc[c] = "sec"
  <2>0. /\ cpc \in [Client -> ReaderPC] /\ Functional /\ UNCHANGED volts
        /\ DOMAIN got = Client
    BY <1>0 DEF MutexInv, MutexType, SnapInv, Functional
  <2>1. CASE Connect(c) \/ GetDone(c) \/ Die(c)
    BY <2>0, <2>1 DEF Connect, GetDone, Die, Functional
  <2>2. CASE LockStep(c)
    BY <2>0, <2>2 DEF LockStep, clientVars, Functional
  <2>3. CASE GetVoltages(c)
    <3>1. /\ got' = [got EXCEPT ![c] = Zeros]
          /\ cpc' = [cpc EXCEPT ![c] = "pri"]
      BY <2>3 DEF GetVoltages
    <3> QED
      BY <2>0, <3>1 DEF Functional, Zeros
  <2>4. CASE GetPri(c)
    <3>1. got' = [got EXCEPT ![c][1] = volts[1]]
      BY <2>4 DEF GetPri
    <3>2. /\ got' = [d \in Client |-> [ch \in Chan |-> got'[d][ch]]]
          /\ \A d \in Client \ {c} : got'[d] = got[d]
      BY <2>0, <3>1, PairWritten DEF Chan
    <3> QED
      BY <2>0, <2>4, <3>2 DEF Functional
  <2>5. CASE GetSec(c)
    <3>1. /\ got' = [got EXCEPT ![c][2] = volts[2]]
          /\ cpc' = [cpc EXCEPT ![c] = "unlock"]
      BY <2>5 DEF GetSec
    <3>2. /\ got' = [d \in Client |-> [ch \in Chan |-> got'[d][ch]]]
          /\ \A d \in Client \ {c} : got'[d] = got[d]
      BY <2>0, <3>1, PairWritten DEF Chan
    <3> QED
      BY <2>0, <3>1, <3>2 DEF Functional
  <2> QED
    BY <2>1, <2>2, <2>3, <2>4, <2>5 DEF Reader
<1>3. ASSUME NEW d \in Client, d # c PROVE FirstCurrent(d)'
  <2>1. c \in Proc /\ d \in Proc /\ Daemon \in Proc /\ c # Daemon
        /\ lk \in [Proc -> LockState]
    BY PMonAssumption DEF MutexInv, MutexType, Proc
  <2>2. Alone(d)' => Alone(d)
    BY <1>0, <1>3, <2>1, AloneBefore DEF ReaderKind
  <2> QED
    BY <1>0, <1>1, <1>2, <1>3, <2>2 DEF SnapInv, FirstCurrent
<1>4. FirstCurrent(c)'
  <2>1. CASE GetPri(c)
    BY <1>0, <2>1 DEF GetPri, FirstCurrent, SnapInv, Functional, Chan
  <2>2. CASE LockStep(c) /\ cpc[c] = "sec"
    <3>1. Inside(c)
      BY <2>2 DEF MutexInv, ReaderPlace
    <3> QED
      BY <2>2, <3>1 DEF LockStep, LockTry, LockSwap, LockWait, Inside
  <2> QED
    BY <1>2, <2>1, <2>2 DEF FirstCurrent
<1> QED
  BY <1>1, <1>2, <1>3, <1>4 DEF SnapInv

LEMMA SnapStep == MutexInv /\ SnapInv /\ [Next]_vars => SnapInv'
<1> SUFFICES ASSUME MutexInv, SnapInv, [Next]_vars PROVE SnapInv'
  OBVIOUS
<1>1. CASE SerialLine \/ Tick \/ UNCHANGED vars
  <2>1. UNCHANGED <<mutex, lk, pc, attached, connected, volts, cpc, got>>
    BY <1>1 DEF SerialLine, Answer, Unplug, Plug, Tick, vars, shmVars, daemonVars,
                clientVars
  <2> QED
    BY <2>1 DEF SnapInv, Cleared, Functional, FirstCurrent, Steady, Alone, In, Inside
<1> QED
  BY <1>1, SnapDaemon, SnapReader DEF Next

\* PMon_GetVoltages returns a pair that was current when it took the second
\* value, however many readers there are and whatever the daemon goes through,
\* but for a port no longer connected and readers an initialisation found inside.
THEOREM SnapshotWholeHolds == Spec => []SnapshotWhole
<1>1. Spec => []MutexInv
  BY MutexInit, MutexStep, PTL DEF Spec
<1>2. MutexInv /\ SnapInv => SnapshotWhole
  <2> SUFFICES ASSUME MutexInv, SnapInv, NEW c \in Client, cpc[c] = "sec",
                      connected = 1, caught = 0 \/ (mutex # 0 /\ In = {c})
               PROVE  got[c][1] = volts[1]
    BY DEF SnapshotWhole
  <2>1. Inside(c)
    BY DEF MutexInv, ReaderPlace
  <2>2. Alone(c)
    BY <2>1, UncaughtAlone DEF Alone
  <2> QED
    BY <2>2 DEF SnapInv, FirstCurrent
<1> QED
  BY <1>1, <1>2, SnapInit, SnapStep, PTL DEF Spec

-----------------------------------------------------------------------------
(* The port and the mapping of the segment.                                *)

\* Where the code is while it exits, and where no port is open or "connected"
\* is not set; and, as long as no close has failed, what each place knows of the
\* port and of the mapping.
PortInv ==
  /\ connected \in {0, 1}
  /\ Exiting =>
       pc \in {"clrconn", "clrpri", "clrsec", "detach", "exitlog", "hung"}
  /\ pc \in {"openlog", "setconn", "parse", "lock", "unlock"} => fd = "port"
  /\ ~ unclosed =>
       /\ pc \in {"zero", "mutex", "connect", "openlog", "setconn", "sleep"} => attached
       /\ pc \in {"parse", "lock", "unlock"} => attached
       /\ pc \in {"poll", "select", "read"} => attached \/ fd = "null"
       /\ pc \in {"clrconn", "clrpri", "clrsec", "detach"} /\ ~ Exiting => attached
       /\ pc = "lostlog" => fd = "null"
  /\ pc \in {"mutex", "connect", "openlog", "setconn", "sleep", "clrpri", "clrsec",
             "detach", "close", "lostlog", "exitlog", "hung"} => connected = 0
  /\ pc \in {"poll", "select", "read"} /\ connected = 1 => fd = "port"
  /\ pc \in {"off", "create", "zero", "mutex", "connect", "openlog", "setconn",
             "sleep", "poll", "select", "read", "parse", "lock", "unlock",
             "clrconn", "clrpri", "clrsec", "detach", "close", "lostlog",
             "exitlog", "hung"}
  /\ unclosed \in BOOLEAN

LEMMA PortInit == Init => PortInv
  BY DEF Init, PortInv, Exiting

LEMMA PortStep == PortInv /\ [Next]_vars => PortInv'
<1> SUFFICES ASSUME PortInv, [Next]_vars PROVE PortInv'
  OBVIOUS
<1> USE DEF PortInv, Exiting, shmVars, lineVars, clientVars, history
<1>1. CASE StartDaemon \/ CreateAttach \/ CreateZero \/ CreateMutex
  BY <1>1 DEF StartDaemon, CreateAttach, CreateZero, CreateMutex
<1>2. CASE OpenPort \/ OpenLog \/ SetConnected \/ Sleep
  BY <1>2 DEF OpenPort, OpenLog, SetConnected, Sleep
<1>3. CASE Poll
  BY <1>3 DEF Poll
<1>4. CASE Select \/ ReadLines \/ ReadNothing
  BY <1>4 DEF Select, ReadLines, ReadNothing
<1>5. CASE Parse \/ ReceiveVoltage \/ ReceiveStore \/ ReceiveUnlock
  <2>1. /\ UNCHANGED <<via, fd, attached, connected, unclosed>>
        /\ pc \in {"parse", "lock", "unlock"} /\ pc' \in {"poll", "parse", "lock", "unlock"}
    BY <1>5 DEF Parse, ReceiveVoltage, ReceiveStore, ReceiveUnlock
  <2> QED
    BY <2>1
<1>6. CASE ClearConnected \/ ClearVoltage \/ Detach \/ LostLog
  BY <1>6 DEF ClearConnected, ClearVoltage, Detach, LostLog
<1>10. CASE ClosePort
  BY <1>10 DEF ClosePort
<1>7. CASE Fault \/ ExitLog \/ Signal \/ Kill
  BY <1>7 DEF Fault, ExitLog, Signal, Kill, Ended
<1>8. CASE \/ LockStep(Daemon) \/ SerialLine \/ Tick
           \/ \E c \in Client : Reader(c) \/ Die(c)
  <2>1. UNCHANGED <<pc, via, fd, attached, connected, unclosed>>
    BY <1>8 DEF LockStep, SerialLine, Answer, Unplug, Plug, Tick, Reader, Connect,
                GetVoltages, GetPri, GetSec, GetDone, Die, daemonVars
  <2> QED
    BY <2>1
<1>9. CASE UNCHANGED vars
  BY <1>9 DEF vars, daemonVars
<1> QED
  BY <1>1, <1>2, <1>3, <1>4, <1>5, <1>6, <1>7, <1>8, <1>9, <1>10
     DEF Next, Run

LEMMA PortInvHolds == Spec => []PortInv
  BY PortInit, PortStep, PTL DEF Spec

\* Readers see "connected" only while the port is open, and "disconnected" once
\* the daemon's exit handler has run (PowerMon_Main.c:153), close failed or not.
THEOREM ConnectedIsTrueHolds == Spec => []ConnectedIsTrue
<1>1. PortInv => ConnectedIsTrue
  BY DEF PortInv, ConnectedIsTrue
<1> QED
  BY <1>1, PortInvHolds, PTL

\* Unless close fails, the daemon touches no memory it detached, although it goes
\* on in its main loop after PMon_ClearSharedMemory (PowerMon_Main.c:146): with a
\* descriptor of 0 it never comes back to Connect_To_Port.
THEOREM NoUseAfterDetachHolds == Spec => []NoUseAfterDetach
<1>1. PortInv => NoUseAfterDetach
  BY DEF PortInv, NoUseAfterDetach
<1> QED
  BY <1>1, PortInvHolds, PTL
=============================================================================
