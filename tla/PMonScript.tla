----------------------------- MODULE PMonScript ----------------------------
(***************************************************************************)
(* PowerMonitor.sh, installed in /etc/init.d, and the daemons it starts    *)
(* and stops.  pkill only sends the signal, so a daemon may still be on    *)
(* its way out while the next one sets up the same shared memory.  What a  *)
(* daemon does in between is in PMonDaemon; here the line does not fail    *)
(* and exit handlers end.                                                  *)
(***************************************************************************)
EXTENDS Naturals, FiniteSetsExt

CONSTANTS MaxDaemon,  \* daemons ever started (bound)
          MaxCalls    \* calls of the script (bound)

ASSUME ScriptAssumption == {MaxDaemon, MaxCalls} \subseteq Nat

Daemon == 1 .. MaxDaemon
Arg == {"start", "stop", "restart", "retart"}

VARIABLES
  arg, byName,  \* of the call: its argument, and whether it runs as PowerMonitor.sh
  script,    \* "idle", "kill", "start", "wait", or how it ended: "done", "killed"
  began,     \* the call has started a daemon
  calls,
  state,     \* of each daemon: "none", "boot", "zeroed", "connect", "opened",
             \* "running", "leaving" after the signal, "gone"
  pending,   \* daemons with SIGTERM on its way
  connected, \* port_connected in the shared memory
  crossed    \* a daemon was started while another still ran

shell == <<arg, byName, script, began, calls>>
scriptVars == <<shell, state, pending, connected, crossed>>

Alive == {d \in Daemon : state[d] \notin {"none", "gone"}}

ScriptInit ==
  /\ arg = "stop" /\ byName = FALSE /\ script = "idle" /\ began = FALSE /\ calls = 0
  /\ state = [d \in Daemon |-> "none"] /\ pending = {}
  /\ connected = 0 /\ crossed = FALSE

-----------------------------------------------------------------------------
\* case "$1" in
Call ==
  /\ script \in {"idle", "done", "killed"} /\ calls < MaxCalls /\ calls' = calls + 1
  /\ arg' \in Arg /\ byName' \in BOOLEAN /\ began' = FALSE
  /\ script' = CASE arg' = "start" -> "start"
                 [] arg' \in {"stop", "retart"} -> "kill"
                 [] OTHER -> "done"
  /\ UNCHANGED <<state, pending, connected, crossed>>

\* pkill PowerMonitor: all processes of a name that begins so, of which the
\* script itself may be one.  It does not wait for them.
Pkill ==
  /\ script = "kill"
  /\ pending' = pending \cup Alive
  /\ script' = IF byName THEN "killed" ELSE IF arg = "retart" THEN "start" ELSE "done"
  /\ UNCHANGED <<arg, byName, began, calls, state, connected, crossed>>

StartDaemon ==
  /\ script = "start" /\ script' = "wait" /\ began' = TRUE
  /\ \E d \in Daemon :
       /\ state[d] = "none" /\ \A e \in 1 .. d - 1 : state[e] # "none"
       /\ state' = [state EXCEPT ![d] = "boot"]
  /\ crossed' = (crossed \/ Alive # {})
  /\ UNCHANGED <<arg, byName, calls, pending, connected>>

\* The command returns when the process forks in daemon(), or ends.
Returned ==
  /\ script = "wait" /\ \A d \in Daemon : state[d] \notin {"boot", "zeroed"}
  /\ script' = "done"
  /\ UNCHANGED <<arg, byName, began, calls, state, pending, connected, crossed>>

-----------------------------------------------------------------------------
Becomes(d, old, new) == state[d] = old /\ state' = [state EXCEPT ![d] = new]

\* PMon_CreateSharedMemory: memset
Create(d) ==
  /\ Becomes(d, "boot", "zeroed") /\ connected' = 0
  /\ UNCHANGED <<shell, pending, crossed>>

\* Setup_SignalHandler, daemon()
Daemonise(d) ==
  /\ Becomes(d, "zeroed", "connect")
  /\ UNCHANGED <<shell, pending, connected, crossed>>

\* Serial_Openport; nothing keeps two daemons from opening the same port.
OpenPort(d) ==
  /\ Becomes(d, "connect", "opened")
  /\ UNCHANGED <<shell, pending, connected, crossed>>

\* slip: the flag is left to the first line received
SetConnectedNot(d) ==
  /\ Becomes(d, "opened", "running")
  /\ UNCHANGED <<shell, pending, connected, crossed>>
\* PMon_SetConnected
SetConnected(d) ==
  /\ Becomes(d, "opened", "running") /\ connected' = 1
  /\ UNCHANGED <<shell, pending, crossed>>

\* slip: no handler is installed for the signal
SignalDefault(d) ==
  /\ d \in pending /\ pending' = pending \ {d} /\ d \in Alive
  /\ state' = [state EXCEPT ![d] = "gone"]
  /\ UNCHANGED <<shell, connected, crossed>>
\* SIGTERM: before Setup_SignalHandler the process just ends, afterwards
\* Run_CtrlC calls exit, once.
Signal(d) ==
  /\ d \in pending /\ pending' = pending \ {d}
  /\ state' = IF state[d] \in {"boot", "zeroed"} THEN [state EXCEPT ![d] = "gone"]
              ELSE IF state[d] = "gone" THEN state
              ELSE [state EXCEPT ![d] = "leaving"]
  /\ UNCHANGED <<shell, connected, crossed>>

\* System_Shutdown: PMon_ClearSharedMemory
Shutdown(d) ==
  /\ Becomes(d, "leaving", "gone") /\ connected' = 0
  /\ UNCHANGED <<shell, pending, crossed>>

Run(d) ==
  \/ Create(d) \/ Daemonise(d) \/ OpenPort(d) \/ SetConnected(d)
  \/ Signal(d) \/ Shutdown(d)

ScriptNext == Call \/ Pkill \/ StartDaemon \/ Returned \/ \E d \in Daemon : Run(d)

ScriptSpec == ScriptInit /\ [][ScriptNext]_scriptVars

-----------------------------------------------------------------------------

\* Clients are told "connected" while a daemon runs, unless daemons ever ran
\* side by side: then the exit handler of one clears the flag of the other,
\* which sets it only once.
RunningIsTold == \A d \in Daemon : state[d] = "running" => connected = 1 \/ crossed

\* The flag does not outlive the daemons that set it, in whatever order they
\* start and end: each of them clears it on its way out.
FlagHasOwner ==
  connected = 1 => \E d \in Daemon : state[d] \in {"running", "leaving"}

\* "Usage: $0 {start|stop|restart}"
RestartOffered == arg = "restart" /\ script = "done" => began
=============================================================================
