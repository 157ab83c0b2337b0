------------------------------ MODULE Session -------------------------------
(***************************************************************************)
(* Processes of the tool side by side: the monitor of Monitor, whose runs  *)
(* are here the BlockApp calls they make, and processes started with       *)
(* -once, which make one run and end.  Any of them may be killed at any    *)
(* moment, and a monitor whose app.Run has returned ends.                  *)
(***************************************************************************)
EXTENDS BlockApp

CONSTANTS
  Mon,          \* the monitor among the processes
  TrayEnabled,  \* cfg.Tray
  MaxInput,     \* bound: inputs of the user to the monitor
  MaxPaths      \* bound: executables a run blocks

ASSUME SessionAssumption == Mon \in Tool /\ MaxPaths \in Nat \ {0}

VARIABLES
  main, exit, busy, presses, errCh, trayDone, ctxDone, hk, hkErr, hkQueue,
  hkWatch, tray, loopErr, trayQueue, trayWatch, quitFlag, icon, current, hidden,
  input, taps, runs,   \* the variables of Monitor
  blocked              \* BlockApp calls each process has made in its run

M == INSTANCE Monitor

mvars == <<main, exit, busy, presses, errCh, trayDone, ctxDone, hk, hkErr,
           hkQueue, hkWatch, tray, loopErr, trayQueue, trayWatch, quitFlag, icon,
           current, hidden, input, taps, runs>>
svars == <<vars, mvars, blocked>>

SessionInit == Init /\ M!Init /\ blocked = [t \in Tool |-> 0]

Alive(t) == pc[t] # "dead"
InBlockApp(t) == pc[t] \notin {"idle", "returned", "dead"}

-----------------------------------------------------------------------------
(* The monitor.                                                             *)

\* Fault: the run goes on in a goroutine of its own when the loop is through
\* with the press.
AwaitsNothing == TRUE

\* closeLobby has returned from its last BlockApp call.
Awaits == main = "closing" => ~InBlockApp(Mon)

\* The select loop.  The run it waits for calls BlockApp in line.
MonitorMain ==
  /\ Alive(Mon) /\ M!Alive
  /\ Awaits
  /\ M!Main
  /\ blocked' = IF main = "closing" THEN [blocked EXCEPT ![Mon] = 0] ELSE blocked
  /\ UNCHANGED vars

\* The threads of the monitor, its goroutines and its user.
MonitorThread(A) == Alive(Mon) /\ M!Alive /\ A /\ UNCHANGED <<vars, blocked>>

MonitorThreads ==
  \/ MonitorThread(M!Hotkey) \/ MonitorThread(M!PumpFails)
  \/ MonitorThread(M!WatchHotkey) \/ MonitorThread(M!Tray)
  \/ MonitorThread(M!PumpTrayFails) \/ MonitorThread(M!WatchTray)
  \/ MonitorThread(M!User)

-----------------------------------------------------------------------------
(* BlockApp in the processes.                                               *)

\* A run of the monitor, or the one run of a -once process.
InRun(t) == t = Mon => main = "closing"

CallBlockApp(t) ==
  /\ InRun(t) /\ blocked[t] < MaxPaths
  /\ Call(t)
  /\ blocked' = [blocked EXCEPT ![t] = @ + 1]
  /\ UNCHANGED mvars

\* The ctx of a call is the one its process passes down: the monitor's is the
\* ctx its threads stop on, that of a -once process may be done at any moment.
Contexts(t) == {done \in BOOLEAN : t = Mon => done = ctxDone}

InBlock(t) ==
  /\ \E done \in Contexts(t) : Step(t, done)
  /\ UNCHANGED <<mvars, blocked>>

\* What is sure to happen in a call although its timer should never fire.
Untimed(t) ==
  Proceeds(t, t = Mon /\ ctxDone) /\ UNCHANGED <<mvars, blocked>>

\* A process is killed, or ends because its work is done.
EndProcess(t) == Crash(t) /\ UNCHANGED <<mvars, blocked>>
RundownSession(t) == Rundown(t) /\ UNCHANGED <<mvars, blocked>>

SessionNext ==
  \/ MonitorMain \/ MonitorThreads
  \/ \E t \in Tool : \/ CallBlockApp(t) \/ InBlock(t) \/ EndProcess(t)
                     \/ RundownSession(t)

SessionSpec == SessionInit /\ [][SessionNext]_svars

\* As in Monitor and in BlockApp, without the timer of the window: that a run
\* ends follows from the end of the BlockApp calls it makes, and that a cancelled
\* one does, from <-ctx.Done() alone.
SessionFairSpec ==
  /\ SessionSpec
  /\ WF_svars(MonitorMain)
  /\ WF_svars(MonitorThread(M!Hotkey)) /\ WF_svars(MonitorThread(M!WatchHotkey))
  /\ WF_svars(MonitorThread(M!Tray)) /\ WF_svars(MonitorThread(M!WatchTray))
  /\ \A t \in Tool : WF_svars(Untimed(t)) /\ WF_svars(RundownSession(t))

-----------------------------------------------------------------------------
(* Properties.                                                              *)

\* A monitor that waits for its next press, shows a balloon, stops or has
\* stopped holds no filters, no session and no application id: game traffic is
\* only ever blocked by a run in progress.
BlocksOnlyInRuns ==
  Alive(Mon) /\ main # "closing" => filters[Mon] = {} /\ ~engine[Mon] /\ ~blob[Mon]

\* A cancel in the middle of a block ends the monitor, and the block first: the
\* window does not wait for its timer, which here may never fire, and no filter
\* outlives the process that was told to stop.
CancelUnblocks == ctxDone ~> (M!Ended \/ ~Alive(Mon)) /\ filters[Mon] = {}
=============================================================================
