---------------------------- MODULE SessionProofs ----------------------------
(***************************************************************************)
(* Session keeps the promises of the modules it composes, and the block    *)
(* stays inside the runs of the monitor, for any processes beside it, any  *)
(* number of executables and of inputs.                                    *)
(***************************************************************************)
EXTENDS Session, BlockAppProofs

-----------------------------------------------------------------------------
(* The components.                                                          *)

\* A step of the composition is one of BlockApp, or none.
LEMMA BlockStep == [SessionNext]_svars => [Next]_vars
<1> SUFFICES ASSUME [SessionNext]_svars PROVE [Next]_vars
  OBVIOUS
<1>1. CASE MonitorMain \/ MonitorThreads
  BY <1>1 DEF MonitorMain, MonitorThreads, MonitorThread
<1>2. ASSUME NEW t \in Tool,
             CallBlockApp(t) \/ InBlock(t) \/ EndProcess(t) \/ RundownSession(t)
      PROVE  Next
  BY <1>2 DEF CallBlockApp, InBlock, Contexts, EndProcess, RundownSession, Next
<1>3. CASE UNCHANGED svars
  BY <1>3 DEF svars
<1> QED
  BY <1>1, <1>2, <1>3 DEF SessionNext

\* The processes of the composition run BlockApp as BlockApp says.
THEOREM BlockAppHolds == SessionSpec => Spec
<1>1. SessionInit => Init
  BY DEF SessionInit
<1> QED
  BY <1>1, BlockStep, PTL DEF SessionSpec, Spec

\* A step of the composition is one of Monitor, or none.
LEMMA MonitorStep == [SessionNext]_svars => [M!Next]_mvars
<1> SUFFICES ASSUME [SessionNext]_svars PROVE [M!Next]_mvars
  OBVIOUS
<1>1. CASE MonitorMain
  BY <1>1 DEF MonitorMain, M!Next
<1>2. CASE MonitorThreads
  BY <1>2 DEF MonitorThreads, MonitorThread, M!Next
<1>3. ASSUME NEW t \in Tool,
             CallBlockApp(t) \/ InBlock(t) \/ EndProcess(t) \/ RundownSession(t)
      PROVE  UNCHANGED mvars
  BY <1>3 DEF CallBlockApp, InBlock, EndProcess, RundownSession
<1>4. CASE UNCHANGED svars
  BY <1>4 DEF svars
<1> QED
  BY <1>1, <1>2, <1>3, <1>4 DEF SessionNext

\* The monitor of the composition does what Monitor says: what is proved of
\* Monitor is true of it.
THEOREM MonitorHolds == SessionSpec => M!Spec
<1>1. SessionInit => M!Init
  BY DEF SessionInit
<1>2. [M!Next]_mvars => [M!Next]_(M!vars)
  BY DEF mvars, M!vars, M!loop, M!chans, M!hotkey, M!trayThread, M!shell, M!count
<1> QED
  BY <1>1, <1>2, MonitorStep, PTL DEF SessionSpec, M!Spec

-----------------------------------------------------------------------------
(* Blocks and runs.                                                         *)

\* Outside its runs the monitor is in no BlockApp call.
RunsHoldBlocks == Alive(Mon) /\ main # "closing" => ~InBlockApp(Mon)

\* The threads, their goroutines and the user leave the loop alone.
LEMMA ThreadsLeave == MonitorThreads => UNCHANGED <<main, pc>>
<1>1. MonitorThreads => UNCHANGED pc
  BY DEF MonitorThreads, MonitorThread, vars
<1>2. M!Hotkey \/ M!PumpFails \/ M!WatchHotkey => UNCHANGED main
  BY DEF M!Hotkey, M!Register, M!Pump, M!WaitWatcher, M!PumpFails, M!WatchHotkey,
     M!loop
<1>3. M!Tray \/ M!PumpTrayFails \/ M!WatchTray => UNCHANGED main
  BY DEF M!Tray, M!MenuQuits, M!Create, M!Publish, M!PumpTray, M!RemoveIcon,
     M!TrayReturns, M!PumpTrayFails, M!WatchTray, M!loop
<1>4. M!User => UNCHANGED main
  BY DEF M!User, M!PressHotkey, M!CtrlC, M!TrayMessage, M!PickFromMenu, M!loop
<1> QED
  BY <1>1, <1>2, <1>3, <1>4 DEF MonitorThreads, MonitorThread

LEMMA RunsHoldBlocksStep ==
  ASSUME Typed, RunsHoldBlocks, [SessionNext]_svars
  PROVE  RunsHoldBlocks'
<1> USE SessionAssumption DEF RunsHoldBlocks, Alive, InBlockApp
<1>1. CASE MonitorMain
  BY <1>1 DEF MonitorMain, Awaits, vars
<1>2. CASE MonitorThreads
  BY <1>2, ThreadsLeave
<1>3. ASSUME NEW t \in Tool, CallBlockApp(t) PROVE RunsHoldBlocks'
  <2>1. UNCHANGED main
    BY <1>3 DEF CallBlockApp, mvars
  <2>2. CASE t = Mon
    BY <1>3, <2>1, <2>2 DEF CallBlockApp, InRun
  <2>3. CASE t # Mon
    <3>1. pc'[Mon] = pc[Mon]
      BY <1>3, <2>3 DEF CallBlockApp, Call, Goto, Typed
    <3> QED
      BY <2>1, <3>1
  <2> QED
    BY <2>2, <2>3
<1>4. ASSUME NEW t \in Tool, InBlock(t) PROVE RunsHoldBlocks'
  <2>1. UNCHANGED main
    BY <1>4 DEF InBlock, mvars
  <2>2. pc[t] \in {"appId", "open", "add", "window", "close", "free"}
    BY <1>4 DEF InBlock, Step, Proceeds, AppIDFromPath, OpenDynamicEngine,
       AddFilter, TimerEnds, CtxEnds, CloseEngine, FreeBlob, Goto
  <2>3. CASE t = Mon
    BY <2>1, <2>2, <2>3
  <2>4. CASE t # Mon
    <3>1. pc'[Mon] = pc[Mon]
      BY <1>4, <2>4 DEF InBlock, Step, Proceeds, AppIDFromPath, OpenDynamicEngine,
         AddFilter, TimerEnds, CtxEnds, CloseEngine, FreeBlob, Goto, Typed
    <3> QED
      BY <2>1, <3>1
  <2> QED
    BY <2>3, <2>4
<1>5. ASSUME NEW t \in Tool, EndProcess(t) \/ RundownSession(t)
      PROVE  RunsHoldBlocks'
  <2>1. UNCHANGED main
    BY <1>5 DEF EndProcess, RundownSession, mvars
  <2>2. pc'[Mon] \in {pc[Mon], "dead"}
    BY <1>5 DEF EndProcess, RundownSession, Crash, Rundown, Typed
  <2> QED
    BY <2>1, <2>2
<1>6. CASE UNCHANGED svars
  BY <1>6 DEF svars, vars, mvars
<1> QED
  BY <1>1, <1>2, <1>3, <1>4, <1>5, <1>6 DEF SessionNext

\* Game traffic is only ever blocked by a run in progress: a monitor that waits,
\* stops or has stopped holds no filters, no session and no application id.
THEOREM BlocksTheorem == SessionSpec => []BlocksOnlyInRuns
<1>1. SessionInit => RunsHoldBlocks
  BY SessionAssumption DEF SessionInit, Init, RunsHoldBlocks, InBlockApp
<1>2. SessionSpec => []IInv
  BY BlockAppHolds, Invariance, PTL
<1>3. IInv => Typed
  BY DEF IInv
<1>4. SessionSpec => []RunsHoldBlocks
  BY <1>1, <1>2, <1>3, RunsHoldBlocksStep, PTL DEF SessionSpec
<1>5. IInv /\ RunsHoldBlocks => BlocksOnlyInRuns
  BY SessionAssumption DEF IInv, Typed, Holds, Pc, RunsHoldBlocks, BlocksOnlyInRuns,
     Alive, InBlockApp
<1> QED
  BY <1>2, <1>4, <1>5, PTL
=============================================================================
