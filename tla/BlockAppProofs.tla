--------------------------- MODULE BlockAppProofs ---------------------------
(***************************************************************************)
(* The safety properties of BlockApp, for any number of processes of the   *)
(* tool, each of which may die at any step.                                *)
(***************************************************************************)
EXTENDS BlockApp, TLAPS

\* What a process holds at each statement of BlockApp.
Holds(t) ==
  /\ pc[t] \in {"idle", "appId", "returned"} =>
       ~blob[t] /\ ~engine[t] /\ filters[t] = {}
  /\ pc[t] = "open" => blob[t] /\ ~engine[t] /\ filters[t] = {}
  /\ pc[t] \in {"add", "window", "close"} => blob[t] /\ engine[t]
  /\ pc[t] = "free" => blob[t] /\ ~engine[t] /\ filters[t] = {}
  /\ pc[t] = "window" => filters[t] = AllLayers

Typed ==
  /\ pc \in [Tool -> Pc]
  /\ blob \in [Tool -> BOOLEAN] /\ engine \in [Tool -> BOOLEAN]
  /\ filters \in [Tool -> SUBSET AllLayers]

IInv == Typed /\ \A t \in Tool : Holds(t)

\* The layers, named: a tuple's members are what its four indices give.
LEMMA TheLayers ==
  /\ \A i \in 1 .. 4 : Layers[i] \in AllLayers
  /\ AllLayers = {Layers[1], Layers[2], Layers[3], Layers[4]}
<1>1. 1 .. 4 = {1, 2, 3, 4}
  OBVIOUS
<1> QED
  BY <1>1 DEF AllLayers

\* No process holds anything at first.
LEMMA InvInit == Init => IInv
BY DEF Init, IInv, Typed, Holds, Pc, AllLayers

\* A step of one process touches nothing of another.
LEMMA Local ==
  ASSUME Typed, NEW t \in Tool, NEW u \in Tool, u # t,
         NEW done \in BOOLEAN, Call(t) \/ Step(t, done) \/ Crash(t) \/ Rundown(t),
         Holds(u)
  PROVE  Holds(u)'
<1>1. pc'[u] = pc[u]
  BY DEF Typed, Call, Step, Proceeds, Crash, Rundown, Goto, AppIDFromPath,
         OpenDynamicEngine, AddFilter, TimerEnds, CtxEnds, CloseEngine, FreeBlob
<1>2. blob'[u] = blob[u] /\ engine'[u] = engine[u]
  BY DEF Typed, Call, Step, Proceeds, Crash, Rundown, AppIDFromPath,
         OpenDynamicEngine, AddFilter, TimerEnds, CtxEnds, CloseEngine, FreeBlob
<1>3. filters'[u] = filters[u]
  BY DEF Typed, Call, Step, Proceeds, Crash, Rundown, AppIDFromPath,
         OpenDynamicEngine, AddFilter, TimerEnds, CtxEnds, CloseEngine, FreeBlob, Drop
<1> QED
  BY <1>1, <1>2, <1>3 DEF Holds

\* The loop of addBlockFilters reaches the window with all four filters.
LEMMA AddFilterStep ==
  ASSUME IInv, NEW t \in Tool, AddFilter(t)
  PROVE  Typed' /\ Holds(t)'
<1> PICK i \in Missing(t) :
       /\ \A j \in Missing(t) : i <= j
       /\ \/ /\ Goto(t, "add", IF i = 4 THEN "window" ELSE "add")
             /\ filters' = [filters EXCEPT ![t] = @ \cup {Layers[i]}]
          \/ Goto(t, "add", "close") /\ UNCHANGED filters
  BY DEF AddFilter
<1>0. Typed /\ Holds(t) /\ i \in 1 .. 4 /\ UNCHANGED <<blob, engine>>
  BY DEF IInv, AddFilter, Missing
<1>1. CASE Goto(t, "add", "close") /\ UNCHANGED filters
  BY <1>0, <1>1 DEF Goto, Typed, Holds, Pc
<1>2. CASE /\ Goto(t, "add", IF i = 4 THEN "window" ELSE "add")
           /\ filters' = [filters EXCEPT ![t] = @ \cup {Layers[i]}]
  <2>1. filters' \in [Tool -> SUBSET AllLayers] /\ filters'[t] = filters[t] \cup {Layers[i]}
    BY <1>0, <1>2, TheLayers DEF Typed
  <2>2. pc[t] = "add" /\ pc' \in [Tool -> Pc]
        /\ pc'[t] = (IF i = 4 THEN "window" ELSE "add")
    BY <1>0, <1>2 DEF Goto, Typed, Pc
  <2>3. CASE i = 4
    <3>1. \A j \in {1, 2, 3} : j \notin Missing(t)
      BY <2>3
    <3>2. \A j \in {1, 2, 3} : Layers[j] \in filters[t]
      BY <3>1 DEF Missing
    <3>3. filters'[t] = AllLayers
      BY <2>1, <2>3, <3>2, TheLayers
    <3> QED
      BY <1>0, <2>1, <2>2, <2>3, <3>3 DEF Typed, Holds
  <2>4. CASE i # 4
    BY <1>0, <2>1, <2>2, <2>4 DEF Typed, Holds
  <2> QED
    BY <2>3, <2>4
<1> QED
  BY <1>1, <1>2

\* The invariant is kept by every step of the process that takes it.
LEMMA InvStep == IInv /\ [Next]_vars => IInv'
<1> SUFFICES ASSUME IInv, [Next]_vars PROVE IInv'
  OBVIOUS
<1>0. Typed
  BY DEF IInv
<1>1. CASE UNCHANGED vars
  BY <1>1 DEF vars, IInv, Typed, Holds
<1>2. ASSUME NEW t \in Tool, NEW done \in BOOLEAN, Call(t) \/ Step(t, done) \/ Crash(t) \/ Rundown(t)
      PROVE  IInv'
  <2>0. Holds(t)
    BY DEF IInv
  <2>1. Typed' /\ Holds(t)'
    <3>1. CASE \/ Call(t) \/ AppIDFromPath(t) \/ OpenDynamicEngine(t)
               \/ TimerEnds(t) \/ CtxEnds(t)
      BY <1>0, <2>0, <3>1 DEF Call, AppIDFromPath, OpenDynamicEngine, TimerEnds,
         CtxEnds, Goto, Typed, Holds, Pc
    <3>2. CASE CloseEngine(t) \/ FreeBlob(t)
      BY <1>0, <2>0, <3>2 DEF CloseEngine, FreeBlob, Drop, SessionFlags, Goto,
         Typed, Holds, Pc
    <3>3. CASE Crash(t) \/ Rundown(t)
      BY <1>0, <2>0, <3>3 DEF Crash, Rundown, Drop, Typed, Holds, Pc
    <3>4. CASE AddFilter(t)
      BY <3>4, AddFilterStep
    <3> QED
      BY <1>2, <3>1, <3>2, <3>3, <3>4 DEF Step, Proceeds
  <2>2. \A u \in Tool \ {t} : Holds(u)'
    BY <1>0, <1>2, Local DEF IInv
  <2> QED
    BY <2>1, <2>2 DEF IInv
<1> QED
  BY <1>1, <1>2 DEF Next

\* What every process holds, in every reachable state.
THEOREM Invariance == Spec => []IInv
BY InvInit, InvStep, PTL DEF Spec

\* BlockApp acquires in order: no filters without a session, no session
\* without the application id its filters point to.
THEOREM TypeCorrect == Spec => []TypeOK
<1>1. IInv => TypeOK
  BY DEF IInv, Typed, Holds, TypeOK, Pc
<1> QED
  BY <1>1, Invariance, PTL

\* No window starts or goes on with one of the four filters missing.
THEOREM WindowTheorem == Spec => []WindowIsComplete
<1>1. IInv => WindowIsComplete
  BY DEF IInv, Holds, WindowIsComplete
<1> QED
  BY <1>1, Invariance, PTL

\* Every return of BlockApp, with or without an error, has undone everything.
THEOREM NothingLeftTheorem == Spec => []NothingLeft
<1>1. IInv => NothingLeft
  BY DEF IInv, Holds, NothingLeft
<1> QED
  BY <1>1, Invariance, PTL
=============================================================================
