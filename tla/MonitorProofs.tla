--------------------------- MODULE MonitorProofs ----------------------------
(***************************************************************************)
(* The safety properties of Monitor, with and without a tray and for any   *)
(* number of inputs of the user.                                           *)
(***************************************************************************)
EXTENDS Monitor, FiniteSetTheorems, FunctionTheorems, TLAPS

USE DEF loop, chans, hotkey, trayThread, shell, count

\* What the threads owe each other: Listen has returned when its error is in
\* the channel, the tray thread when its own is; the icon is gone before the
\* thread leaves the loop for good, and Notify's entry before it returns.
Handover ==
  /\ errCh # "empty" => hk = "returned"
  /\ trayDone # "empty" => tray = "returned"
  /\ tray \in {"off", "create", "unpublish", "returned"} => ~icon
  /\ tray \in {"off", "create", "returned"} => ~current

\* The inductive invariant of the three orders of leaving.
Leaving == Handover /\ GuardNeverBites /\ CancelReleasesHotkey /\ ExitRemovesIcon

\* The steps one at a time.
LEMMA Steps ==
  ASSUME [Next]_vars
  PROVE  \/ Alive /\ (Main \/ Hotkey \/ PumpFails \/ WatchHotkey \/ Tray
                        \/ PumpTrayFails \/ WatchTray \/ User)
         \/ UNCHANGED vars
  BY DEF Next

\* What each thread leaves alone.
LEMMA MainLeaves ==
  ASSUME Main
  PROVE  UNCHANGED <<errCh, ctxDone, hotkey, trayThread, shell, input, taps>>
  BY DEF Main, CtxDone, Drain, ListenEnded, TrayEnded, TakePress, CloseReturns,
         Notify, Balloon

LEMMA HotkeyLeaves ==
  ASSUME Hotkey \/ PumpFails \/ WatchHotkey
  PROVE  UNCHANGED <<loop, trayDone, ctxDone, trayThread, shell, count>>
  BY DEF Hotkey, Register, Pump, WaitWatcher, PumpFails, WatchHotkey

LEMMA TrayLeaves ==
  ASSUME Tray \/ PumpTrayFails \/ WatchTray
  PROVE  UNCHANGED <<loop, errCh, ctxDone, hotkey, count>>
  BY DEF Tray, MenuQuits, Create, Publish, PumpTray, RemoveIcon, TrayReturns,
         PumpTrayFails, WatchTray

LEMMA UserLeaves ==
  ASSUME User
  PROVE  UNCHANGED <<loop, errCh, trayDone, hk, hkErr, hkWatch, loopErr, trayWatch,
                     shell, runs>>
  BY DEF User, PressHotkey, CtrlC, TrayMessage, PickFromMenu

-----------------------------------------------------------------------------
(* Type correctness.                                                        *)

LEMMA TypeInit == Init => TypeOK
<1> SUFFICES ASSUME Init PROVE TypeOK
  OBVIOUS
<1>1. LoopOK
  BY DEF Init, LoopOK
<1>2. ChansOK
  <2>1. presses = 0 /\ 0 \in 0 .. 1
    BY DEF Init
  <2> QED
    BY <2>1 DEF Init, ChansOK
<1>3. HotkeyOK
  <2>1. <<>> \in Seq({"hotkey", "quit"})
    OBVIOUS
  <2> QED
    BY <2>1 DEF Init, HotkeyOK
<1>4. TrayOK
  <2>1. <<>> \in Seq({"click", "rightClick", "close", "quit"})
    OBVIOUS
  <2>2. tray \in {"create", "off"}
    BY DEF Init
  <2> QED
    BY <2>1, <2>2 DEF Init, TrayOK
<1>5. CountsOK
  BY MonitorAssumption DEF Init, CountsOK
<1> QED
  BY <1>1, <1>2, <1>3, <1>4, <1>5 DEF TypeOK

LEMMA LoopStep == TypeOK /\ [Next]_vars => LoopOK'
<1> SUFFICES ASSUME TypeOK, [Next]_vars PROVE LoopOK'
  OBVIOUS
<1> USE DEF LoopOK, Return
<1>0. LoopOK
  BY DEF TypeOK
<1>1. CASE CtxDone \/ Drain \/ TakePress \/ CloseReturns \/ Notify \/ Balloon
  BY <1>0, <1>1 DEF CtxDone, Drain, TakePress, CloseReturns, Notify, Balloon
<1>2. CASE ListenEnded
  BY <1>0, <1>2 DEF ListenEnded
<1>3. CASE TrayEnded
  <2>1. busy' = busy /\ (UNCHANGED <<main, exit>> \/ (main' = "returned" /\ exit' = "nil"))
    BY <1>3 DEF TrayEnded
  <2> QED
    BY <1>0, <2>1
<1>4. CASE UNCHANGED loop
  BY <1>0, <1>4
<1> QED
  BY <1>1, <1>2, <1>3, <1>4, Steps, HotkeyLeaves, TrayLeaves, UserLeaves
     DEF Main, vars

LEMMA ChansStep == TypeOK /\ [Next]_vars => ChansOK'
<1> SUFFICES ASSUME TypeOK, [Next]_vars PROVE ChansOK'
  OBVIOUS
<1> USE DEF ChansOK, Offer
<1>0. ChansOK /\ hkErr \in {"none", "ctx", "error"} /\ (hk = "wait" => hkErr # "none")
  BY DEF TypeOK, HotkeyOK
<1>1. CASE TrayEnded \/ TakePress
  BY <1>0, <1>1 DEF TrayEnded, TakePress
<1>2. CASE Register \/ WaitWatcher
  BY <1>0, <1>2 DEF Register, WaitWatcher
<1>3. CASE Pump
  <2>1. presses' = presses \/ presses' = 1
    BY <1>3 DEF Pump
  <2>2. UNCHANGED <<errCh, trayDone, ctxDone>>
    BY <1>3 DEF Pump
  <2> QED
    BY <1>0, <2>1, <2>2
<1>4. CASE Create \/ TrayReturns
  BY <1>0, <1>4 DEF Create, TrayReturns
<1>5. CASE PumpTray
  <2>1. CASE trayQueue = <<>>
    BY <1>0, <1>5, <2>1 DEF PumpTray
  <2>2. CASE trayQueue # <<>>
    <3>1. Head(trayQueue) \in {"click", "rightClick", "close", "quit"}
      BY <2>2 DEF TypeOK, TrayOK
    <3>2. presses' = presses \/ presses' = 1
      BY <1>5, <2>2, <3>1 DEF PumpTray
    <3>3. UNCHANGED <<errCh, trayDone, ctxDone>>
      BY <1>5 DEF PumpTray
    <3> QED
      BY <1>0, <3>2, <3>3
  <2> QED
    BY <2>1, <2>2
<1>8. CASE User
  <2>1. CASE CtrlC
    BY <1>0, <2>1 DEF CtrlC
  <2>2. CASE PressHotkey \/ \E m \in {"click", "rightClick", "close"} : TrayMessage(m)
    BY <1>0, <2>2 DEF PressHotkey, TrayMessage
  <2>3. ASSUME NEW item \in {"menuClose", "menuExit", "none"}, PickFromMenu(item)
        PROVE  ChansOK'
    BY <1>0, <2>3 DEF PickFromMenu
  <2> QED
    BY <1>8, <2>1, <2>2, <2>3 DEF User
<1>6. CASE UNCHANGED chans
  BY <1>0, <1>6
<1>7. Main \/ Hotkey \/ PumpFails \/ WatchHotkey \/ Tray \/ PumpTrayFails \/ WatchTray
        => \/ TrayEnded \/ TakePress \/ Register \/ WaitWatcher \/ Pump \/ PumpTray
           \/ Create \/ TrayReturns \/ UNCHANGED chans
  BY DEF Main, CtxDone, Drain, ListenEnded, CloseReturns, Notify, Balloon, Hotkey,
         PumpFails, WatchHotkey, Tray, MenuQuits, Publish, RemoveIcon,
         PumpTrayFails, WatchTray
<1> QED
  BY <1>1, <1>2, <1>3, <1>4, <1>5, <1>6, <1>7, <1>8, Steps DEF vars

LEMMA HotkeyStep == TypeOK /\ [Next]_vars => HotkeyOK'
<1> SUFFICES ASSUME TypeOK, [Next]_vars PROVE HotkeyOK'
  OBVIOUS
<1> USE DEF HotkeyOK
<1>0. HotkeyOK
  BY DEF TypeOK
<1>1. CASE Register \/ PumpFails \/ WaitWatcher
  BY <1>0, <1>1 DEF Register, PumpFails, WaitWatcher
<1>2. CASE Pump
  <2>1. hkQueue' \in Seq({"hotkey", "quit"})
    BY <1>0, <1>2 DEF Pump
  <2>2. (hk' = hk /\ hkErr' = hkErr) \/ (hk' = "wait" /\ hkErr' = "ctx")
    BY <1>2 DEF Pump
  <2>3. hkWatch' = hkWatch
    BY <1>2 DEF Pump
  <2> QED
    BY <1>0, <2>1, <2>2, <2>3
<1>3. CASE WatchHotkey
  <2>1. hkQueue' \in Seq({"hotkey", "quit"})
    BY <1>0, <1>3 DEF WatchHotkey
  <2> QED
    BY <1>0, <1>3, <2>1 DEF WatchHotkey
<1>4. CASE PressHotkey
  <2>1. hkQueue' \in Seq({"hotkey", "quit"})
    BY <1>0, <1>4 DEF PressHotkey
  <2> QED
    BY <1>0, <1>4, <2>1 DEF PressHotkey
<1>5. CASE UNCHANGED hotkey
  BY <1>0, <1>5
<1>6. User => PressHotkey \/ UNCHANGED hotkey
  BY DEF User, CtrlC, TrayMessage, PickFromMenu
<1> QED
  BY <1>1, <1>2, <1>3, <1>4, <1>5, <1>6, Steps, MainLeaves, TrayLeaves
     DEF Hotkey, vars

LEMMA TrayStep == TypeOK /\ [Next]_vars => TrayOK'
<1> SUFFICES ASSUME TypeOK, [Next]_vars PROVE TrayOK'
  OBVIOUS
<1> USE DEF TrayOK
<1>0. TrayOK
  BY DEF TypeOK
<1>1. CASE Create \/ Publish \/ PumpTrayFails \/ RemoveIcon \/ TrayReturns \/ MenuQuits
  BY <1>0, <1>1 DEF Create, Publish, PumpTrayFails, RemoveIcon, TrayReturns, MenuQuits
<1>2. CASE PumpTray
  <2>1. trayQueue' \in Seq({"click", "rightClick", "close", "quit"})
    <3>1. trayQueue' = trayQueue \/ (trayQueue # <<>> /\ trayQueue' = Tail(trayQueue))
      BY <1>2 DEF PumpTray
    <3> QED
      BY <1>0, <3>1
  <2>2. tray' \in {"pump", "menu", "remove"} /\ quitFlag' \in BOOLEAN
    <3>1. CASE trayQueue = <<>>
      BY <1>0, <1>2, <3>1 DEF PumpTray
    <3>2. CASE trayQueue # <<>>
      <4>1. Head(trayQueue) \in {"click", "rightClick", "close", "quit"}
        BY <1>0, <3>2
      <4> QED
        BY <1>0, <1>2, <3>2, <4>1 DEF PumpTray
    <3> QED
      BY <3>1, <3>2
  <2>3. UNCHANGED <<loopErr, trayWatch, shell>>
    BY <1>2 DEF PumpTray
  <2> QED
    BY <1>0, <2>1, <2>2, <2>3
<1>3. CASE WatchTray
  <2>1. trayQueue' \in Seq({"click", "rightClick", "close", "quit"})
    BY <1>0, <1>3 DEF WatchTray
  <2> QED
    BY <1>0, <1>3, <2>1 DEF WatchTray
<1>4. CASE \E m \in {"click", "rightClick", "close"} : TrayMessage(m)
  <2>1. trayQueue' \in Seq({"click", "rightClick", "close", "quit"})
    BY <1>0, <1>4 DEF TrayMessage
  <2> QED
    BY <1>0, <1>4, <2>1 DEF TrayMessage
<1>5. CASE \E item \in {"menuClose", "menuExit", "none"} : PickFromMenu(item)
  BY <1>0, <1>5 DEF PickFromMenu
<1>6. CASE UNCHANGED <<trayThread, shell>>
  BY <1>0, <1>6
<1>7. PressHotkey \/ CtrlC => UNCHANGED <<trayThread, shell>>
  BY DEF PressHotkey, CtrlC
<1> QED
  BY <1>1, <1>2, <1>3, <1>4, <1>5, <1>6, <1>7, Steps, MainLeaves, HotkeyLeaves
     DEF Tray, User, vars

LEMMA CountsStep == TypeOK /\ [Next]_vars => CountsOK'
<1> SUFFICES ASSUME TypeOK, [Next]_vars PROVE CountsOK'
  OBVIOUS
<1> USE DEF CountsOK
<1>0. CountsOK
  BY DEF TypeOK
<1>1. CASE User
  <2>1. \/ UNCHANGED <<input, taps>>
        \/ input < MaxInput /\ input' = input + 1 /\ taps' \in {taps, taps + 1}
    BY <1>0, <1>1 DEF User, PressHotkey, CtrlC, TrayMessage, PickFromMenu, Input
  <2> QED
    BY <1>0, <1>1, <2>1, MonitorAssumption, UserLeaves
<1>2. CASE Main
  <2>1. runs' \in {runs, runs + 1}
    BY <1>2 DEF Main, CtxDone, Drain, ListenEnded, TrayEnded, TakePress,
       CloseReturns, Notify, Balloon
  <2> QED
    BY <1>0, <1>2, <2>1, MainLeaves
<1>3. CASE UNCHANGED count
  BY <1>0, <1>3
<1> QED
  BY <1>1, <1>2, <1>3, Steps, HotkeyLeaves, TrayLeaves DEF vars

\* Every variable of the monitor keeps its type: the presses channel never
\* holds more than it has room for, and Listen never returns without an error.
THEOREM TypeCorrect == Spec => []TypeOK
<1>1. TypeOK /\ [Next]_vars => TypeOK'
  BY LoopStep, ChansStep, HotkeyStep, TrayStep, CountsStep DEF TypeOK
<1> QED
  BY TypeInit, <1>1, PTL DEF Spec

-----------------------------------------------------------------------------
(* The orders of leaving.                                                   *)

LEMMA HandoverStep ==
  ASSUME TypeOK, Handover, [Next]_vars
  PROVE  Handover'
<1> USE DEF Handover
<1>1. CASE Main
  <2>1. trayDone' = trayDone \/ trayDone' = "empty"
    BY <1>1 DEF Main, CtxDone, Drain, ListenEnded, TrayEnded, TakePress,
       CloseReturns, Notify, Balloon
  <2> QED
    BY <1>1, <2>1, MainLeaves
<1>2. CASE Hotkey \/ PumpFails \/ WatchHotkey
  <2>1. hk' = "returned" \/ (hk # "returned" /\ errCh' = errCh)
        \/ UNCHANGED <<hk, errCh>>
    BY <1>2 DEF Hotkey, Register, Pump, WaitWatcher, PumpFails, WatchHotkey
  <2> QED
    BY <1>2, <2>1, HotkeyLeaves
<1>3. CASE Create \/ Publish \/ RemoveIcon \/ TrayReturns \/ PumpTrayFails
           \/ MenuQuits \/ WatchTray
  BY <1>3 DEF Create, Publish, RemoveIcon, TrayReturns, PumpTrayFails, MenuQuits,
     WatchTray, TypeOK, TrayOK
<1>4. CASE PumpTray
  <2>1. tray' \in {"pump", "menu", "remove"}
    <3>1. CASE trayQueue = <<>>
      BY <1>4, <3>1 DEF PumpTray
    <3>2. CASE trayQueue # <<>>
      <4>1. Head(trayQueue) \in {"click", "rightClick", "close", "quit"}
        BY <3>2 DEF TypeOK, TrayOK
      <4> QED
        BY <1>4, <3>2, <4>1 DEF PumpTray
    <3> QED
      BY <3>1, <3>2
  <2>2. tray = "pump" /\ UNCHANGED <<errCh, hk, trayDone, icon, current>>
    BY <1>4 DEF PumpTray
  <2> QED
    BY <2>1, <2>2
<1>5. CASE User
  <2>1. UNCHANGED tray \/ (tray = "menu" /\ tray' = "pump")
    BY <1>5 DEF User, PressHotkey, CtrlC, TrayMessage, PickFromMenu
  <2> QED
    BY <1>5, <2>1, UserLeaves
<1>6. CASE UNCHANGED vars
  BY <1>6 DEF vars
<1> QED
  BY <1>1, <1>2, <1>3, <1>4, <1>5, <1>6, Steps DEF Tray

\* Only the main goroutine moves main, exit and busy, and a thread that has
\* returned stays returned while it does.
LEMMA LeavingStep ==
  ASSUME TypeOK, Leaving, [Next]_vars
  PROVE  Leaving'
<1> USE DEF Leaving, GuardNeverBites, CancelReleasesHotkey, ExitRemovesIcon
<1>1. Handover'
  BY HandoverStep
<1>2. CASE Alive /\ Main
  <2> USE DEF Return, Handover
  <2>1. UNCHANGED <<hk, icon, current>>
    BY <1>2, MainLeaves
  <2>2. CASE CtxDone \/ TakePress \/ CloseReturns \/ Notify \/ Balloon
    <3>1. main' # "returned"
      BY <1>2, <2>2 DEF CtxDone, TakePress, CloseReturns, Notify, Balloon, Alive
    <3>2. main' = "select" => ~busy'
      BY <2>2 DEF CtxDone, TakePress, CloseReturns, Notify, Balloon
    <3> QED
      BY <1>1, <3>1, <3>2
  <2>3. CASE Drain \/ ListenEnded
    <3>1. main' = "returned" /\ exit' \in {"ctx", "fatal"} /\ hk = "returned"
      BY <2>3 DEF Drain, ListenEnded
    <3> QED
      BY <1>1, <2>1, <3>1
  <2>4. CASE TrayEnded
    <3>1. CASE trayDone = "exit"
      <4>1. main' = "returned" /\ exit' = "nil" /\ tray = "returned"
        BY <2>4, <3>1 DEF TrayEnded
      <4> QED
        BY <1>1, <2>1, <4>1
    <3>2. CASE trayDone # "exit"
      <4>1. main = "select" /\ main' = main /\ busy' = busy
        BY <2>4, <3>2 DEF TrayEnded
      <4> QED
        BY <1>1, <4>1
    <3> QED
      BY <3>1, <3>2
  <2> QED
    BY <1>2, <2>2, <2>3, <2>4 DEF Main
<1>3. CASE Alive /\ UNCHANGED loop
  BY <1>1, <1>3 DEF Alive
<1>4. CASE UNCHANGED vars
  BY <1>1, <1>4 DEF vars
<1> QED
  BY <1>2, <1>3, <1>4, Steps, HotkeyLeaves, TrayLeaves, UserLeaves

LEMMA LeavingHolds == Spec => []Leaving
<1>1. Init => Leaving
  BY DEF Init, Leaving, Handover, GuardNeverBites, CancelReleasesHotkey,
     ExitRemovesIcon
<1>2. TypeOK /\ Leaving /\ [Next]_vars => Leaving'
  BY LeavingStep
<1> QED
  BY <1>1, <1>2, TypeCorrect, PTL DEF Spec

\* The select loop never finds the busy flag set, in any order of ctx, errors,
\* tray ends, presses and runs.
THEOREM GuardTheorem == Spec => []GuardNeverBites
<1>1. Leaving => GuardNeverBites
  BY DEF Leaving
<1> QED
  BY <1>1, LeavingHolds, PTL

\* A monitor that ctx stopped has waited for Listen to give the hotkey back.
THEOREM HotkeyReleased == Spec => []CancelReleasesHotkey
<1>1. Leaving => CancelReleasesHotkey
  BY DEF Leaving
<1> QED
  BY <1>1, LeavingHolds, PTL

\* The process that the menu ended has taken its icon away first.
THEOREM IconRemoved == Spec => []ExitRemovesIcon
<1>1. Leaving => ExitRemovesIcon
  BY DEF Leaving
<1> QED
  BY <1>1, LeavingHolds, PTL

-----------------------------------------------------------------------------
(* Every run has its trigger.                                               *)

LEMMA QueuedIsNat ==
  ASSUME NEW T, NEW q \in Seq(T), NEW m
  PROVE  /\ IsFiniteSet({i \in DOMAIN q : q[i] = m})
         /\ Queued(q, m) \in Nat
<1>1. IsFiniteSet(1 .. Len(q))
  BY FS_Interval
<1>2. {i \in DOMAIN q : q[i] = m} \in SUBSET (1 .. Len(q))
  OBVIOUS
<1>3. IsFiniteSet({i \in DOMAIN q : q[i] = m})
  BY <1>1, <1>2, FS_Subset
<1> QED
  BY <1>3, FS_CardinalityType DEF Queued

LEMMA QueuedAppend ==
  ASSUME NEW T, NEW q \in Seq(T), NEW x \in T, NEW m
  PROVE  Queued(Append(q, x), m) = IF x = m THEN Queued(q, m) + 1 ELSE Queued(q, m)
<1> DEFINE S == {i \in DOMAIN q : q[i] = m}
           A == {i \in DOMAIN Append(q, x) : Append(q, x)[i] = m}
<1>1. DOMAIN Append(q, x) = 1 .. Len(q) + 1 /\ DOMAIN q = 1 .. Len(q)
  OBVIOUS
<1>2. \A i \in 1 .. Len(q) : Append(q, x)[i] = q[i]
  OBVIOUS
<1>3. Append(q, x)[Len(q) + 1] = x /\ Len(q) \in Nat
  OBVIOUS
<1>4. \A i : i \in 1 .. Len(q) + 1 <=> i \in 1 .. Len(q) \/ i = Len(q) + 1
  BY <1>3
<1>5. CASE x = m
  <2>1. A = S \cup {Len(q) + 1}
    BY <1>1, <1>2, <1>3, <1>4, <1>5
  <2>2. Len(q) + 1 \notin S
    BY <1>1, <1>3
  <2>3. IsFiniteSet(S)
    BY QueuedIsNat
  <2>4. Cardinality(S \cup {Len(q) + 1}) = Cardinality(S) + 1
    BY <2>2, <2>3, FS_AddElement
  <2> QED
    BY <1>5, <2>1, <2>4 DEF Queued
<1>6. CASE x # m
  <2>1. A = S
    BY <1>1, <1>2, <1>3, <1>4, <1>6
  <2> QED
    BY <1>6, <2>1 DEF Queued
<1> QED
  BY <1>5, <1>6

LEMMA QueuedTail ==
  ASSUME NEW T, NEW q \in Seq(T), q # <<>>, NEW m
  PROVE  Queued(q, m) = IF Head(q) = m THEN Queued(Tail(q), m) + 1
                                       ELSE Queued(Tail(q), m)
<1> DEFINE R == {i \in DOMAIN Tail(q) : Tail(q)[i] = m}
           S == {i \in DOMAIN q : q[i] = m}
           f == [i \in R |-> i + 1]
<1>1. Tail(q) \in Seq(T) /\ Len(q) \in Nat /\ Len(q) >= 1
  OBVIOUS
<1>2. DOMAIN Tail(q) = 1 .. Len(q) - 1 /\ DOMAIN q = 1 .. Len(q)
  OBVIOUS
<1>3. \A i \in 1 .. Len(q) - 1 : Tail(q)[i] = q[i + 1]
  OBVIOUS
<1>4. Head(q) = q[1]
  OBVIOUS
<1>5. IsFiniteSet(R) /\ IsFiniteSet(S)
  BY <1>1, QueuedIsNat
<1>6. Cardinality(S \ {1}) = Cardinality(R)
  <2>1. \A i \in R : i \in Int /\ i + 1 \in S \ {1}
    BY <1>1, <1>2, <1>3
  <2>2. \A j \in S \ {1} : j - 1 \in R /\ j = (j - 1) + 1
    BY <1>1, <1>2, <1>3
  <2>3. f \in Bijection(R, S \ {1})
    <3>1. f \in [R -> S \ {1}]
      BY <2>1
    <3>2. \A a, b \in R : f[a] = f[b] => a = b
      BY <2>1
    <3>3. \A j \in S \ {1} : \E i \in R : f[i] = j
      BY <2>2
    <3> QED
      BY <3>1, <3>2, <3>3, Fun_IsBij
  <2>4. ExistsBijection(R, S \ {1})
    BY <2>3 DEF ExistsBijection
  <2> QED
    BY <1>5, <2>4, FS_Bijection
<1>7. Cardinality(S \ {1}) = IF 1 \in S THEN Cardinality(S) - 1 ELSE Cardinality(S)
  BY <1>5, FS_RemoveElement
<1>8. 1 \in S <=> Head(q) = m
  BY <1>1, <1>2, <1>4
<1>9. Cardinality(S) \in Nat /\ Cardinality(R) \in Nat
  BY <1>5, FS_CardinalityType
<1>10. Queued(q, m) = Cardinality(S) /\ Queued(Tail(q), m) = Cardinality(R)
  BY DEF Queued
<1> HIDE DEF R, S, f
<1>11. CASE Head(q) = m
  BY <1>6, <1>7, <1>8, <1>9, <1>10, <1>11
<1>12. CASE Head(q) # m
  BY <1>6, <1>7, <1>8, <1>9, <1>10, <1>12
<1> QED
  BY <1>11, <1>12

LEMMA QueuedEmpty == ASSUME NEW m PROVE Queued(<<>>, m) = 0
<1>1. {i \in DOMAIN <<>> : <<>>[i] = m} = {}
  OBVIOUS
<1> QED
  BY <1>1, FS_EmptySet DEF Queued

\* The triggers on their way are counted in naturals.
LEMMA OnTheirWay ==
  ASSUME TypeOK
  PROVE  /\ HotkeysQueued \in Nat /\ ClicksQueued \in Nat
         /\ runs \in Nat /\ presses \in 0 .. 1 /\ taps \in Nat /\ input \in Nat
<1>1. HotkeysQueued \in Nat
  BY QueuedIsNat DEF TypeOK, HotkeyOK, HotkeysQueued
<1>2. ClicksQueued \in Nat
  BY QueuedIsNat DEF TypeOK, TrayOK, ClicksQueued
<1>3. runs \in Nat /\ presses \in 0 .. 1 /\ input \in Nat
  BY MonitorAssumption DEF TypeOK, CountsOK, ChansOK
<1>4. taps \in Nat
  BY <1>3 DEF TypeOK, CountsOK
<1> QED
  BY <1>1, <1>2, <1>3, <1>4

LEMMA MainBudget ==
  ASSUME TypeOK, RunsNeedTriggers, Main
  PROVE  RunsNeedTriggers'
<1>1. UNCHANGED <<hkQueue, trayQueue, taps>>
  BY MainLeaves
<1>2. HotkeysQueued' = HotkeysQueued /\ ClicksQueued' = ClicksQueued
  BY <1>1 DEF HotkeysQueued, ClicksQueued
<1>3. \/ runs' = runs /\ presses' = presses
      \/ presses = 1 /\ presses' = 0 /\ runs' \in {runs, runs + 1}
  BY DEF Main, CtxDone, Drain, ListenEnded, TrayEnded, TakePress, CloseReturns,
     Notify, Balloon
<1> QED
  BY <1>1, <1>2, <1>3, OnTheirWay DEF RunsNeedTriggers

LEMMA HotkeyBudget ==
  ASSUME TypeOK, RunsNeedTriggers, Hotkey \/ PumpFails \/ WatchHotkey
  PROVE  RunsNeedTriggers'
<1>1. UNCHANGED <<runs, taps, trayQueue>>
  BY HotkeyLeaves
<1>2. ClicksQueued' = ClicksQueued
  BY <1>1 DEF ClicksQueued
<1>3. hkQueue \in Seq({"hotkey", "quit"})
  BY DEF TypeOK, HotkeyOK
<1>4. CASE Pump
  <2>1. hkQueue # <<>> /\ hkQueue' = Tail(hkQueue)
    BY <1>4 DEF Pump
  <2>2. Tail(hkQueue) \in Seq({"hotkey", "quit"})
    BY <1>3, <2>1
  <2>3. HotkeysQueued' \in Nat
    BY <2>1, <2>2, QueuedIsNat DEF HotkeysQueued
  <2>4. CASE Head(hkQueue) = "hotkey"
    <3>1. HotkeysQueued = HotkeysQueued' + 1
      BY <1>3, <2>1, <2>4, QueuedTail DEF HotkeysQueued
    <3>2. presses' = 1
      BY <1>4, <2>4 DEF Pump, Offer
    <3> QED
      BY <1>1, <1>2, <2>3, <3>1, <3>2, OnTheirWay DEF RunsNeedTriggers
  <2>5. CASE Head(hkQueue) # "hotkey"
    <3>1. HotkeysQueued = HotkeysQueued'
      BY <1>3, <2>1, <2>5, QueuedTail DEF HotkeysQueued
    <3>2. presses' = presses
      BY <1>4, <2>5 DEF Pump
    <3> QED
      BY <1>1, <1>2, <3>1, <3>2 DEF RunsNeedTriggers
  <2> QED
    BY <2>4, <2>5
<1>5. CASE WatchHotkey
  <2>1. hkQueue' = Append(hkQueue, "quit") /\ presses' = presses
    BY <1>5 DEF WatchHotkey
  <2>2. HotkeysQueued' = HotkeysQueued
    BY <1>3, <2>1, QueuedAppend DEF HotkeysQueued
  <2> QED
    BY <1>1, <1>2, <2>1, <2>2 DEF RunsNeedTriggers
<1>6. CASE Register \/ WaitWatcher \/ PumpFails
  <2>1. presses' = presses /\ hkQueue' = hkQueue
    BY <1>6 DEF Register, WaitWatcher, PumpFails
  <2> QED
    BY <1>1, <1>2, <2>1 DEF RunsNeedTriggers, HotkeysQueued
<1> QED
  BY <1>4, <1>5, <1>6 DEF Hotkey

LEMMA TrayBudget ==
  ASSUME TypeOK, RunsNeedTriggers, Tray \/ PumpTrayFails \/ WatchTray
  PROVE  RunsNeedTriggers'
<1>1. UNCHANGED <<runs, taps, hkQueue>>
  BY TrayLeaves
<1>2. HotkeysQueued' = HotkeysQueued
  BY <1>1 DEF HotkeysQueued
<1> DEFINE Messages == {"click", "rightClick", "close", "quit"}
<1>3. trayQueue \in Seq(Messages)
  BY DEF TypeOK, TrayOK
<1>4. CASE PumpTray
  <2>1. CASE trayQueue = <<>>
    <3>1. UNCHANGED <<presses, trayQueue>>
      BY <1>4, <2>1 DEF PumpTray
    <3> QED
      BY <1>1, <1>2, <3>1 DEF RunsNeedTriggers, ClicksQueued
  <2>2. CASE trayQueue # <<>>
    <3>1. trayQueue' = Tail(trayQueue)
      BY <1>4, <2>2 DEF PumpTray
    <3>2. Tail(trayQueue) \in Seq(Messages)
      BY <1>3, <2>2
    <3>3. ClicksQueued' \in Nat
      BY <3>1, <3>2, QueuedIsNat DEF ClicksQueued
    <3>4. CASE Head(trayQueue) = "click"
      <4>1. ClicksQueued = ClicksQueued' + 1
        BY <1>3, <2>2, <3>1, <3>4, QueuedTail DEF ClicksQueued
      <4>2. presses' = 1
        BY <1>4, <2>2, <3>4 DEF PumpTray, Offer
      <4> QED
        BY <1>1, <1>2, <3>3, <4>1, <4>2, OnTheirWay DEF RunsNeedTriggers
    <3>5. CASE Head(trayQueue) # "click"
      <4>1. ClicksQueued = ClicksQueued'
        BY <1>3, <2>2, <3>1, <3>5, QueuedTail DEF ClicksQueued
      <4>2. Head(trayQueue) \in {"rightClick", "close", "quit"}
        BY <1>3, <2>2, <3>5
      <4>3. presses' = presses
        BY <1>4, <2>2, <4>2 DEF PumpTray
      <4> QED
        BY <1>1, <1>2, <4>1, <4>3 DEF RunsNeedTriggers
    <3> QED
      BY <3>4, <3>5
  <2> QED
    BY <2>1, <2>2
<1>5. CASE WatchTray
  <2>1. trayQueue' = Append(trayQueue, "quit") /\ presses' = presses
    BY <1>5 DEF WatchTray
  <2>2. ClicksQueued' = ClicksQueued
    BY <1>3, <2>1, QueuedAppend DEF ClicksQueued
  <2> QED
    BY <1>1, <1>2, <2>1, <2>2 DEF RunsNeedTriggers
<1>6. CASE MenuQuits \/ Create \/ Publish \/ RemoveIcon \/ TrayReturns
           \/ PumpTrayFails
  <2>1. presses' = presses /\ trayQueue' = trayQueue
    BY <1>6 DEF MenuQuits, Create, Publish, RemoveIcon, TrayReturns, PumpTrayFails
  <2> QED
    BY <1>1, <1>2, <2>1 DEF RunsNeedTriggers, ClicksQueued
<1> QED
  BY <1>4, <1>5, <1>6 DEF Tray

LEMMA UserBudget ==
  ASSUME TypeOK, RunsNeedTriggers, User
  PROVE  RunsNeedTriggers'
<1> USE UserLeaves, OnTheirWay
<1>1. CASE PressHotkey
  <2>1. hkQueue' = Append(hkQueue, "hotkey") /\ taps' = taps + 1
        /\ UNCHANGED <<presses, trayQueue, runs>>
    BY <1>1 DEF PressHotkey, Input
  <2>2. HotkeysQueued' = HotkeysQueued + 1
    BY <2>1, QueuedAppend DEF HotkeysQueued, TypeOK, HotkeyOK
  <2>3. ClicksQueued' = ClicksQueued
    BY <2>1 DEF ClicksQueued
  <2> QED
    BY <2>1, <2>2, <2>3 DEF RunsNeedTriggers
<1>2. CASE CtrlC
  <2>1. UNCHANGED <<presses, trayQueue, hkQueue, runs, taps>>
    BY <1>2 DEF CtrlC
  <2> QED
    BY <2>1 DEF RunsNeedTriggers, HotkeysQueued, ClicksQueued
<1>3. ASSUME NEW m \in {"click", "rightClick", "close"}, TrayMessage(m)
      PROVE  RunsNeedTriggers'
  <2>1. trayQueue' = Append(trayQueue, m) /\ UNCHANGED <<presses, hkQueue, runs>>
    BY <1>3 DEF TrayMessage
  <2>2. HotkeysQueued' = HotkeysQueued
    BY <2>1 DEF HotkeysQueued
  <2>3. ClicksQueued' = IF m = "click" THEN ClicksQueued + 1 ELSE ClicksQueued
    BY <2>1, QueuedAppend DEF ClicksQueued, TypeOK, TrayOK
  <2>4. CASE m = "click"
    <3>1. taps' = taps + 1
      BY <1>3, <2>4 DEF TrayMessage, Input
    <3> QED
      BY <2>1, <2>2, <2>3, <2>4, <3>1 DEF RunsNeedTriggers
  <2>5. CASE m # "click"
    <3>1. taps' = taps
      BY <1>3, <2>5 DEF TrayMessage, Input
    <3> QED
      BY <2>1, <2>2, <2>3, <2>5, <3>1 DEF RunsNeedTriggers
  <2> QED
    BY <2>4, <2>5
<1>4. ASSUME NEW item \in {"menuClose", "menuExit", "none"}, PickFromMenu(item)
      PROVE  RunsNeedTriggers'
  <2>1. UNCHANGED <<hkQueue, trayQueue, runs>>
    BY <1>4 DEF PickFromMenu
  <2>2. HotkeysQueued' = HotkeysQueued /\ ClicksQueued' = ClicksQueued
    BY <2>1 DEF HotkeysQueued, ClicksQueued
  <2>3. CASE item = "menuClose"
    <3>1. taps' = taps + 1 /\ presses' = 1
      BY <1>4, <2>3 DEF PickFromMenu, Input, Offer
    <3> QED
      BY <2>1, <2>2, <3>1 DEF RunsNeedTriggers
  <2>4. CASE item # "menuClose"
    <3>1. taps' = taps /\ presses' = presses
      BY <1>4, <2>4 DEF PickFromMenu, Input
    <3> QED
      BY <2>1, <2>2, <3>1 DEF RunsNeedTriggers
  <2> QED
    BY <2>3, <2>4
<1> QED
  BY <1>1, <1>2, <1>3, <1>4 DEF User

\* The runs started, the press in the channel and the triggers in both message
\* queues never come to more than what the user did.
THEOREM TriggerBudget == Spec => []RunsNeedTriggers
<1>1. Init => RunsNeedTriggers
  BY QueuedEmpty DEF Init, RunsNeedTriggers, HotkeysQueued, ClicksQueued
<1>2. RunsNeedTriggers /\ UNCHANGED vars => RunsNeedTriggers'
  BY DEF vars, RunsNeedTriggers, HotkeysQueued, ClicksQueued
<1>3. TypeOK /\ RunsNeedTriggers /\ [Next]_vars => RunsNeedTriggers'
  BY <1>2, Steps, MainBudget, HotkeyBudget, TrayBudget, UserBudget
<1> QED
  BY <1>1, <1>3, TypeCorrect, PTL DEF Spec

-----------------------------------------------------------------------------
(* The monitor implements Serving.                                          *)

\* app.Run has returned when there is something it returned.
Ending == main = "returned" <=> exit # "none"

LEMMA EndingStep ==
  ASSUME Ending, [Next]_vars
  PROVE  Ending'
<1> USE DEF Ending, Return
<1>1. CASE Alive /\ Main
  <2>1. main # "returned" /\ exit = "none"
    BY <1>1 DEF Alive
  <2>2. CASE CtxDone \/ TakePress \/ CloseReturns \/ Notify \/ Balloon
    BY <2>1, <2>2 DEF CtxDone, TakePress, CloseReturns, Notify, Balloon
  <2>3. CASE Drain \/ ListenEnded
    BY <2>3 DEF Drain, ListenEnded
  <2>4. CASE TrayEnded
    <3>1. \/ main' = "returned" /\ exit' = "nil"
          \/ main' = main /\ exit' = exit
      BY <2>4 DEF TrayEnded
    <3> QED
      BY <2>1, <3>1
  <2> QED
    BY <1>1, <2>2, <2>3, <2>4 DEF Main
<1>2. CASE UNCHANGED loop
  BY <1>2
<1> QED
  BY <1>1, <1>2, Steps, HotkeyLeaves, TrayLeaves, UserLeaves DEF vars

LEMMA EndingHolds == Spec => []Ending
<1>1. Init => Ending
  BY DEF Init, Ending
<1>2. Ending /\ [Next]_vars => Ending'
  BY EndingStep
<1> QED
  BY <1>1, <1>2, PTL DEF Spec

\* What a step leaves alone of the abstract state.
LEMMA SameWaiting ==
  ASSUME UNCHANGED <<presses, hkQueue, trayQueue>>
  PROVE  Waiting' = Waiting
BY DEF Waiting, HotkeysQueued, ClicksQueued

LEMMA SameRunning == ASSUME UNCHANGED main PROVE Running' = Running
BY DEF Running

LEMMA SameHotkey == ASSUME UNCHANGED hk PROVE HotkeyState' = HotkeyState
BY DEF HotkeyState

LEMMA SameIcon == ASSUME UNCHANGED <<tray, icon>> PROVE IconState' = IconState
BY DEF IconState

\* A trigger that leaves its queue for the channel still waits, or another one
\* does: the one that filled the channel before it.
LEMMA Passed ==
  ASSUME TypeOK, presses' = 1, HotkeysQueued' \in Nat, ClicksQueued' \in Nat,
         HotkeysQueued + ClicksQueued = HotkeysQueued' + ClicksQueued' + 1
  PROVE  Waiting' = Waiting \/ (Waiting > 1 /\ Waiting' = Waiting - 1)
<1>1. CASE presses = 0
  BY <1>1, OnTheirWay DEF Waiting
<1>2. CASE presses = 1
  BY <1>2, OnTheirWay DEF Waiting
<1> QED
  BY <1>1, <1>2, OnTheirWay

\* A step that only moves triggers merges two of them, adds one or none.
LEMMA Moves ==
  ASSUME exit = "none",
         \/ Waiting' = Waiting
         \/ Waiting > 1 /\ Waiting' = Waiting - 1
         \/ Waiting' = Waiting + 1,
         Running' = Running, exit' = exit, HotkeyState' = HotkeyState,
         IconState' = IconState
  PROVE  Service!Next \/ UNCHANGED Service!vars
BY DEF Service!Next, Service!vars, Service!Ask, Service!Merge

\* The main goroutine begins a run for one request, ends it, and leaves when
\* the thread it waited for has given back what it took.
LEMMA MainServes ==
  ASSUME TypeOK, Leaving, Ending, Alive, Main
  PROVE  Service!Next \/ UNCHANGED Service!vars
<1> USE DEF Return
<1>1. exit = "none"
  BY DEF Alive, Ending
<1>2. HotkeyState' = HotkeyState /\ IconState' = IconState
  BY MainLeaves, SameHotkey, SameIcon
<1>3. UNCHANGED <<hkQueue, trayQueue>>
  BY MainLeaves
<1>4. CASE CtxDone
  <2>1. Running' = Running /\ exit' = exit /\ Waiting' = Waiting
    BY <1>3, <1>4, SameWaiting DEF CtxDone, Running
  <2> QED
    BY <1>1, <1>2, <2>1, Moves
<1>5. CASE TakePress
  <2>1. main = "select" /\ presses = 1 /\ presses' = 0 /\ ~busy /\ exit' = exit
    BY <1>5 DEF TakePress, Leaving, GuardNeverBites
  <2>2. main' = "closing"
    BY <1>5, <2>1 DEF TakePress
  <2>3. ~Running /\ Running' = TRUE
    BY <2>1, <2>2 DEF Running
  <2>4. Waiting > 0 /\ Waiting' = Waiting - 1
    <3>1. HotkeysQueued' = HotkeysQueued /\ ClicksQueued' = ClicksQueued
      BY <1>3 DEF HotkeysQueued, ClicksQueued
    <3> QED
      BY <2>1, <3>1, OnTheirWay DEF Waiting
  <2>5. Service!Begin
    BY <1>2, <2>1, <2>3, <2>4 DEF Service!Begin
  <2> QED
    BY <1>1, <2>5 DEF Service!Next
<1>6. CASE CloseReturns \/ Notify \/ Balloon
  <2>1. Running /\ exit' = exit /\ Waiting' = Waiting /\ Running' \in BOOLEAN
    BY <1>3, <1>6, SameWaiting DEF CloseReturns, Notify, Balloon, Running
  <2>2. CASE Running'
    BY <1>1, <1>2, <2>1, <2>2, Moves DEF Running
  <2>3. CASE ~Running'
    <3>1. Service!Finish
      BY <1>2, <2>1, <2>3 DEF Service!Finish
    <3> QED
      BY <1>1, <3>1 DEF Service!Next
  <2> QED
    BY <2>2, <2>3
<1>7. CASE Drain \/ ListenEnded
  <2>1. /\ main \in {"select", "drain"} /\ main' = "returned"
        /\ errCh # "empty" /\ exit' \in {"ctx", "fatal"} /\ presses' = presses
    BY <1>7 DEF Drain, ListenEnded
  <2>2. ~Running /\ Running' = Running /\ Waiting' = Waiting
    BY <1>3, <2>1, SameWaiting DEF Running
  <2>3. HotkeyState = "free"
    BY <2>1 DEF Leaving, Handover, HotkeyState
  <2>4. Service!End
    BY <1>2, <2>1, <2>2, <2>3 DEF Service!End
  <2> QED
    BY <1>1, <2>4 DEF Service!Next
<1>8. CASE TrayEnded
  <2>1. main = "select" /\ presses' = presses
    BY <1>8 DEF TrayEnded
  <2>2. Waiting' = Waiting
    BY <1>3, <2>1, SameWaiting
  <2>3. CASE trayDone = "exit"
    <3>1. main' = "returned" /\ exit' = "nil"
      BY <1>8, <2>3 DEF TrayEnded
    <3>2. ~Running /\ Running' = Running
      BY <2>1, <3>1 DEF Running
    <3>3. IconState = "free"
      BY <2>3 DEF Leaving, Handover, IconState
    <3>4. Service!End
      BY <1>2, <2>2, <3>1, <3>2, <3>3 DEF Service!End
    <3> QED
      BY <1>1, <3>4 DEF Service!Next
  <2>4. CASE trayDone # "exit"
    <3>1. UNCHANGED <<main, exit>>
      BY <1>8, <2>4 DEF TrayEnded
    <3> QED
      BY <1>1, <1>2, <2>2, <3>1, SameRunning, Moves
  <2> QED
    BY <2>3, <2>4
<1> QED
  BY <1>4, <1>5, <1>6, <1>7, <1>8 DEF Main

\* The hotkey thread takes the hotkey, passes presses on and gives it back.
LEMMA HotkeyServes ==
  ASSUME TypeOK, exit = "none", Hotkey \/ PumpFails \/ WatchHotkey
  PROVE  Service!Next \/ UNCHANGED Service!vars
<1>1. Running' = Running /\ exit' = exit /\ IconState' = IconState
  BY HotkeyLeaves, SameRunning, SameIcon
<1>2. trayQueue' = trayQueue
  BY HotkeyLeaves
<1>3. hkQueue \in Seq({"hotkey", "quit"})
  BY DEF TypeOK, HotkeyOK
<1>4. CASE Register \/ WaitWatcher
  <2>1. UNCHANGED <<presses, hkQueue>>
    BY <1>4 DEF Register, WaitWatcher
  <2>2. Waiting' = Waiting
    BY <1>2, <2>1, SameWaiting
  <2>3. \/ hk = "register" /\ hk' \in {"pump", "returned"}
        \/ hk = "wait" /\ hk' = "returned"
    BY <1>4 DEF Register, WaitWatcher
  <2>4. Service!Turns(HotkeyState, HotkeyState')
    BY <2>3 DEF HotkeyState, Service!Turns
  <2>5. Service!TurnHotkey
    BY <1>1, <2>2, <2>4 DEF Service!TurnHotkey
  <2> QED
    BY <2>5 DEF Service!Next
<1>5. CASE PumpFails
  <2>1. UNCHANGED <<presses, hkQueue>> /\ hk = "pump" /\ hk' = "wait"
    BY <1>5 DEF PumpFails
  <2>2. Waiting' = Waiting /\ HotkeyState' = HotkeyState
    BY <1>2, <2>1, SameWaiting DEF HotkeyState
  <2> QED
    BY <1>1, <2>2, Moves
<1>6. CASE WatchHotkey
  <2>1. hkQueue' = Append(hkQueue, "quit") /\ UNCHANGED <<presses, hk>>
    BY <1>6 DEF WatchHotkey
  <2>2. HotkeysQueued' = HotkeysQueued
    BY <1>3, <2>1, QueuedAppend DEF HotkeysQueued
  <2>3. Waiting' = Waiting
    BY <1>2, <2>1, <2>2 DEF Waiting, ClicksQueued
  <2> QED
    BY <1>1, <2>1, <2>3, SameHotkey, Moves
<1>7. CASE Pump
  <2>1. /\ hkQueue # <<>> /\ hkQueue' = Tail(hkQueue)
        /\ hk = "pump" /\ hk' \in {"pump", "wait"}
    BY <1>7 DEF Pump
  <2>2. HotkeyState' = HotkeyState
    BY <2>1 DEF HotkeyState
  <2>3. ClicksQueued' = ClicksQueued
    BY <1>2 DEF ClicksQueued
  <2>4. CASE Head(hkQueue) = "hotkey"
    <3>1. presses' = 1
      BY <1>7, <2>4 DEF Pump, Offer
    <3>2. HotkeysQueued' \in Nat
      <4>1. Tail(hkQueue) \in Seq({"hotkey", "quit"})
        BY <1>3, <2>1
      <4> QED
        BY <2>1, <4>1, QueuedIsNat DEF HotkeysQueued
    <3>3. HotkeysQueued = HotkeysQueued' + 1
      BY <1>3, <2>1, <2>4, QueuedTail DEF HotkeysQueued
    <3>4. Waiting' = Waiting \/ (Waiting > 1 /\ Waiting' = Waiting - 1)
      BY <2>3, <3>1, <3>2, <3>3, OnTheirWay, Passed
    <3> QED
      BY <1>1, <2>2, <3>4, Moves
  <2>5. CASE Head(hkQueue) # "hotkey"
    <3>1. presses' = presses
      BY <1>7, <2>5 DEF Pump
    <3>2. HotkeysQueued' = HotkeysQueued
      BY <1>3, <2>1, <2>5, QueuedTail DEF HotkeysQueued
    <3>3. Waiting' = Waiting
      BY <2>3, <3>1, <3>2 DEF Waiting
    <3> QED
      BY <1>1, <2>2, <3>3, Moves
  <2> QED
    BY <2>4, <2>5
<1> QED
  BY <1>4, <1>5, <1>6, <1>7 DEF Hotkey

\* The tray thread shows the icon, passes clicks on and takes the icon away.
LEMMA TrayServes ==
  ASSUME TypeOK, Handover, exit = "none", Tray \/ PumpTrayFails \/ WatchTray
  PROVE  Service!Next \/ UNCHANGED Service!vars
<1>1. Running' = Running /\ exit' = exit /\ HotkeyState' = HotkeyState
  BY TrayLeaves, SameRunning, SameHotkey
<1>2. hkQueue' = hkQueue
  BY TrayLeaves
<1> DEFINE Messages == {"click", "rightClick", "close", "quit"}
<1>3. trayQueue \in Seq(Messages) /\ icon \in BOOLEAN
  BY DEF TypeOK, TrayOK
<1>4. CASE Create
  <2>1. UNCHANGED <<presses, trayQueue>> /\ tray = "create"
    BY <1>4 DEF Create
  <2>2. Waiting' = Waiting
    BY <1>2, <2>1, SameWaiting
  <2>3. \/ tray' = "publish" /\ icon' = TRUE
        \/ tray' = "returned" /\ icon' = icon
    BY <1>4 DEF Create
  <2>4. Service!Turns(IconState, IconState')
    BY <1>3, <2>1, <2>3 DEF IconState, Service!Turns, Handover
  <2>5. Service!TurnIcon
    BY <1>1, <2>2, <2>4 DEF Service!TurnIcon
  <2> QED
    BY <2>5 DEF Service!Next
<1>5. CASE RemoveIcon
  <2>1. /\ UNCHANGED <<presses, trayQueue>>
        /\ tray = "remove" /\ tray' = "unpublish" /\ icon' = FALSE
    BY <1>5 DEF RemoveIcon
  <2>2. Waiting' = Waiting
    BY <1>2, <2>1, SameWaiting
  <2>3. CASE icon
    <3>1. Service!Turns(IconState, IconState')
      BY <2>1, <2>3 DEF IconState, Service!Turns
    <3>2. Service!TurnIcon
      BY <1>1, <2>2, <3>1 DEF Service!TurnIcon
    <3> QED
      BY <3>2 DEF Service!Next
  <2>4. CASE ~icon
    <3>1. IconState' = IconState
      BY <2>1, <2>4 DEF IconState
    <3> QED
      BY <1>1, <2>2, <3>1, Moves
  <2> QED
    BY <2>3, <2>4
<1>6. CASE MenuQuits \/ Publish \/ TrayReturns \/ PumpTrayFails
  <2>1. /\ UNCHANGED <<presses, trayQueue, icon>>
        /\ tray \notin {"off", "create"} /\ tray' \notin {"off", "create"}
    BY <1>6 DEF MenuQuits, Publish, TrayReturns, PumpTrayFails
  <2>2. Waiting' = Waiting /\ IconState' = IconState
    BY <1>2, <2>1, SameWaiting DEF IconState
  <2> QED
    BY <1>1, <2>2, Moves
<1>7. CASE WatchTray
  <2>1. trayQueue' = Append(trayQueue, "quit") /\ UNCHANGED <<presses, tray, icon>>
    BY <1>7 DEF WatchTray
  <2>2. ClicksQueued' = ClicksQueued
    BY <1>3, <2>1, QueuedAppend DEF ClicksQueued
  <2>3. Waiting' = Waiting
    BY <1>2, <2>1, <2>2 DEF Waiting, HotkeysQueued
  <2> QED
    BY <1>1, <2>1, <2>3, SameIcon, Moves
<1>8. CASE PumpTray
  <2>1. tray = "pump" /\ icon' = icon
    BY <1>8 DEF PumpTray
  <2>2. HotkeysQueued' = HotkeysQueued
    BY <1>2 DEF HotkeysQueued
  <2>3. CASE trayQueue = <<>>
    <3>1. UNCHANGED <<presses, trayQueue>> /\ tray' = "remove"
      BY <1>8, <2>3 DEF PumpTray
    <3>2. Waiting' = Waiting /\ IconState' = IconState
      BY <1>2, <2>1, <3>1, SameWaiting DEF IconState
    <3> QED
      BY <1>1, <3>2, Moves
  <2>4. CASE trayQueue # <<>>
    <3>1. trayQueue' = Tail(trayQueue)
      BY <1>8, <2>4 DEF PumpTray
    <3>2. Head(trayQueue) \in Messages
      BY <1>3, <2>4
    <3>3. tray' \in {"pump", "menu", "remove"}
      BY <1>8, <2>4, <3>2 DEF PumpTray
    <3>4. IconState' = IconState
      BY <2>1, <3>3 DEF IconState
    <3>5. CASE Head(trayQueue) = "click"
      <4>1. presses' = 1
        BY <1>8, <2>4, <3>5 DEF PumpTray, Offer
      <4>2. ClicksQueued' \in Nat
        <5>1. Tail(trayQueue) \in Seq(Messages)
          BY <1>3, <2>4
        <5> QED
          BY <3>1, <5>1, QueuedIsNat DEF ClicksQueued
      <4>3. ClicksQueued = ClicksQueued' + 1
        BY <1>3, <2>4, <3>1, <3>5, QueuedTail DEF ClicksQueued
      <4>4. Waiting' = Waiting \/ (Waiting > 1 /\ Waiting' = Waiting - 1)
        BY <2>2, <4>1, <4>2, <4>3, OnTheirWay, Passed
      <4> QED
        BY <1>1, <3>4, <4>4, Moves
    <3>6. CASE Head(trayQueue) # "click"
      <4>1. ClicksQueued' = ClicksQueued
        BY <1>3, <2>4, <3>1, <3>6, QueuedTail DEF ClicksQueued
      <4>2. presses' = presses
        BY <1>8, <2>4, <3>2, <3>6 DEF PumpTray
      <4>3. Waiting' = Waiting
        BY <2>2, <4>1, <4>2 DEF Waiting
      <4> QED
        BY <1>1, <3>4, <4>3, Moves
    <3> QED
      BY <3>5, <3>6
  <2> QED
    BY <2>3, <2>4
<1> QED
  BY <1>4, <1>5, <1>6, <1>7, <1>8 DEF Tray

\* A press, a click or the menu's Close is one request more, or the one that
\* the full channel holds already.
LEMMA UserServes ==
  ASSUME TypeOK, exit = "none", User
  PROVE  Service!Next \/ UNCHANGED Service!vars
<1> USE OnTheirWay
<1>1. /\ Running' = Running /\ exit' = exit /\ HotkeyState' = HotkeyState
      /\ icon' = icon
  BY UserLeaves, SameRunning, SameHotkey
<1>2. CASE PressHotkey
  <2>1. hkQueue' = Append(hkQueue, "hotkey") /\ UNCHANGED <<presses, trayQueue, tray>>
    BY <1>2 DEF PressHotkey
  <2>2. HotkeysQueued' = HotkeysQueued + 1
    BY <2>1, QueuedAppend DEF HotkeysQueued, TypeOK, HotkeyOK
  <2>3. ClicksQueued' = ClicksQueued
    BY <2>1 DEF ClicksQueued
  <2>4. presses' = presses
    BY <2>1
  <2>5. Waiting' = Waiting + 1
    BY <2>2, <2>3, <2>4 DEF Waiting
  <2> QED
    BY <1>1, <2>1, <2>5, SameIcon, Moves
<1>3. CASE CtrlC
  <2>1. UNCHANGED <<presses, trayQueue, hkQueue, tray>>
    BY <1>3 DEF CtrlC
  <2> QED
    BY <1>1, <2>1, SameWaiting, SameIcon, Moves
<1>4. ASSUME NEW m \in {"click", "rightClick", "close"}, TrayMessage(m)
      PROVE  Service!Next \/ UNCHANGED Service!vars
  <2>1. trayQueue' = Append(trayQueue, m) /\ UNCHANGED <<presses, hkQueue, tray>>
    BY <1>4 DEF TrayMessage
  <2>2. HotkeysQueued' = HotkeysQueued
    BY <2>1 DEF HotkeysQueued
  <2>3. ClicksQueued' = IF m = "click" THEN ClicksQueued + 1 ELSE ClicksQueued
    BY <2>1, QueuedAppend DEF ClicksQueued, TypeOK, TrayOK
  <2>4. Waiting' = Waiting \/ Waiting' = Waiting + 1
    BY <2>1, <2>2, <2>3 DEF Waiting
  <2> QED
    BY <1>1, <2>1, <2>4, SameIcon, Moves
<1>5. ASSUME NEW item \in {"menuClose", "menuExit", "none"}, PickFromMenu(item)
      PROVE  Service!Next \/ UNCHANGED Service!vars
  <2>1. /\ UNCHANGED <<hkQueue, trayQueue>> /\ tray = "menu" /\ tray' = "pump"
        /\ presses' \in {presses, 1}
    BY <1>5 DEF PickFromMenu, Offer
  <2>2. HotkeysQueued' = HotkeysQueued /\ ClicksQueued' = ClicksQueued
    BY <2>1 DEF HotkeysQueued, ClicksQueued
  <2>3. Waiting' = Waiting \/ Waiting' = Waiting + 1
    BY <2>1, <2>2 DEF Waiting
  <2>4. IconState' = IconState
    BY <1>1, <2>1 DEF IconState
  <2> QED
    BY <1>1, <2>3, <2>4, Moves
<1> QED
  BY <1>2, <1>3, <1>4, <1>5 DEF User

\* The monitor implements Serving: whatever the two message queues, the channel
\* of one press and the busy flag do between the user and a run, a request is
\* dropped only for another one that waits, and nothing taken is left behind
\* by the thread that app.Run waited for.
THEOREM ServiceRefinement == Spec => ServesAsPromised
<1>1. Init => Service!Init
  <2> SUFFICES ASSUME Init PROVE Service!Init
    OBVIOUS
  <2>1. Waiting = 0
    BY QueuedEmpty DEF Init, Waiting, HotkeysQueued, ClicksQueued
  <2>2. Running = FALSE /\ HotkeyState = "new" /\ exit = "none"
    BY DEF Init, Running, HotkeyState
  <2>3. tray \in {"off", "create"}
    BY DEF Init
  <2> QED
    BY <2>1, <2>2, <2>3 DEF Service!Init, IconState
<1>2. TypeOK /\ Leaving /\ Ending /\ [Next]_vars => [Service!Next]_(Service!vars)
  <2> SUFFICES ASSUME TypeOK, Leaving, Ending, [Next]_vars
               PROVE  Service!Next \/ UNCHANGED Service!vars
    OBVIOUS
  <2>1. CASE Alive /\ Main
    BY <2>1, MainServes
  <2>2. CASE Alive /\ (Hotkey \/ PumpFails \/ WatchHotkey)
    BY <2>2, HotkeyServes DEF Alive, Ending
  <2>3. CASE Alive /\ (Tray \/ PumpTrayFails \/ WatchTray)
    BY <2>3, TrayServes DEF Alive, Ending, Leaving
  <2>4. CASE Alive /\ User
    BY <2>4, UserServes DEF Alive, Ending
  <2>5. CASE UNCHANGED vars
    <3>1. UNCHANGED <<main, exit, presses, hkQueue, trayQueue, hk, tray, icon>>
      BY <2>5 DEF vars
    <3> QED
      BY <3>1, SameWaiting, SameRunning, SameHotkey, SameIcon DEF Service!vars
  <2> QED
    BY <2>1, <2>2, <2>3, <2>4, <2>5, Steps
<1> QED
  BY <1>1, <1>2, TypeCorrect, LeavingHolds, EndingHolds, PTL
     DEF Spec, ServesAsPromised, Service!Spec
=============================================================================
