------------------------------ MODULE Monitor -------------------------------
(***************************************************************************)
(* Monitor mode: app.Run with its select loop, the hotkey thread           *)
(* (hotkey.Listen), the tray thread (tray.Run with its window procedure)   *)
(* and tray.Notify.  The two threads pump Windows messages and feed one    *)
(* buffered channel of presses; the main goroutine serves it.              *)
(*                                                                         *)
(* closeLobby is one step that takes as long as it likes: CloseLobby       *)
(* models it and shows that it returns.  The process ends when app.Run     *)
(* returns, whatever the threads are doing.                                *)
(***************************************************************************)
EXTENDS Naturals, Sequences, FiniteSets

CONSTANTS
  TrayEnabled,  \* cfg.Tray
  MaxInput      \* bound: inputs of the user, over the whole behaviour

ASSUME MonitorAssumption == TrayEnabled \in BOOLEAN /\ MaxInput \in Nat

VARIABLES
  main,      \* app.Run: "select", "closing", "notify", "balloon", "drain", "returned"
  exit,      \* what app.Run returned: "none", "nil", "ctx" or "fatal"
  busy,      \* the busy flag
  presses,   \* tokens in the presses channel, which holds one
  errCh,     \* the error Listen sent, "empty" before
  trayDone,  \* the error tray.Run sent, "empty" before and after it is read
  ctxDone,   \* ctx is cancelled
  hk,        \* Listen: "register", "pump", "wait" (wg.Wait) or "returned"
  hkErr,     \* the error Listen returns after wg.Wait
  hkQueue,   \* messages posted to the hotkey thread
  hkWatch,   \* the goroutine that waits for ctx posted WM_QUIT
  tray,      \* tray.Run: "off", "create", "publish", "pump", "menu", "remove",
             \* "unpublish" or "returned"
  loopErr,   \* GetMessage failed on the tray thread
  trayQueue, \* messages posted to the tray thread
  trayWatch, \* the goroutine that waits for ctx or done is through
  quitFlag,  \* PostQuitMessage was called on the tray thread
  icon,      \* the icon is in the notification area
  current,   \* current holds the state, so Notify shows balloons
  hidden     \* the console window is hidden

\* Inputs so far; the triggers among them; close runs started.
VARIABLES input, taps, runs

loop == <<main, exit, busy>>
chans == <<presses, errCh, trayDone, ctxDone>>
hotkey == <<hk, hkErr, hkQueue, hkWatch>>
trayThread == <<tray, loopErr, trayQueue, trayWatch, quitFlag>>
shell == <<icon, current, hidden>>
count == <<input, taps, runs>>
vars == <<loop, chans, hotkey, trayThread, shell, count>>

Init ==
  /\ main = "select" /\ exit = "none" /\ busy = FALSE
  /\ presses = 0 /\ errCh = "empty" /\ trayDone = "empty" /\ ctxDone = FALSE
  /\ hk = "register" /\ hkErr = "none" /\ hkQueue = <<>> /\ hkWatch = FALSE
  /\ tray = IF TrayEnabled THEN "create" ELSE "off"
  /\ loopErr = FALSE /\ trayQueue = <<>> /\ trayWatch = FALSE /\ quitFlag = FALSE
  /\ icon = FALSE /\ current = FALSE /\ hidden = FALSE
  /\ input = 0 /\ taps = 0 /\ runs = 0

Alive == main # "returned"

-----------------------------------------------------------------------------
(* The main goroutine: the cases of the select, in any order when several   *)
(* are ready.                                                                *)

Return(err) == main' = "returned" /\ exit' = err

\* Fault: a cancelled monitor returns without waiting for Listen.
CtxDoneAtOnce ==
  /\ main = "select" /\ ctxDone
  /\ Return("ctx")
  /\ UNCHANGED <<busy, chans, hotkey, trayThread, shell, count>>

CtxDone ==
  /\ main = "select" /\ ctxDone
  /\ main' = "drain"
  /\ UNCHANGED <<exit, busy, chans, hotkey, trayThread, shell, count>>

\* The receive from errCh that follows.
Drain ==
  /\ main = "drain" /\ errCh # "empty"
  /\ Return("ctx")
  /\ UNCHANGED <<busy, chans, hotkey, trayThread, shell, count>>

ListenEnded ==
  /\ main = "select" /\ errCh # "empty"
  /\ Return(IF errCh = "error" /\ ~ctxDone THEN "fatal" ELSE "ctx")
  /\ UNCHANGED <<busy, chans, hotkey, trayThread, shell, count>>

\* Fault: a menu exit is no different from a broken tray.
TrayEndedUnnoticed ==
  /\ main = "select" /\ trayDone # "empty"
  /\ trayDone' = "empty"
  /\ UNCHANGED <<loop, presses, errCh, ctxDone, hotkey, trayThread, shell, count>>

\* Only a menu exit ends the monitor; a broken tray is a warning.
TrayEnded ==
  /\ main = "select" /\ trayDone # "empty"
  /\ IF trayDone = "exit" THEN Return("nil") ELSE UNCHANGED <<main, exit>>
  /\ trayDone' = "empty"
  /\ UNCHANGED <<busy, presses, errCh, ctxDone, hotkey, trayThread, shell, count>>

\* Fault: the press is read without being taken out of the channel.
TakePressTwice ==
  /\ main = "select" /\ presses = 1
  /\ main' = "closing" /\ busy' = TRUE /\ runs' = runs + 1
  /\ UNCHANGED <<exit, chans, hotkey, trayThread, shell, input, taps>>

TakePress ==
  /\ main = "select" /\ presses = 1
  /\ presses' = 0
  /\ IF busy THEN UNCHANGED <<main, busy, runs>>
             ELSE main' = "closing" /\ busy' = TRUE /\ runs' = runs + 1
  /\ UNCHANGED <<exit, errCh, trayDone, ctxDone, hotkey, trayThread, shell,
                 input, taps>>

\* closeLobby returns; a cancelled run has no balloon.
CloseReturns ==
  /\ main = "closing"
  /\ \/ main' = "notify" /\ UNCHANGED busy
     \/ ctxDone /\ main' = "select" /\ busy' = FALSE
  /\ UNCHANGED <<exit, chans, hotkey, trayThread, shell, count>>

\* Fault: without an icon Notify's caller never clears the flag.
NotifyStaysBusy ==
  /\ main = "notify"
  /\ main' = IF current THEN "balloon" ELSE "select"
  /\ UNCHANGED <<exit, busy, chans, hotkey, trayThread, shell, count>>

\* Notify loads current, and posts the balloon to whatever icon there is then.
Notify ==
  /\ main = "notify"
  /\ IF current THEN main' = "balloon" /\ UNCHANGED busy
                ELSE main' = "select" /\ busy' = FALSE
  /\ UNCHANGED <<exit, chans, hotkey, trayThread, shell, count>>

Balloon ==
  /\ main = "balloon"
  /\ main' = "select" /\ busy' = FALSE
  /\ UNCHANGED <<exit, chans, hotkey, trayThread, shell, count>>

Main == \/ CtxDone \/ Drain \/ ListenEnded \/ TrayEnded \/ TakePress
        \/ CloseReturns \/ Notify \/ Balloon

-----------------------------------------------------------------------------
(* The hotkey thread and its ctx goroutine.                                 *)

\* Fault: a full channel takes the press as well.
OfferMore == presses' = presses + 1

\* Fault: a press during a run is dropped.
OfferIdle == presses' = IF main = "select" THEN 1 ELSE presses

\* Send without blocking: a full channel drops the press.
Offer == presses' = 1

Register ==
  /\ hk = "register"
  /\ \/ hk' = "pump" /\ UNCHANGED errCh
     \/ hk' = "returned" /\ errCh' = "error"
  /\ UNCHANGED <<loop, presses, trayDone, ctxDone, hkErr, hkQueue, hkWatch,
                 trayThread, shell, count>>

\* GetMessage returns a press or WM_QUIT, which waits for the ctx goroutine.
Pump ==
  /\ hk = "pump"
  /\ hkQueue # <<>> /\ hkQueue' = Tail(hkQueue)
  /\ IF Head(hkQueue) = "hotkey"
       THEN Offer /\ UNCHANGED <<hk, hkErr>>
       ELSE hk' = "wait" /\ hkErr' = "ctx" /\ UNCHANGED presses
  /\ UNCHANGED <<loop, errCh, trayDone, ctxDone, hkWatch, trayThread, shell,
                 count>>

\* GetMessage returns -1.  Listen waits for the ctx goroutine here as well.
PumpFails ==
  /\ hk = "pump"
  /\ hk' = "wait" /\ hkErr' = "error"
  /\ UNCHANGED <<loop, chans, hkQueue, hkWatch, trayThread, shell, count>>

WaitWatcher ==
  /\ hk = "wait" /\ hkWatch
  /\ hk' = "returned" /\ errCh' = hkErr
  /\ UNCHANGED <<loop, presses, trayDone, ctxDone, hkErr, hkQueue, hkWatch,
                 trayThread, shell, count>>

\* Fault: the ctx goroutine ends without posting WM_QUIT.
WatchHotkeySilent ==
  /\ hk \in {"pump", "wait"} /\ ctxDone /\ ~hkWatch
  /\ hkWatch' = TRUE
  /\ UNCHANGED <<loop, chans, hk, hkErr, hkQueue, trayThread, shell, count>>

WatchHotkey ==
  /\ hk \in {"pump", "wait"} /\ ctxDone /\ ~hkWatch
  /\ hkWatch' = TRUE /\ hkQueue' = Append(hkQueue, "quit")
  /\ UNCHANGED <<loop, chans, hk, hkErr, trayThread, shell, count>>

Hotkey == Register \/ Pump \/ WaitWatcher

-----------------------------------------------------------------------------
(* The tray thread and its ctx goroutine.                                   *)

\* Everything up to NIM_ADD, any step of which can fail.
Create ==
  /\ tray = "create"
  /\ \/ tray' = "publish" /\ icon' = TRUE /\ UNCHANGED trayDone
     \/ tray' = "returned" /\ trayDone' = "error" /\ UNCHANGED icon
  /\ UNCHANGED <<loop, presses, errCh, ctxDone, hotkey, loopErr, trayQueue,
                 trayWatch, quitFlag, current, hidden, count>>

\* current is stored and a console nobody else uses is hidden.
Publish ==
  /\ tray = "publish"
  /\ tray' = "pump" /\ current' = TRUE /\ hidden' \in BOOLEAN
  /\ UNCHANGED <<loop, chans, hotkey, loopErr, trayQueue, trayWatch, quitFlag,
                 icon, count>>

\* One GetMessage of the tray thread and the dispatch to wndProc.  The WM_QUIT
\* of PostQuitMessage comes when no posted message is left; the one of
\* PostThreadMessage waits in the queue like the rest.  "close" destroys the
\* window, and the messages still sent to it are then one more harmless input.
PumpTray ==
  /\ tray = "pump"
  /\ \/ /\ trayQueue # <<>> /\ trayQueue' = Tail(trayQueue)
        /\ CASE Head(trayQueue) = "click" ->
                  Offer /\ UNCHANGED <<tray, quitFlag>>
             [] Head(trayQueue) = "rightClick" ->
                  tray' = "menu" /\ UNCHANGED <<presses, quitFlag>>
             [] Head(trayQueue) = "close" ->
                  quitFlag' = TRUE /\ UNCHANGED <<tray, presses>>
             [] Head(trayQueue) = "quit" ->
                  tray' = "remove" /\ UNCHANGED <<presses, quitFlag>>
     \/ /\ trayQueue = <<>> /\ quitFlag
        /\ tray' = "remove"
        /\ UNCHANGED <<presses, trayQueue, quitFlag>>
  /\ UNCHANGED <<loop, errCh, trayDone, ctxDone, hotkey, loopErr, trayWatch,
                 shell, count>>

PumpTrayFails ==
  /\ tray = "pump"
  /\ tray' = "remove" /\ loopErr' = TRUE
  /\ UNCHANGED <<loop, chans, hotkey, trayQueue, trayWatch, quitFlag, shell,
                 count>>

\* Fault: the icon is left to be removed by the end of the process.
RemoveIconLater ==
  /\ tray = "remove"
  /\ tray' = "unpublish"
  /\ UNCHANGED <<loop, chans, hotkey, loopErr, trayQueue, trayWatch, quitFlag,
                 shell, count>>

\* After the loop: NIM_DELETE and DestroyWindow.  Their results are ignored; the
\* model takes it that the shell removes an icon it is asked to remove.
RemoveIcon ==
  /\ tray = "remove"
  /\ tray' = "unpublish" /\ icon' = FALSE
  /\ UNCHANGED <<loop, chans, hotkey, loopErr, trayQueue, trayWatch, quitFlag,
                 current, hidden, count>>

TrayReturns ==
  /\ tray = "unpublish"
  /\ tray' = "returned" /\ current' = FALSE
  /\ trayDone' = IF loopErr THEN "error" ELSE IF ctxDone THEN "ctx" ELSE "exit"
  /\ UNCHANGED <<loop, presses, errCh, ctxDone, hotkey, loopErr, trayQueue,
                 trayWatch, quitFlag, icon, hidden, count>>

\* The goroutine that posts WM_QUIT when ctx is cancelled while the loop runs.
WatchTray ==
  /\ tray \in {"pump", "menu"} /\ ctxDone /\ ~trayWatch
  /\ trayWatch' = TRUE /\ trayQueue' = Append(trayQueue, "quit")
  /\ UNCHANGED <<loop, chans, hotkey, tray, loopErr, quitFlag, shell, count>>

\* The menu's own message loop meets WM_QUIT: it closes the menu and leaves
\* WM_QUIT to the loop of Run.
MenuQuits ==
  /\ tray = "menu"
  /\ quitFlag \/ \E i \in DOMAIN trayQueue : trayQueue[i] = "quit"
  /\ tray' = "pump"
  /\ UNCHANGED <<loop, chans, hotkey, loopErr, trayQueue, trayWatch, quitFlag,
                 shell, count>>

Tray == MenuQuits \/ Create \/ Publish \/ PumpTray \/ RemoveIcon \/ TrayReturns

-----------------------------------------------------------------------------
(* The user and Windows.                                                    *)

Input(taps1) == input < MaxInput /\ input' = input + 1 /\ taps' = taps + taps1

PressHotkey ==
  /\ hk \in {"pump", "wait"} /\ Input(1)
  /\ hkQueue' = Append(hkQueue, "hotkey")
  /\ UNCHANGED <<loop, chans, hk, hkErr, hkWatch, trayThread, shell, runs>>

\* A click on the icon, or the WM_CLOSE of a polite taskkill.
TrayMessage(m) ==
  /\ icon /\ tray \in {"publish", "pump", "menu"}
  /\ Input(IF m = "click" THEN 1 ELSE 0)
  /\ trayQueue' = Append(trayQueue, m)
  /\ UNCHANGED <<loop, chans, hotkey, tray, loopErr, trayWatch, quitFlag,
                 shell, runs>>

\* TrackPopupMenu returns what the user picked, or nothing.
PickFromMenu(item) ==
  /\ tray = "menu" /\ Input(IF item = "menuClose" THEN 1 ELSE 0)
  /\ tray' = "pump"
  /\ IF item = "menuClose" THEN Offer ELSE UNCHANGED presses
  /\ quitFlag' = (quitFlag \/ item = "menuExit")
  /\ UNCHANGED <<loop, errCh, trayDone, ctxDone, hotkey, loopErr, trayQueue,
                 trayWatch, shell, runs>>

\* Ctrl+C reaches a console that can be seen.
CtrlC ==
  /\ ~ctxDone /\ ~hidden
  /\ ctxDone' = TRUE
  /\ UNCHANGED <<loop, presses, errCh, trayDone, hotkey, trayThread, shell, count>>

User ==
  \/ PressHotkey \/ CtrlC
  \/ \E m \in {"click", "rightClick", "close"} : TrayMessage(m)
  \/ \E item \in {"menuClose", "menuExit", "none"} : PickFromMenu(item)

Next ==
  /\ Alive
  /\ \/ Main \/ Hotkey \/ PumpFails \/ WatchHotkey
     \/ Tray \/ PumpTrayFails \/ WatchTray \/ User

Spec == Init /\ [][Next]_vars

\* Every goroutine and thread that can run does; closeLobby returns
\* (CloseLobby!CallReturns).  The user owes nothing, GetMessage need not fail.
FairSpec ==
  /\ Spec
  /\ WF_vars(Alive /\ Main)
  /\ WF_vars(Alive /\ Hotkey) /\ WF_vars(Alive /\ WatchHotkey)
  /\ WF_vars(Alive /\ Tray) /\ WF_vars(Alive /\ WatchTray)

-----------------------------------------------------------------------------
(* Properties.                                                              *)

LoopOK ==
  /\ main \in {"select", "closing", "notify", "balloon", "drain", "returned"}
  /\ exit \in {"none", "nil", "ctx", "fatal"} /\ busy \in BOOLEAN

ChansOK ==
  /\ presses \in 0 .. 1 /\ ctxDone \in BOOLEAN
  /\ errCh \in {"empty", "ctx", "error"}
  /\ trayDone \in {"empty", "exit", "ctx", "error"}

HotkeyOK ==
  /\ hk \in {"register", "pump", "wait", "returned"}
  /\ hkErr \in {"none", "ctx", "error"}
  /\ hk = "wait" => hkErr # "none"
  /\ hkQueue \in Seq({"hotkey", "quit"}) /\ hkWatch \in BOOLEAN

TrayOK ==
  /\ tray \in {"off", "create", "publish", "pump", "menu", "remove",
               "unpublish", "returned"}
  /\ loopErr \in BOOLEAN /\ trayWatch \in BOOLEAN /\ quitFlag \in BOOLEAN
  /\ trayQueue \in Seq({"click", "rightClick", "close", "quit"})
  /\ icon \in BOOLEAN /\ current \in BOOLEAN /\ hidden \in BOOLEAN

CountsOK == input \in 0 .. MaxInput /\ taps \in 0 .. input /\ runs \in Nat

\* Every variable keeps its type; the channels hold what they have room for,
\* and a Listen that has left its loop has an error to return.
TypeOK == LoopOK /\ ChansOK /\ HotkeyOK /\ TrayOK /\ CountsOK

\* The select loop never finds the busy flag set: the runs are served one
\* after the other by the loop itself, so no press it reads is ignored.
GuardNeverBites == main = "select" => ~busy

Queued(queue, m) == Cardinality({i \in DOMAIN queue : queue[i] = m})
HotkeysQueued == Queued(hkQueue, "hotkey")
ClicksQueued == Queued(trayQueue, "click")

\* A trigger starts at most one run: the runs started, the press waiting in
\* the channel and the triggers still in the message queues never add up to
\* more than what the user did, on two threads that share one channel.
RunsNeedTriggers == runs + presses + HotkeysQueued + ClicksQueued <= taps

\* The menu exit ends the process only after the icon is gone.
ExitRemovesIcon == main = "returned" /\ exit = "nil" => ~icon /\ ~current

\* A monitor stopped by ctx has seen Listen give the hotkey back.
CancelReleasesHotkey == main = "returned" /\ exit = "ctx" => hk = "returned"

Ended == ~Alive
TrayBusy == tray \in {"menu", "remove", "unpublish", "returned"}

\* A trigger is never lost: a message on a thread whose loop works leads to a
\* press in the channel, and a press in the channel to a run that starts after
\* it, unless the monitor ends.
TriggerServed ==
  /\ (presses = 1) ~> (main = "closing" /\ presses = 0) \/ Ended
  /\ (HotkeysQueued > 0) ~> presses = 1 \/ hk \in {"wait", "returned"} \/ Ended
  /\ (ClicksQueued > 0) ~> presses = 1 \/ TrayBusy \/ Ended

\* A cancelled ctx stops the monitor, whatever presses, runs, clicks and
\* failures come with it; Exit picked from the menu does, unless the tray
\* thread's GetMessage fails before the loop comes to WM_QUIT.
CancelStops == ctxDone ~> Ended
ExitStops == quitFlag ~> Ended \/ loopErr

\* What Serving sees of the threads: the requests on their way to a run, the
\* run from its press to its balloon, the hotkey and the icon.
Waiting == presses + HotkeysQueued + ClicksQueued
Running == main \in {"closing", "notify", "balloon"}
HotkeyState ==
  IF hk = "register" THEN "new" ELSE IF hk = "returned" THEN "free" ELSE "held"
IconState ==
  IF tray \in {"off", "create"} THEN "new" ELSE IF icon THEN "held" ELSE "free"

Service == INSTANCE Serving WITH
  asked <- Waiting, serving <- Running, hotkey <- HotkeyState, icon <- IconState,
  ended <- exit

\* The monitor serves as Serving promises: a press or a click is dropped only
\* when another one is still waiting, which starts a run after both; runs do not
\* overlap; and the end comes when the hotkey or the icon has been given back.
ServesAsPromised == Service!Spec

-----------------------------------------------------------------------------
(* What the repository says of the monitor and the code does not do.        *)

\* hotkey_windows.go: Listen "sends on ch whenever it is pressed".  A press of
\* the hotkey is sent, or the monitor ends.  Not so after a GetMessage error,
\* which Listen only returns once ctx is cancelled.
ListenSends == (HotkeysQueued > 0) ~> presses = 1 \/ Ended
=============================================================================
