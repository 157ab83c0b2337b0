# pubg-lobby-fix: specifications and proofs

TLA+ models of pubg-lobby-fix, a Windows tool that closes the TCP connections
of a game when the user presses a hotkey, clicks a tray icon or starts it with
`-once`. TLC checks the models on small instances, TLAPS proves all of their
safety properties for every instance. `PROJECT.json` lists the
components, the runs, the source lines behind each definition, the hazards, the
findings and the theorems.

    tlc -config MCClose_mixed.cfg MCCloseLobby.tla
    tlc -config MCMonitor.cfg Monitor.tla
    tlc -config MCUpdate.cfg Update.tla
    tlapm CloseLobbyProofs.tla

## The system

| component | source | state it keeps | operations |
| --- | --- | --- | --- |
| close run | `internal/app/app.go` (`closeLobby`), `internal/tcp/close_windows.go` | targets, survivors, round, `closeStats`, `accessDenied`, paths | list, delete, wait, verify, retry, block, recheck, report |
| TCP tables | `internal/tcp/table_windows.go`, `connection.go` | none; the tables are Windows' | `ListByPIDs`, `CanDelete`, `Key` |
| process lookup | `internal/process` | none | `FindByName` |
| traffic block | `internal/wfp` | application id, engine session, four filters | `BlockApp` |
| monitor loop | `internal/app/app.go` (`Run`) | `presses`, `errCh`, `trayDone`, `busy` | the four cases of the `select` |
| hotkey listener | `internal/hotkey` | the registration, a thread message queue, a goroutine waiting for ctx | `Parse`, `Listen` |
| tray icon | `internal/tray` | icon, window, `current`, a thread message queue, a goroutine waiting for ctx or `done` | `Run`, `wndProc`, `showMenu`, `Notify` |
| self-update | `internal/update` | the executable, `.old`, `.new` files | `MaybeAuto`, `replace`, `CleanupOld`, `Restart` |
| elevation and start | `internal/elevate`, `main.go` | flags and environment handed to the next process | `RelaunchAsAdmin`, `run` |
| list mode | `internal/app/app.go` (`listConnections`) | none | print the connections once |

**Interaction.** Two OS threads, the hotkey's and the tray's, pump Windows
messages and offer tokens to one buffered channel. The main goroutine takes them
one by one and runs `closeLobby` inside its `select` loop, so runs never
overlap; it reports through `tray.Notify`, which reads an atomic pointer the
tray thread owns. `closeLobby` calls the process, tcp and wfp packages in line.
Two processes of the tool, a monitor and a `-once` run, share Windows and the
files beside the executable: each start removes the `.old` file, may hand over to
an elevated copy, and may replace the executable and hand over to the new one.

**What is hard.** The tables change under the run between any two calls; a
connection has no identity but its address tuple, so what is deleted need not be
what was listed; any call can fail, one family of the table without the other;
ctx races with timers; two threads and the loop race at the start, at every
press and above all at the end; the process may die while filters are
installed or while the executable is being replaced.

**What makes each component correct.**

* Close run: it succeeds only when the listed connections went down, leaves alone
  what the game opens meanwhile, blocks traffic only when nothing else is left to
  try, returns, and what it tells the user agrees with the tables.
* Traffic block: all four filters or no window, and nothing left behind on any
  path, nor after a crash.
* Monitor: no trigger lost or served twice, a cancel and an exit end it, the
  hotkey and the icon are given back first.
* Self-update: at every moment, crashes and other processes included, a whole
  executable is in place or beside it, what is in place was verified, and versions
  only go up.
* Start: one start ends in one running tool with the user's flags, and the chain
  of copies ends.
* Parsers: nothing is read beyond a buffer, nothing of a table is lost without a
  warning, versions are ordered, and a hotkey is the one that was named.

## Modules

| module | models | proofs |
| --- | --- | --- |
| `CloseLobby` | `closeLobby`, `CloseAll`, `blockGameTraffic`, `closeBalloon`, under Windows, the game and the user | `CloseLobbyProofs` |
| `Closing` | what a close request promises, without the how; `CloseLobby` implements it | the refinement is in `CloseLobbyProofs` |
| `MCCloseLobby` | names for TLC | |
| `BlockApp` | `wfp.BlockApp` in several processes, crashes, the filtering engine | `BlockAppProofs` |
| `Monitor` | `app.Run`, `hotkey.Listen`, `tray.Run`, `tray.Notify`, the user | `MonitorProofs` |
| `Serving` | what the monitor promises its user, without the how; `Monitor` implements it | the refinement is in `MonitorProofs` |
| `Session` | `Monitor` and `BlockApp` composed: a monitor whose runs block traffic, beside `-once` processes | `SessionProofs` |
| `Update` | `internal/update` in several processes: `CleanupOld`, `MaybeAuto`, `replace` | `UpdateProofs` |
| `Installing` | what the self-update promises, without the how; `Update` implements it | the refinement is in `UpdateProofs` |
| `Launch` | `main.run`, `RelaunchAsAdmin` and `Restart` on top of `Update`: one start becomes a chain of processes | `LaunchProofs` |
| `MCLaunch` | command lines for TLC | |
| `Tables` | `ListByPIDs` and the parsing of the TCP tables, list mode | `HelpersProofs` |
| `Versions` | `cmpVersion` and `versionParts` | `VersionsProofs` |
| `Bindings` | `hotkey.Parse` and `virtualKey` | `HelpersProofs` |
| `Icons` | `pickIconEntry` | `HelpersProofs` |
| `Helpers` | the functions of these four called one at a time, with any input their parameters can hold | `HelpersProofs` |
| `MCHelpers` | bounded inputs for TLC | |

### CloseLobby

The program counter `pc` names the statement the run is at. Each system call is
a step of its own, and between two steps the environment may act: the game
starts (`GameStarts`), exits (`GameExits`), connects (`Connects`), drops a
connection (`Disconnects`), and the user cancels (`Cancel`).

* `Call` is everything up to the first table read: `FindByName` may fail, find
  nothing, or find any part of the running processes (its loop ends at any error
  of `Process32Next`) with any part of their paths.
* `ReadTable` is one table query of `ListByPIDs`, with the filter of `snapshot`;
  it can fail, and contributes nothing then. It is used for the first listing,
  the verification and the look after the block.
* `StartRound`, `SetTcpEntry` (one call each), `WaitVerify` and `Decide` are the
  loop. `Count` is `classifyErrno` with the `switch` on its result.
* `BlockGameTraffic`, `BlockApp`, `Unblock`, `BlockLifted` and `Judge` are the
  fallback. What goes on inside `wfp.BlockApp` is module `BlockApp`.

Data is reduced to what matters. A connection is its tuple (`Connection.Key`); a
row has a state, "live" for those `CanDelete` accepts, and an owner. A path is
represented by the process it was taken from, and `ExeOf` says which of them are
the same executable. `CloseAll` takes its targets in any order.

The variables `aim`, `down`, `blind`, `confirmed`, `windows` and `cut` record the
history of the run for the properties; no guard reads them.

### Closing

The abstract request fixes a set of connections once; a limited number of attempts
delete connections of it; a look after each takes away those that are gone; and
the report may be "Nothing to close" only when none is left. The refinement maps
the state the code works with: `left` is `targets` without the connections a
verifying read has missed, `due` is what `CloseAll` has not come to yet,
`attempts` the rounds begun, `report` the title of the balloon. So the abstract
specification forbids what a change at `app.go:275-283` could get wrong, whatever
the order of reconnects: a round that goes on with what its read shows lets new
connections slip into `targets` (`left` grows), one that goes on with the old
targets hands a reconnected tuple to `CloseAll` (`due` is not part of `left`), a
loop with a round too many begins an attempt beyond the limit, and a wrong
verdict makes the balloon deny survivors. A connection may stay in `targets`
after the last read has missed it, since the loop ends without another assignment;
nothing deletes it any more, and the look after the block reads it again.

### BlockApp

One program per process of the tool. `filters[t]` is what the filtering engine
enforces for the session of process `t`; it outlives the process until the
engine notices (`Rundown`). A process that dies stays dead; one started later is
another member of `Tool`. The `select` that waits out the window has an action for
each of its cases, `TimerEnds` and `CtxEnds`; `Step` is told whether ctx is done.
`CloseEngine` takes it that `FwpmEngineClose0` succeeds for a handle that was
opened: the code ignores its result (`wfp_windows.go:166`), and `NothingLeft` holds
on every return only as far as that call does what it is asked.

### Monitor

Three groups of actions, for the main goroutine, the hotkey thread and the tray
thread, the latter two with the goroutine that waits for ctx. The `select`
picks any ready case. `presses` holds 0 or 1. The queue of a thread holds the
messages posted to it; the WM_QUIT of `PostQuitMessage` is a flag that counts
when the queue is empty, the one of `PostThreadMessage` an entry, as in Windows.
The popup menu runs a message loop of its own: `MenuQuits` is that loop meeting
a WM_QUIT. `closeLobby` is a step that takes any time. Nothing happens after
`app.Run` has returned. `RemoveIcon` takes it that `NIM_DELETE` succeeds: the code
ignores its result (`tray_windows.go:289`), so what `ExitRemovesIcon` shows is that
the removal comes before the end of the process, not that the shell obeys.

### Serving

The abstract monitor has a number of requests that wait, a run in progress or
none, a hotkey, an icon and an end. The concrete one keeps the requests in three
places, the two message queues and the channel of one press, and throws some away:
a press that finds the channel full, a click while another one waits. `Merge` is
the only way to lose a request, and asks for another one that goes on waiting; it
is this one's run that serves both. A refinement that dropped a press because a
run is in progress, which is how `hotkey_windows.go:176` can be read, would not
do, as the run may be past the connection the press was for. `End` asks for what
the code waits for before it returns: after Exit the icon is gone, otherwise the
hotkey is. In the mapping a run lasts from the press to its balloon.

### Session

`Session` extends `BlockApp` and instantiates `Monitor`. One member of `Tool`, `Mon`,
is the monitor, and the others are `-once` processes. A run of the monitor
(`main = "closing"`) makes `BlockApp` calls one after the other and does not end
inside one: `blockGameTraffic` calls in line, and with the ctx of `app.Run`, so the
`done` of the monitor's `Step` is `ctxDone` (`Contexts`). What else the run does is
`CloseLobby`, not repeated here. Any process may be killed at any step.

### Update

Several processes of one directory share the executable and the `.old` file. The
temporary files of `replace` have names of their own, so nobody else touches
them and they are left out; an executable is a release and whether it is whole.
Windows is external: a running executable can be renamed, in which case the
process goes on running from the new name (`Renamed`), but neither deleted nor
replaced (`Locked`). Each file operation is a step and may fail, each step may be
the last of its process (`End`). `Download` is one step, as it has no effect but
its result: the asset is not found, a transfer fails or the checksum differs, or
the binary is there, cut off by `exeFromZip` if it is longer than `maxZipSize`.
`MaybeAuto` decides with the version compiled into the process, while `replace`
moves whatever is at the path by then. `Publish` lets the latest release become any
other, an older one too, as when a release is withdrawn. Releases are numbers:
`Versions` justifies that, as `newer` is an order.

### Launch

A process of `Update` gets a command line, an environment and a token. `Main` is
what a process does by itself up to `app.Run`; the steps of `Update` appear in
it under the conditions `main.go` calls them in. `Flags` is where `flag.Parse`
stops. `RelaunchAsAdmin` starts the copy with what `quoteArgs(os.Args)` yields,
the program name first. Whether `ShellExecuteW` passes the environment on is left
open. `origin` ties each process to the start of the user it descends from.

### Tables, Versions, Bindings, Icons

Functions of the code against reference definitions. Rows keep the fields a property
looks at, the process id and the port with its undefined upper half; addresses go
the same way as ports and are left out. Either call of `GetExtendedTcpTable` may
fail for reasons of its own, the second one also when the rows do not fit; a first
call that answers 0 shows a family without rows and without a warning
(`table_windows.go:94-96`), and `NoSilentLoss` asks for no more there. `Tables` keeps the arithmetic in 32 bits,
`Versions` the bound of `int` and the value `strconv.Atoi` returns with a range
error. A text is the list of its parts: fields between dots, or names between plus
signs. A loop over data (`Collected`, `Reading`, `Picking`) is a recursive function
from the number of turns done to the state of the loop. `Helpers` puts a
specification around the functions: a step calls one of them with some input, and
the invariants say what it then returns.

## Runs

An operator commented "Fault" is a variant of the definition that follows it,
with a mistake the code could plausibly have made. No run uses one; put in place
of its definition, it makes the property that `PROJECT.json` names beside it
("mutants") fail, which shows that the property can.

| run | instance | checks |
| --- | --- | --- |
| `mixed` | one IPv4, one IPv6 connection, one process, 2 rounds, fair | `TypeOK`, `SuccessIsReal`, `BlockIsLastResort`, `BlockedMeansAll`, `NothingToCloseIsTrue`, `CallRunsOut`, `CallReturns` |
| `pair` | two IPv4 connections, 3 rounds, symmetric | `SparesReconnected`, `StopsWithinRound`, `KeepsPromise` |
| `monitor` | tray, 3 inputs, fair | `TypeOK`, `GuardNeverBites`, `RunsNeedTriggers`, `ExitRemovesIcon`, `CancelReleasesHotkey`, `ServesAsPromised`, `TriggerServed`, `CancelStops`, `ExitStops` |
| `session` | the monitor with its tray, two executables, 2 inputs, fair | `TypeOK`, `WindowIsComplete`, `NothingLeft`, `BlocksOnlyInRuns`, `BlockEnds`, `CancelUnblocks` |
| `update` | three processes, three releases, one too long | `TypeOK`, `Recoverable`, `Verified`, `OneSwap`, `NeverDowngrades` |
| `launch` | one start of the user, three processes, three releases, fair | `LaunchTypeOK`, `OneHeir`, `RequestServed`, `ChainsEnd` |
| `helpers` | all inputs up to a size | `ListIsWhole`, `RowsInBounds`, `VersionsOrdered`, `BindingIsMeant`, `VirtualKeysApart`, `IconIsClosest` |

**Bounds.** The properties of a close run speak of one connection at a time, or
of a connection and the rest; one of each family lets every branch on families
(`v4Only`, `allIPv6`, a failed query of one table) go both ways, and two of the
same family let one be deleted while the other reconnects. Two rounds have a
first and a last, as the verdict needs; three have one in between, which is where
a reconnected connection could be picked up again. The proofs do away with
these bounds for the safety properties. The close runs repeat without bound.
`mixed` has one process and so one executable: only a window cut short can break
`BlockedMeansAll` there. Several executables blocked one after the other are the
business of `BlockedTheorem`, which has any number of them; a second process takes
the run beyond a reasonable time.

`MaxInput` bounds the inputs of the user to the monitor over a whole behaviour:
three are enough for a run in progress, a press in the channel and one more that
finds it full or waits in a queue. `session` has two, one to start a run and one
during it, a press, a click or the end of the window; Ctrl+C is not counted. It has no process
beside the monitor: `BlockAppProofs` shows for any number of processes that a step
of one leaves the others' sessions alone (`Local`), and `SessionProofs` has any number of them.

Three processes of `update` are one that swaps the files, one that is late and one
that cleans up or starts; slots are used again, so processes come and go without
bound. Three releases let one be skipped, withdrawn or overtaken. `Tries`, 10
in the code, is 2 and 1: a try that is not the last one, and the last one. In
`launch` three processes are one more than a handover needs, as the one before
may still be there; three releases make a chain of two updates. Two starts at
once differ from one only in the files they share, which is what `update` checks.

In `helpers` a word has 256 values, a byte 2 and an `int` ends at 3, so that every
wrap-around and limit is met: buffers and counts take all values, tables have up
to two rows and may change between the calls, tags up to two fields, texts up to four parts,
icon files up to three images and are cut inside the header, the directory and an
image; the numbers of function keys go from -1 to 30. `HelpersProofs` does away with
these bounds.

**Deadlock** is checked in the close runs. The monitor's process and those of
`Session`, `Update` and `Launch` end and may all be gone, and a state of
`helpers` is one call, so their configurations turn the check off.

**Fairness.** `CloseLobby`: weak fairness of the run as a whole, because it is
straight-line code on a running thread whose system calls return and whose timers
fire; the game, the user and the caller are under no obligation. `Monitor`: weak
fairness of the main goroutine, of each thread's own steps and of each ctx
goroutine, as the Go scheduler and Windows run every runnable thread; the user
need not do anything and `GetMessage` need not fail. That `closeLobby` returns is
what `CallReturns` shows (and `RunsOutTheorem` bounds, for any instance). Fairness of
the main goroutine does not say which ready case `select` takes; the properties
hold for any. `BlockApp`: calls return, the timer of the window fires, and the engine
runs down the sessions of dead processes; a crash is never required. `Session` puts
these together, with two differences. Its close runs are not assumed to end: the end
of a `BlockApp` call does it. And the timer is not assumed to fire: weak fairness is on
`Untimed`, what a call does without it. So `CancelUnblocks` holds through
`<-ctx.Done()` alone, and a window that did not listen to ctx would break it. `BlockEnds`
needs the timer when nobody cancels, and says so itself: its hypothesis is that no
process stays in its window for ever. `Launch`: weak fairness of
`Main` of each process, straight-line code whose calls return or time out (the
update check and the download have timeouts, `CleanupOld` a number of tries); it
is not assumed that the prompt is accepted, that a release is published, or that
anybody ends or starts a process.

## Where documentation and code part

Each has a run that TLC ends with a counterexample.

| run | what the repository says | what happens |
| --- | --- | --- |
| `blindVerify` | `close_windows.go:22`: "the final verification pass catches real failures" | a failed table query shows no survivors, and the run reports success |
| `cancelInBlock` | `app.go:207`: `closeLobby` returns `ctx.Err()` when cancelled; `app_test.go:98`: "A cancelled run must stay silent" | the ctx error of the block is logged and dropped; the balloon appears |
| `deadHotkey` | `hotkey_windows.go:130`: `Listen` sends whenever the hotkey is pressed | after a `GetMessage` error it waits for ctx, still registered |
| `lostFlags` | `elevate_windows.go:26`: "with the same arguments plus -no-elevate" | the program name is passed as the first argument, at which `flag.Parse` stops: no flag is read, `-once` becomes a monitor |
| `recheck` | `apply.go:31`: "so it skips the immediate re-check (restart-loop guard)" | the tag `v1.2.3` is compared with the version `1.2.3`: the guard never holds |

`blindVerify` is why `SuccessIsReal` has its second half: the code does guarantee
that a success without survivors is real for every connection a verifying read
could see. `recheck` is harmless for the reason `ChainsEnd` shows and `ChainsClimb` proves: a restart is
always into a newer version. Without `-no-elevate` among its flags the elevated
copy of `lostFlags` still does not loop, as it asks for its token first.

Noticed while modelling, without a run of its own: `-block` holds for each
*process* found, so an executable that runs twice is blocked for two windows one
after the other (`app.go:222`); after a failed block of a later executable
`stats.Blocked` stays false though the first was blocked (`app.go:307`);
`SetTcpEntry` names a tuple and no owner, so the connection of another process that
has taken over the tuple is deleted (`close_windows.go:51`); a press during a run
is kept in the emptied channel and starts a second run, whatever
`hotkey_windows.go:176` says of dropping it; when `GetMessage` fails on the tray
thread the monitor goes on with its console hidden (`tray_windows.go:276`); an `.old` file that another
process runs from makes every update fail until that process ends, while
`apply.go:37-38` calls it harmless; `-hotkey f1x` is F1, as `Sscanf` does not ask for
the end of the text; pre-releases compare equal to their release.

## Proofs

`CloseLobbyProofs` proves, from `CloseAssumption` alone (finitely many
connections and processes, at least one round, the image of each process known), for any sets
and any number of rounds, with the fallback on or off:

* `TypeCorrect`: `Spec => []TypeOK`. Inductive together with `Queue`: only
  `CloseAll` has connections queued.
* `SuccessTheorem`, `SparesTheorem`, `LastResortTheorem`,
  `NothingToCloseTheorem`, `StopsTheorem`: the safety properties of the passing
  close runs.
* `Refinement`: `Spec => Promise!Spec`, so `CloseLobby` implements `Closing`. An
  attempt stays within `left` because of `Apart` (below), nothing is due outside
  `CloseAll` because of `Queue`, and the number of attempts starts at zero because
  of `Unstarted`.
* `RunsOutTheorem`: the safety half of `CallReturns`. `StepsLeft` counts what a
  call has still to do at most: the calls and reads of its round, the rounds after
  it, a window for each path and the last look. Every step of the run makes it
  smaller, and nothing the game, Windows or the user do makes it larger, so no
  order of reconnects and failures keeps a call going. The other half, that the
  run takes its next step, is fairness.

The properties are not inductive. `IInv` adds what the code relies on:

* `Seen`: a listed connection is killable right now or has been down since. Every
  step that changes the table records it.
* `Missed`: the read in progress explains every target it has not shown, for the
  families it has come to: the target was down, or its query failed.
* `Accounted` and `Apart`: each listed connection is still a target or was
  confirmed, and during the rounds not both. The latter makes
  `SparesReconnected` follow, the former turns "no survivors" into a statement
  about everything listed.
* `Leftover` and `NilVerdict`: the fallback starts with a positive
  `stats.Survived` and keeps it, so a nil result with a zero there means a read
  that missed every target.
* `StepsInv` carries `RunsOutTheorem`: `TypeInv`, `Served`, and `Unstarted`, that the
  round counter starts with the first round. `Sizes` bounds the queues of the round
  and of the fallback by what there is to delete and to block, `Later` is the
  arithmetic of a round more being a round less to come.
* `Fresh`: nothing is counted or confirmed during the first listing; the
  refinement needs it for a run that finds nothing to close.

The proof has one lemma per conjunct and one step per action in it. `IInv` has
been checked with TLC on the instance of `mixed` as well. `StepRefines` goes
through the actions once more: a read or an environment step is a stutter, a
verdict `Confirm`s or `Finish`es.

`BlockAppProofs` proves `TypeOK`, `WindowIsComplete` and `NothingLeft` for any
number of processes. `Holds` says what a process has at each statement; `Local`
that a step of one process changes nothing of another; `AddFilterStep` that the
loop over the layers ends with all four.

`BlockedTheorem` needs `Served`: in the middle of the fallback every path that is not
left to block has had its window.

`MonitorProofs` proves every safety property of `Monitor` for any `MaxInput`, with
and without a tray. The lemmas `MainLeaves`, `HotkeyLeaves`, `TrayLeaves` and
`UserLeaves` say what each thread leaves alone. `Leaving` is the inductive invariant of
the orders of leaving: `Handover` adds that an error is in a channel only when its
thread has returned, and that the icon and Notify's entry are gone from the stage of
the tray thread at which it has taken them back. `TriggerBudget` is about the message queues, which
have no bound: `QueuedAppend` and `QueuedTail` count the messages of a kind in
a longer and a shorter queue, the latter with a bijection between their places.

`ServiceRefinement` is `Spec => Service!Spec`: `Monitor` implements `Serving`. Besides
`TypeOK` it needs `Leaving`, whose `GuardNeverBites` makes the receive of a press
begin a run and whose `Handover` says what has been given back at the end, and
`Ending`, that `app.Run` has returned exactly when it has an outcome. `Passed` is the
point of it: a trigger that comes to a full channel leaves it full. One lemma per
thread (`MainServes`, `HotkeyServes`, `TrayServes`, `UserServes`) maps each action
to one of `Serving` or to none.

`UpdateProofs` proves every property of `Update` for any processes and releases. The
inductive invariant says of each process that it runs from a whole file of its
own version wherever that is by now (`Runs`), that between the two renames it runs
from `.old` with nothing at the path (`Swaps`), and that what it installs is newer
than itself and whole unless cut (`Targets`). `Runs` is what protects the `.old` file:
the process that moved the executable away holds it. `OneSwap` is part of the
invariant, as the second rename and the rollback of one process rely on it, and
`Refinement` follows: a swap ends in a newer release or in the one it began with,
which is the process's own version. `BehindTheorem` adds that no process
is newer than what a start would run, and that one with a finished update is older.

`SessionProofs` proves that a step of the composition is a step of `BlockApp` or none
(`BlockAppHolds`) and a step of `Monitor` or none (`MonitorHolds`), so that what is
proved of the two is true of the monitor that blocks traffic; and from `TypeOK` of
`BlockApp` that it blocks during its runs only (`BlocksTheorem`), for any processes
beside it.

`LaunchProofs` proves `LaunchTypeOK` and `OneHeir` for any processes, releases, starts
and command lines. `UpdateHolds` says that a step of `Launch` is a step of `Update` or
none, so the theorems of `UpdateProofs` are true of the chains. The inductive
invariant `LInv` is stronger than `OneHeir`: of the processes of a start, one at
most has not handed over (`Unique`), wherever it is in `main`, since any of them
may become the running one. It has a lemma per kind of step: `GoesOn` for the steps of
`Update`, `Turns` for a decision of `main`, `Begins` for a new process and `Ends`
for one that is gone.

`ChainsClimb` and `ChainsRunOut` are the safety half of `ChainsEnd`, the latter for
finitely many releases. A copy runs what is installed when it starts (`CopyRuns`), which
is not older than the process that starts it, and newer when that process has
installed an update (`BehindTheorem`), even if others have swapped the files since; so
each handover takes one from `Rest`, the newer releases and the elevation still
to come. The argument does not use the restart-loop guard.

`HelpersProofs` proves every invariant of `Helpers`, from what the parameters of the
functions can hold (`HelpersAssumption`), for inputs of any size. `HelpersCalled` says
that only such inputs come. The library's induction theorems cannot be used here, so
`Induction` does without: if a set of turns that holds 0 and goes on from each turn to
the next were not all of them, there would be a least turn missing (`Least`). `Loop`
uses it to show that the recursive functions exist; `ReadingTurns`, `PickingTurns` and
`CollectedTurns` are their turns. Each loop has an invariant:

* `ListAlwaysWhole`: after `i` rows the list holds the wanted ones among them, as many
  as there are and in their order (`CollectedLists`, by the rank of a row), each with
  its port decoded (`Ports`); what the calls read is what is visible, or nothing
  (`TableRead`); a family has a warning exactly when it is unreadable (`FamilyWhole`).
* `RowsAlwaysInBounds`: the last row of an accepted count ends inside the buffer, and
  the 32-bit offset of the loop has not wrapped by then, for a width of any size.
* `BindingAlwaysMeant`: `Knows`, what the state of `Parse` says of the parts read.
* `VirtualKeysAlwaysApart`: the ranges of the codes do not meet.
* `IconAlwaysClosest`: none of the images looked at is better than the one kept;
  a tie goes to the larger.
* `VersionsAlwaysOrdered`, from `OrderTheorem`.

`VersionsProofs` proves `OrderTheorem`: `newer` is a strict weak order on tags of any
length, in which tags that differ in trailing zeros or a suffix tie (`SameRelease`),
and plain ones of different releases do not; `Compare` reduces it to the first place at which two tags differ.
`ReleasesNumbered` makes numbers of them: any finite set of tags has a numbering
that agrees with `newer`, which is why `Update` may have numbers for releases.

Model-checked only: the liveness properties (`CallReturns`, `TriggerServed`,
`CancelStops`, `ExitStops`, `BlockEnds`, `CancelUnblocks`, `RequestServed`,
`ChainsEnd`), as fairness and ENABLED are out of the prover's reach. Every invariant
and every action property of the passing runs is a theorem.

## Not modelled

The matching of process names and the buffer of `imagePaths` (`internal/process`),
`zipAsset` and the text of the checksum file, the truncation of texts
in `copyFixed`, `-version`, log formats and `splitCSV`: string work without
state. A thread message queue of Windows that is full, the loss of data that was
written but not flushed, and leftover temporary files of a killed update are
left out of the models. C struct layouts are a check that may fail
(`BlockApp!Call`); the wording of logs and balloons is left out except for the
balloon's title.

## Plan

What the models cover is done. Left for later: `zipAsset` and `verifyChecksum` against
reference definitions.
