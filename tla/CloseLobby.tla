----------------------------- MODULE CloseLobby -----------------------------
(***************************************************************************)
(* closeLobby of internal/app/app.go: one run lists the connections of the *)
(* game, deletes their control blocks, re-reads the TCP table to find the  *)
(* survivors, retries them for a few rounds and at last blocks the traffic *)
(* of the game executables for one window.  The run is sequential; what    *)
(* moves under it is Windows: the game opens and drops connections, exits  *)
(* and restarts between any two steps, other processes take over a freed   *)
(* address tuple, every call can fail, and ctx may be cancelled.           *)
(*                                                                         *)
(* A connection is named by its address tuple (Connection.Key), so the     *)
(* same name can be live, gone and live again with another owner.          *)
(***************************************************************************)
EXTENDS Naturals, FiniteSets

CONSTANTS
  Conn,         \* address tuples that may appear in the TCP tables
  V6,           \* those of the IPv6 table
  Pid,          \* process ids a process with a wanted name may have
  Other,        \* any process with another name
  Exe,          \* executable images
  ExeOf,        \* the image each game process runs
  Rounds,       \* cfg.Rounds
  BlockEnabled  \* cfg.BlockWindow > 0

ASSUME CloseAssumption ==
  /\ IsFiniteSet(Conn) /\ IsFiniteSet(Pid)
  /\ V6 \subseteq Conn
  /\ Other \notin Pid
  /\ ExeOf \in [Pid -> Exe]
  /\ Rounds \in Nat \ {0}
  /\ BlockEnabled \in BOOLEAN

V4 == Conn \ V6
V4Only(conns) == conns \cap V4
AllIPv6(conns) == conns # {} /\ conns \subseteq V6

VARIABLES
  table,        \* the TCP tables of Windows: the row of every tuple
  running,      \* game processes alive
  pc,           \* where the run is
  pids, paths,  \* processes FindByName returned; those with a known ExePath
  snap,         \* rows collected by the table read in progress
  targets,      \* connections the run still pursues
  todo,         \* targets CloseAll has not come to yet
  round,        \* the round counter
  stats,        \* closeStats
  accessDenied, \* some SetTcpEntry call was denied
  toBlock,      \* entries of paths blockGameTraffic has not come to yet
  active,       \* the entry BlockApp holds filters for, Other when none
  result,       \* the returned error, "none" while the run goes on
  cancelAt      \* 0, or 1 + the round in which ctx was cancelled

\* History of the current run, read by the properties only.
VARIABLES
  aim,          \* the connections the first listing found
  down,         \* those of them that stopped being deletable since
  blind,        \* those a verifying read could not see because it failed
  confirmed,    \* those a verifying read did not find
  windows,      \* how many windows each image has been blocked for
  cut           \* ctx ended a wait of the run

os == <<table, running>>
found == <<pids, paths>>
tally == <<stats, accessDenied>>
fallback == <<toBlock, active>>
history == <<aim, down, blind, confirmed, windows, cut>>
vars == <<os, pc, found, snap, targets, todo, round, tally, fallback, result,
          cancelAt, history>>

-----------------------------------------------------------------------------
(* Rows.  "dead" stands for the rows CanDelete turns down: no remote        *)
(* endpoint, CLOSED, LISTEN or TIME_WAIT.                                   *)

Row == [state : {"absent", "dead", "live"}, owner : Pid \cup {Other}]
Absent == [state |-> "absent", owner |-> Other]
CanDelete(row) == row.state = "live"

\* What ListByPIDs and the filter of snapshot() let through, given a table.
Killable(tab, c) == tab[c].owner \in pids /\ CanDelete(tab[c])

cancelled == cancelAt # 0

\* Connections whose fate the history follows: listed ones.
Watched == IF aim = {} THEN snap ELSE aim
Observe == down' = down \cup {c \in Watched : ~Killable(table', c)}

NoStats == [Closed |-> 0, Gone |-> 0, Failed |-> 0, Survived |-> 0,
            Blocked |-> FALSE]

Init ==
  /\ table \in [Conn -> {Absent} \cup [state : {"live"}, owner : Pid \cup {Other}]]
  /\ running = Pid
  /\ pc = "idle" /\ result = "none"
  /\ pids = {} /\ paths = {}
  /\ snap = {} /\ targets = {} /\ todo = {} /\ round = 0
  /\ stats = NoStats /\ accessDenied = FALSE
  /\ toBlock = {} /\ active = Other
  /\ cancelAt = 0
  /\ aim = {} /\ down = {} /\ blind = {} /\ confirmed = {}
  /\ windows = [e \in Exe |-> 0] /\ cut = FALSE

-----------------------------------------------------------------------------
(* The run.                                                                 *)

Return(err) == pc' = "returned" /\ result' = err

\* What FindByName returns without an error: the game processes it enumerated
\* before Process32Next stopped it, at the end of the list or on an error, with
\* the image paths it could query.
FindByName == pids' \in SUBSET running /\ paths' \in SUBSET pids'

\* A call of closeLobby up to the first table read.
Call ==
  /\ pc \in {"idle", "returned"}
  /\ snap' = {} /\ targets' = {} /\ todo' = {} /\ round' = 0
  /\ stats' = NoStats /\ accessDenied' = FALSE
  /\ toBlock' = {} /\ active' = Other
  /\ aim' = {} /\ down' = {} /\ blind' = {} /\ confirmed' = {}
  /\ windows' = [e \in Exe |-> 0] /\ cut' = FALSE
  /\ FindByName
  /\ \/ Return("findProcesses") /\ pids' = {}
     \/ Return("nil") /\ pids' = {}
     \/ pids' # {} /\ pc' = "list4" /\ result' = "none"
  /\ UNCHANGED <<os, cancelAt>>

\* One of the two table queries of ListByPIDs.  A failed query is logged and
\* contributes no rows.
ReadTable(from, to, family) ==
  /\ pc = from
  /\ pc' = to
  /\ \/ /\ snap' = snap \cup {c \in family : Killable(table, c)}
        /\ UNCHANGED blind
     \/ /\ UNCHANGED snap
        /\ blind' = blind \cup (targets \cap family)
  /\ UNCHANGED <<os, found, targets, todo, round, tally, fallback, result,
                 cancelAt, aim, down, confirmed, windows, cut>>

ListTargets == ReadTable("list4", "list6", V4) \/ ReadTable("list6", "listed", V6)
Verify == ReadTable("verify4", "verify6", V4) \/ ReadTable("verify6", "decide", V6)
Recheck == ReadTable("recheck4", "recheck6", V4) \/ ReadTable("recheck6", "judge", V6)

\* The first snapshot decides whether there is anything to do.
Listed ==
  /\ pc = "listed"
  /\ snap' = {}
  /\ targets' = snap /\ aim' = snap
  /\ IF snap = {}
       THEN Return("nil") /\ UNCHANGED round
       ELSE pc' = "round" /\ round' = 1 /\ UNCHANGED result
  /\ UNCHANGED <<os, found, todo, tally, fallback, cancelAt, down, blind,
                 confirmed, windows, cut>>

\* Fault: the round starts without a look at ctx.
StartRoundUnchecked ==
  /\ pc = "round"
  /\ pc' = "close" /\ todo' = V4Only(targets)
  /\ UNCHANGED <<os, found, snap, targets, round, tally, fallback, cancelAt,
                 result, history>>

\* Fault: a cancelled run never leaves the head of the loop.
StartRoundStuck == ~cancelled /\ StartRoundUnchecked

\* Head of the loop: ctx is checked, then CloseAll starts on the IPv4 targets.
StartRound ==
  /\ pc = "round"
  /\ IF cancelled
       THEN Return("canceled") /\ cut' = TRUE /\ UNCHANGED todo
       ELSE pc' = "close" /\ todo' = V4Only(targets) /\ UNCHANGED <<result, cut>>
  /\ UNCHANGED <<os, found, snap, targets, round, tally, fallback, cancelAt,
                 aim, down, blind, confirmed, windows>>

\* What Windows may answer to SetTcpEntry(DELETE_TCB) for a row.  0 deletes
\* the control block; ERROR_INVALID_PARAMETER and ERROR_NOT_FOUND are the
\* codes classifyErrno reads as "already gone".
Answers(row) ==
  {"denied", "notFound", "other"} \cup (IF row.state = "live" THEN {"ok"} ELSE {})

\* classifyErrno and the switch that counts its result.
Count(answer) ==
  /\ stats' = CASE answer = "ok"       -> [stats EXCEPT !.Closed = @ + 1]
                [] answer = "notFound" -> [stats EXCEPT !.Gone = @ + 1]
                [] OTHER               -> [stats EXCEPT !.Failed = @ + 1]
  /\ accessDenied' = (accessDenied \/ answer = "denied")

\* One SetTcpEntry call of CloseAll.  It names an address tuple, not an owner.
SetTcpEntry(c) ==
  /\ pc = "close" /\ c \in todo
  /\ todo' = todo \ {c}
  /\ \E answer \in Answers(table[c]) :
       /\ Count(answer)
       /\ IF answer = "ok"
            THEN \E row \in {Absent, [table[c] EXCEPT !.state = "dead"]} :
                   table' = [table EXCEPT ![c] = row]
            ELSE UNCHANGED table
  /\ Observe
  /\ UNCHANGED <<running, pc, found, snap, targets, round, fallback, result,
                 cancelAt, aim, blind, confirmed, windows, cut>>

\* CloseAll is through and the run waits verifyDelay.  When ctx is cancelled
\* and the timer has fired, select may take either branch.
WaitVerify ==
  \/ /\ pc = "close" /\ todo = {}
     /\ pc' = "wait"
     /\ UNCHANGED <<os, found, snap, targets, todo, round, tally, fallback,
                    result, cancelAt, history>>
  \/ /\ pc = "wait"
     /\ \/ pc' = "verify4" /\ UNCHANGED <<result, cut>>
        \/ cancelled /\ Return("canceled") /\ cut' = TRUE
     /\ UNCHANGED <<os, found, snap, targets, todo, round, tally, fallback,
                    cancelAt, aim, down, blind, confirmed, windows>>

\* Faults: what the new table shows is not compared with the targets; only
\* the IPv4 targets are looked for.
SurvivorsUnmatched == snap
SurvivorsV4 == V4Only(targets) \cap snap

\* The survivors of the round: intersect(targets, snapshot()).
Survivors == targets \cap snap

\* Faults: no limit; one round too many; any IPv6 survivor ends the rounds.
RetryForever == Survivors # {} /\ ~AllIPv6(Survivors)
RetryOnceMore == Survivors # {} /\ round <= Rounds /\ ~AllIPv6(Survivors)
RetryV4Alone == Survivors # {} /\ round < Rounds /\ Survivors \cap V6 = {}

\* The loop goes round again when something survived that SetTcpEntry can
\* still be tried on.
Retry == Survivors # {} /\ round < Rounds /\ ~AllIPv6(Survivors)

\* Fault: the next round runs on all the targets of this one.
NextTargetsAll == targets

NextTargets == Survivors

\* Break or go round again; after a break without survivors the run is over.
Decide ==
  /\ pc = "decide"
  /\ snap' = {}
  /\ confirmed' = confirmed \cup (targets \ snap)
  /\ IF Retry
       THEN /\ targets' = NextTargets /\ round' = round + 1 /\ pc' = "round"
            /\ UNCHANGED <<stats, result>>
       ELSE /\ stats' = [stats EXCEPT !.Survived = Cardinality(Survivors)]
            /\ UNCHANGED <<targets, round>>
            /\ IF Survivors # {}
                 THEN pc' = "block" /\ UNCHANGED result
                 ELSE Return(IF accessDenied /\ stats.Closed = 0 /\ stats.Gone = 0
                               THEN "allDenied" ELSE "nil")
  /\ UNCHANGED <<os, found, todo, accessDenied, fallback, cancelAt, aim, down,
                 blind, windows, cut>>

-----------------------------------------------------------------------------
(* The traffic block.                                                       *)

\* Fault: survivors are never an error.
UnresolvedNil == "nil"

\* The return value when the block has not cleared the connections.
Unresolved == IF stats.Closed + stats.Gone = 0 THEN "couldNotClose" ELSE "nil"

\* blockGameTraffic: disabled, no path known, or one BlockApp per entry.
BlockGameTraffic ==
  /\ pc = "block"
  /\ IF BlockEnabled /\ paths # {}
       THEN pc' = "nextPath" /\ toBlock' = paths /\ UNCHANGED result
       ELSE Return(Unresolved) /\ UNCHANGED toBlock
  /\ UNCHANGED <<os, found, snap, targets, todo, round, tally, active,
                 cancelAt, history>>

\* BlockApp installs the filters of one entry, or fails and ends the loop.
BlockApp(p) ==
  /\ pc = "nextPath" /\ p \in toBlock
  /\ \/ pc' = "blocking" /\ active' = p /\ UNCHANGED result
     \/ Return(Unresolved) /\ UNCHANGED active
  /\ UNCHANGED <<os, found, snap, targets, todo, round, tally, toBlock,
                 cancelAt, history>>

\* Fault: the ctx error of BlockApp is taken for the end of the window.
UnblockCutShort ==
  /\ pc = "blocking"
  /\ active' = Other /\ pc' = "nextPath" /\ toBlock' = toBlock \ {active}
  /\ \/ windows' = [windows EXCEPT ![ExeOf[active]] = @ + 1] /\ UNCHANGED cut
     \/ cancelled /\ cut' = TRUE /\ UNCHANGED windows
  /\ UNCHANGED <<os, found, snap, targets, todo, round, tally, result, cancelAt,
                 aim, down, blind, confirmed>>

\* The window ends by its timer, or by ctx, which blockGameTraffic returns as
\* an error; either way closing the engine removes the filters.
Unblock ==
  /\ pc = "blocking"
  /\ active' = Other
  /\ \/ /\ pc' = "nextPath"
        /\ toBlock' = toBlock \ {active}
        /\ windows' = [windows EXCEPT ![ExeOf[active]] = @ + 1]
        /\ UNCHANGED <<result, cut>>
     \/ /\ cancelled
        /\ Return(Unresolved) /\ cut' = TRUE
        /\ UNCHANGED <<toBlock, windows>>
  /\ UNCHANGED <<os, found, snap, targets, todo, round, tally, cancelAt,
                 aim, down, blind, confirmed>>

BlockLifted ==
  /\ pc = "nextPath" /\ toBlock = {}
  /\ pc' = "recheck4"
  /\ stats' = [stats EXCEPT !.Blocked = TRUE]
  /\ UNCHANGED <<os, found, snap, targets, todo, round, accessDenied, fallback,
                 result, cancelAt, history>>

\* The table after the block: the run counts as resolved when nothing is left.
Judge ==
  /\ pc = "judge"
  /\ snap' = {}
  /\ confirmed' = confirmed \cup (targets \ snap)
  /\ IF Survivors = {}
       THEN Return("nil") /\ stats' = [stats EXCEPT !.Survived = 0]
       ELSE Return(Unresolved) /\ UNCHANGED stats
  /\ UNCHANGED <<os, found, targets, todo, round, accessDenied, fallback,
                 cancelAt, aim, down, blind, windows, cut>>

-----------------------------------------------------------------------------
(* Windows, the game and the user.                                          *)

own == <<pc, found, snap, targets, todo, round, tally, fallback, result,
         aim, blind, confirmed, windows, cut>>

\* The run looks at the ids it was given and never at names again, so a process
\* that has taken over the id of one that exited is the game to it, whatever
\* its name.
GameStarts(p) ==
  /\ p \notin running
  /\ running' = running \cup {p}
  /\ UNCHANGED <<table, own, cancelAt, down>>

GameExits(p) ==
  /\ p \in running
  /\ running' = running \ {p}
  /\ table' = [c \in Conn |-> IF table[c].owner = p THEN Absent ELSE table[c]]
  /\ Observe
  /\ UNCHANGED <<own, cancelAt>>

\* A tuple without a live row gets one, of whatever process asks first.
Connects(c, o) ==
  /\ table[c].state # "live" /\ o \in running \cup {Other}
  /\ table' = [table EXCEPT ![c] = [state |-> "live", owner |-> o]]
  /\ Observe
  /\ UNCHANGED <<running, own, cancelAt>>

\* A connection ends by itself, leaving a TIME_WAIT or CLOSED row or none.
Disconnects(c) ==
  /\ table[c].state # "absent"
  /\ \E row \in {Absent, [table[c] EXCEPT !.state = "dead"]} :
       table[c] # row /\ table' = [table EXCEPT ![c] = row]
  /\ Observe
  /\ UNCHANGED <<running, own, cancelAt>>

Cancel ==
  /\ ~cancelled
  /\ cancelAt' = 1 + round
  /\ UNCHANGED <<os, own, down>>

Run ==
  \/ Listed \/ StartRound \/ WaitVerify \/ Decide
  \/ ListTargets \/ Verify \/ Recheck
  \/ \E c \in Conn : SetTcpEntry(c)
  \/ BlockGameTraffic \/ BlockLifted \/ Unblock \/ Judge
  \/ \E p \in Pid : BlockApp(p)

Environment ==
  \/ \E p \in Pid : GameStarts(p) \/ GameExits(p)
  \/ \E c \in Conn, o \in Pid \cup {Other} : Connects(c, o)
  \/ \E c \in Conn : Disconnects(c)
  \/ Cancel

Next == Call \/ Run \/ Environment

Spec == Init /\ [][Next]_vars

\* closeLobby is straight-line code on a running thread: system calls return,
\* timers fire.  Nothing is assumed of the game, of the user or of the caller.
FairSpec == Spec /\ WF_vars(Run)

-----------------------------------------------------------------------------
(* What the run tells the user: closeBalloon.                               *)

Title ==
  CASE result = "canceled" -> "silent"
    [] result \notin {"nil", "canceled"} -> "Close failed"
    [] result = "nil" /\ stats.Closed = 0 /\ stats.Gone = 0 /\ ~stats.Blocked
         -> "Nothing to close"
    [] OTHER -> "Sockets closed"

-----------------------------------------------------------------------------
(* Properties.                                                              *)

Returned == pc = "returned"

SystemOK == table \in [Conn -> Row] /\ running \subseteq Pid

ControlOK ==
  /\ pc \in {"idle", "list4", "list6", "listed", "round", "close", "wait",
             "verify4", "verify6", "decide", "block", "nextPath", "blocking",
             "recheck4", "recheck6", "judge", "returned"}
  /\ result \in {"none", "nil", "findProcesses", "canceled", "allDenied",
                 "couldNotClose"}
  /\ round \in 0 .. Rounds /\ cancelAt \in 0 .. Rounds + 1

TargetsOK ==
  /\ pids \subseteq Pid /\ paths \subseteq pids
  /\ snap \subseteq Conn /\ targets \subseteq aim /\ todo \subseteq V4Only(targets)
  /\ toBlock \subseteq paths /\ active \in Pid \cup {Other}

CountsOK ==
  /\ stats \in [Closed : Nat, Gone : Nat, Failed : Nat, Survived : Nat,
                Blocked : BOOLEAN]
  /\ accessDenied \in BOOLEAN

HistoryOK ==
  /\ aim \subseteq Conn /\ down \subseteq Conn /\ blind \subseteq Conn
  /\ confirmed \subseteq Conn
  /\ windows \in [Exe -> Nat] /\ cut \in BOOLEAN

\* Every variable keeps its type; the round counter never passes cfg.Rounds,
\* only IPv4 targets are queued for SetTcpEntry, and the run never pursues a
\* connection its first listing did not show.
TypeOK == SystemOK /\ ControlOK /\ TargetsOK /\ CountsOK /\ HistoryOK

\* A run that returns nil and reports no survivor has done its job: every
\* connection it listed stopped being a live connection of the game at some
\* moment of the run, or a verifying table read failed and hid it.  Covers the
\* verification loop and the look at the table after the traffic block.
SuccessIsReal ==
  Returned /\ result = "nil" /\ stats.Survived = 0 => aim \subseteq down \cup blind

\* Once a verifying read has missed a connection the run never calls
\* SetTcpEntry for its tuple again, even when the game reconnects on it and a
\* later read shows it: what the game opens during the run is left alone.
SparesReconnected == todo \cap confirmed = {}

\* Game traffic is blocked only when SetTcpEntry has no more to give: the
\* rounds are used up, or what survived the last of them is IPv6 only.
BlockIsLastResort ==
  pc \in {"block", "nextPath", "blocking"} =>
    /\ aim \ confirmed # {}
    /\ round = Rounds \/ aim \ confirmed \subseteq V6

\* A run that reports the block has blocked every executable it found for a
\* whole window: neither a later executable that could not be blocked nor a
\* window that ctx cut short counts as done.
BlockedMeansAll == stats.Blocked => \A n \in paths : windows[ExeOf[n]] > 0

\* The balloon "Nothing to close" denies no connection that the run still sees:
\* each listed one was missed by some later read, though no call and no block
\* of this run can have ended it.  A read that failed misses what it could not
\* see; how far success can be believed then is SuccessIsReal.
NothingToCloseIsTrue ==
  Returned /\ Title = "Nothing to close" => aim \subseteq confirmed

\* A cancelled run finishes the round it is in and starts no other: after the
\* cancel, SetTcpEntry is called only for connections of that round.
StopsWithinRound == pc = "close" /\ cancelAt # 0 => cancelAt = 1 + round

\* The steps a run has at most before it returns: in each round a look at ctx,
\* a SetTcpEntry call for every IPv4 target, the wait, the two table queries and
\* the verdict; in the fallback a window for each path and one more look.
RoundSteps == Cardinality(V4) + 6
FallbackSteps == 2 * Cardinality(paths) + 5
AfterRound(r) == ((Rounds - r) * RoundSteps) + FallbackSteps
StepsLeft ==
  LET later == AfterRound(round)
  IN  CASE pc = "list4"    -> later + 3
        [] pc = "list6"    -> later + 2
        [] pc = "listed"   -> later + 1
        [] pc = "round"    -> later + RoundSteps
        [] pc = "close"    -> later + Cardinality(todo) + 5
        [] pc = "wait"     -> later + 4
        [] pc = "verify4"  -> later + 3
        [] pc = "verify6"  -> later + 2
        [] pc = "decide"   -> later + 1
        [] pc = "block"    -> FallbackSteps
        [] pc = "nextPath" -> 2 * Cardinality(toBlock) + 4
        [] pc = "blocking" -> 2 * Cardinality(toBlock) + 3
        [] pc = "recheck4" -> 3
        [] pc = "recheck6" -> 2
        [] pc = "judge"    -> 1
        [] OTHER           -> 0

\* A call of closeLobby is over after a number of its own steps that is fixed by
\* cfg.Rounds, the connections and the executables found: connections that come
\* back, processes that restart and calls that fail add none to it.
CallRunsOut ==
  [][ /\ StepsLeft' \in Nat
      /\ Run => StepsLeft' < StepsLeft
      /\ Environment => StepsLeft' = StepsLeft ]_vars

\* Every call of closeLobby returns, whatever the game, the other processes
\* and the system calls do meanwhile.
CallReturns == (pc # "idle") ~> Returned

\* The run keeps the promise of Closing.  What is left are the targets no verifying
\* read has missed, what is due are those CloseAll has yet to come to: the targets
\* are fixed by the first listing and only become fewer, CloseAll is given none
\* but the ones left, at most cfg.Rounds times, and the title of the balloon
\* agrees with them.  A round that goes on with what its read shows, or with
\* the targets of the one before, breaks it.
Promise == INSTANCE Closing WITH
  Limit <- Rounds,
  phase <- CASE pc = "idle" -> "idle"
             [] pc \in {"list4", "list6", "listed"} -> "looking"
             [] Returned -> "done"
             [] OTHER -> "closing",
  left <- targets \ confirmed,
  due <- todo,
  attempts <- CASE pc = "round" -> round - 1 [] Returned -> 0 [] OTHER -> round,
  report <- IF Returned THEN Title ELSE "none"

KeepsPromise == Promise!Spec

-----------------------------------------------------------------------------
(* What the repository says of the run and the code does not do.            *)

\* close_windows.go: "the final verification pass catches real failures".  A
\* run that reports success has seen every listed connection go down.  Not so
\* when GetExtendedTcpTable fails: the empty snapshot reads as "all gone".
VerificationCatchesFailures ==
  Returned /\ result = "nil" /\ stats.Survived = 0 => aim \subseteq down

\* app.go: closeLobby "stops early (returning ctx.Err()) when ctx is
\* cancelled".  A run in which ctx ended a wait returns ctx.Err().  Not so in
\* the traffic block, whose error closeLobby logs and drops.
CancelledRunIsSilent == Returned /\ cut => result = "canceled"
=============================================================================
