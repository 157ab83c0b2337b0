-------------------------- MODULE CloseLobbyProofs --------------------------
(***************************************************************************)
(* The safety properties of CloseLobby, for any sets of connections,       *)
(* processes and executables, any number of rounds, with and without the   *)
(* traffic block.                                                          *)
(***************************************************************************)
EXTENDS CloseLobby, FiniteSetTheorems, TLAPS

\* What a set of survivors says about its size.
LEMMA SurvivorCount ==
  ASSUME NEW S, S \subseteq Conn
  PROVE  Cardinality(S) \in Nat /\ (Cardinality(S) = 0 <=> S = {})
<1>1. IsFiniteSet(S)
  BY CloseAssumption, FS_Subset
<1> QED
  BY <1>1, FS_CardinalityType, FS_EmptySet

-----------------------------------------------------------------------------
(* Type correctness.  Only CloseAll has connections queued.                 *)

Queue == todo # {} => pc = "close"
TypeInv == TypeOK /\ Queue

\* The first state is well typed.
LEMMA TypeInit == Init => TypeInv
<1> SUFFICES ASSUME Init PROVE TypeInv
  OBVIOUS
<1>1. SystemOK
  BY DEF Init, SystemOK, Row, Absent
<1>2. ControlOK
  BY CloseAssumption DEF Init, ControlOK
<1>3. TargetsOK /\ Queue
  BY DEF Init, TargetsOK, Queue
<1>4. CountsOK
  BY DEF Init, CountsOK, NoStats
<1>5. HistoryOK
  BY DEF Init, HistoryOK
<1> QED
  BY <1>1, <1>2, <1>3, <1>4, <1>5 DEF TypeInv, TypeOK

USE DEF os, found, tally, fallback, history, own, Return, FindByName

\* The tables hold rows and the running processes are game processes.
LEMMA SystemStep == TypeInv /\ [Next]_vars => SystemOK'
<1> SUFFICES ASSUME TypeInv, [Next]_vars PROVE SystemOK'
  OBVIOUS
<1> USE DEF SystemOK
<1>0. SystemOK
  BY DEF TypeInv, TypeOK
<1>1. ASSUME NEW c \in Conn, SetTcpEntry(c) PROVE SystemOK'
  BY <1>0, <1>1 DEF SetTcpEntry, Row, Absent
<1>2. ASSUME NEW n \in Pid, GameStarts(n) \/ GameExits(n) PROVE SystemOK'
  BY <1>0, <1>2 DEF GameStarts, GameExits, Row, Absent
<1>3. ASSUME NEW c \in Conn, NEW o \in Pid \cup {Other}, Connects(c, o) \/ Disconnects(c)
      PROVE  SystemOK'
  BY <1>0, <1>3 DEF Connects, Disconnects, Row, Absent
<1>4. CASE UNCHANGED os
  BY <1>0, <1>4
<1>5. Next => \/ UNCHANGED os
              \/ \E c \in Conn : SetTcpEntry(c) \/ Disconnects(c)
              \/ \E n \in Pid : GameStarts(n) \/ GameExits(n)
              \/ \E c \in Conn, o \in Pid \cup {Other} : Connects(c, o)
  BY DEF Next, Run, Environment, Call, ListTargets, Verify, Recheck, ReadTable,
         Listed, StartRound, WaitVerify, Decide, BlockGameTraffic, BlockLifted,
         Unblock, Judge, BlockApp, Cancel
<1> QED
  BY <1>1, <1>2, <1>3, <1>4, <1>5 DEF vars

\* The steps one at a time, for the parts below.
LEMMA Steps ==
  ASSUME [Next]_vars
  PROVE  \/ Call \/ ListTargets \/ Verify \/ Recheck \/ Listed \/ StartRound
         \/ WaitVerify \/ Decide \/ BlockGameTraffic \/ BlockLifted \/ Unblock
         \/ Judge \/ (\E c \in Conn : SetTcpEntry(c)) \/ (\E n \in Pid : BlockApp(n))
         \/ Environment \/ UNCHANGED vars
  BY DEF Next, Run

\* What the environment leaves alone: everything but the tables, the history
\* of what went down and the cancel.
LEMMA EnvironmentLeaves ==
  ASSUME Environment
  PROVE  UNCHANGED own
  BY DEF Environment, GameStarts, GameExits, Connects, Disconnects, Cancel

\* The control state: the round counter stays within cfg.Rounds.
LEMMA ControlStep == TypeInv /\ [Next]_vars => ControlOK'
<1> SUFFICES ASSUME TypeInv, [Next]_vars PROVE ControlOK'
  OBVIOUS
<1> USE CloseAssumption DEF ControlOK
<1>0. ControlOK
  BY DEF TypeInv, TypeOK
<1>1. CASE Call
  BY <1>0, <1>1 DEF Call
<1>2. CASE ListTargets \/ Verify \/ Recheck
  BY <1>0, <1>2 DEF ListTargets, Verify, Recheck, ReadTable
<1>3. CASE Listed \/ StartRound \/ WaitVerify
  BY <1>0, <1>3 DEF Listed, StartRound, WaitVerify
<1>4. CASE Decide
  <2>1. /\ pc' \in {"round", "block", "returned"} /\ cancelAt' = cancelAt
        /\ round' = round \/ (round < Rounds /\ round' = round + 1)
    BY <1>4 DEF Decide, Retry
  <2>2. result' \in {result, "allDenied", "nil"}
    BY <1>4 DEF Decide
  <2> QED
    BY <1>0, <2>1, <2>2
<1>5. CASE BlockGameTraffic \/ BlockLifted \/ Unblock \/ Judge
  BY <1>0, <1>5 DEF BlockGameTraffic, BlockLifted, Unblock, Judge, Unresolved
<1>6. CASE (\E c \in Conn : SetTcpEntry(c)) \/ (\E n \in Pid : BlockApp(n))
  BY <1>0, <1>6 DEF SetTcpEntry, BlockApp, Unresolved
<1>7. CASE Environment
  <2>1. UNCHANGED <<pc, result, round>>
    BY <1>7, EnvironmentLeaves
  <2>2. cancelAt' \in {cancelAt, 1 + round}
    BY <1>7 DEF Environment, GameStarts, GameExits, Connects, Disconnects, Cancel
  <2> QED
    BY <1>0, <2>1, <2>2
<1>8. CASE UNCHANGED vars
  BY <1>0, <1>8 DEF vars
<1> QED
  BY <1>1, <1>2, <1>3, <1>4, <1>5, <1>6, <1>7, <1>8, Steps

\* The sets of processes and connections of a run, and CloseAll's queue.
LEMMA TargetsStep == TypeInv /\ [Next]_vars => TargetsOK' /\ Queue'
<1> SUFFICES ASSUME TypeInv, [Next]_vars PROVE TargetsOK' /\ Queue'
  OBVIOUS
<1> USE DEF TargetsOK, Queue
<1>0. TargetsOK /\ Queue /\ running \subseteq Pid
  BY DEF TypeInv, TypeOK, SystemOK
<1>1. CASE Call
  BY <1>0, <1>1 DEF Call
<1>2. CASE ListTargets \/ Verify \/ Recheck
  BY <1>0, <1>2, CloseAssumption DEF ListTargets, Verify, Recheck, ReadTable, V4
<1>3. CASE Listed
  BY <1>0, <1>3 DEF Listed
<1>4. CASE StartRound \/ WaitVerify
  BY <1>0, <1>4 DEF StartRound, WaitVerify, V4Only
<1>5. CASE Decide
  BY <1>0, <1>5 DEF Decide, NextTargets, Survivors
<1>6. CASE BlockGameTraffic \/ BlockLifted \/ Unblock \/ Judge
  BY <1>0, <1>6 DEF BlockGameTraffic, BlockLifted, Unblock, Judge
<1>7. CASE \E c \in Conn : SetTcpEntry(c)
  BY <1>0, <1>7 DEF SetTcpEntry
<1>8. CASE \E n \in Pid : BlockApp(n)
  BY <1>0, <1>8 DEF BlockApp
<1>9. CASE Environment
  BY <1>0, <1>9, EnvironmentLeaves
<1>10. CASE UNCHANGED vars
  BY <1>0, <1>10 DEF vars
<1> QED
  BY <1>1, <1>2, <1>3, <1>4, <1>5, <1>6, <1>7, <1>8, <1>9, <1>10, Steps

\* closeStats and the accessDenied flag.
LEMMA CountsStep == TypeInv /\ [Next]_vars => CountsOK'
<1> SUFFICES ASSUME TypeInv, [Next]_vars PROVE CountsOK'
  OBVIOUS
<1> USE DEF CountsOK
<1>0. CountsOK /\ targets \subseteq Conn
  BY DEF TypeInv, TypeOK, TargetsOK, HistoryOK
<1>1. CASE Call
  BY <1>1 DEF Call, NoStats
<1>2. CASE \E c \in Conn : SetTcpEntry(c)
  <2>1. PICK answer : Count(answer)
    BY <1>2 DEF SetTcpEntry
  <2>2. CASE answer = "ok"
    BY <1>0, <2>1, <2>2 DEF Count
  <2>3. CASE answer = "notFound"
    BY <1>0, <2>1, <2>3 DEF Count
  <2>4. CASE answer \notin {"ok", "notFound"}
    BY <1>0, <2>1, <2>4 DEF Count
  <2> QED
    BY <2>2, <2>3, <2>4
<1>3. CASE Decide
  <2>1. Cardinality(Survivors) \in Nat
    BY <1>0, SurvivorCount DEF Survivors
  <2> QED
    BY <1>0, <1>3, <2>1 DEF Decide
<1>4. CASE BlockLifted \/ Judge
  <2>1. \/ stats' = [stats EXCEPT !.Blocked = TRUE]
        \/ stats' = [stats EXCEPT !.Survived = 0]
        \/ stats' = stats
    BY <1>4 DEF BlockLifted, Judge
  <2>2. accessDenied' = accessDenied
    BY <1>4 DEF BlockLifted, Judge
  <2>3. CASE stats' = [stats EXCEPT !.Blocked = TRUE]
    BY <1>0, <2>2, <2>3
  <2>4. CASE stats' = [stats EXCEPT !.Survived = 0]
    BY <1>0, <2>2, <2>4
  <2> QED
    BY <1>0, <2>1, <2>2, <2>3, <2>4
<1>5. CASE UNCHANGED tally
  BY <1>0, <1>5
<1>6. CASE Environment
  BY <1>0, <1>6, EnvironmentLeaves
<1>7. ListTargets \/ Verify \/ Recheck \/ Listed \/ StartRound \/ WaitVerify
        \/ BlockGameTraffic \/ Unblock \/ (\E n \in Pid : BlockApp(n))
        \/ UNCHANGED vars => UNCHANGED tally
  BY DEF ListTargets, Verify, Recheck, ReadTable, Listed, StartRound,
         WaitVerify, BlockGameTraffic, Unblock, BlockApp, vars
<1> QED
  BY <1>1, <1>2, <1>3, <1>4, <1>5, <1>6, <1>7, Steps

\* The history of the run.
LEMMA HistoryStep == TypeInv /\ [Next]_vars => HistoryOK'
<1> SUFFICES ASSUME TypeInv, [Next]_vars PROVE HistoryOK'
  OBVIOUS
<1> USE DEF HistoryOK
<1>0. HistoryOK /\ snap \subseteq Conn /\ targets \subseteq Conn
  BY DEF TypeInv, TypeOK, TargetsOK, HistoryOK
<1>1. CASE Call
  BY <1>0, <1>1 DEF Call
<1>2. CASE ListTargets \/ Verify \/ Recheck
  BY <1>0, <1>2 DEF ListTargets, Verify, Recheck, ReadTable
<1>3. CASE Listed \/ StartRound \/ WaitVerify
  BY <1>0, <1>3 DEF Listed, StartRound, WaitVerify
<1>4. CASE Decide \/ Judge
  BY <1>0, <1>4 DEF Decide, Judge
<1>5. CASE BlockGameTraffic \/ BlockLifted \/ (\E n \in Pid : BlockApp(n))
  BY <1>0, <1>5 DEF BlockGameTraffic, BlockLifted, BlockApp
<1>6. CASE Unblock
  <2>1. windows' = windows \/ windows' = [windows EXCEPT ![ExeOf[active]] = @ + 1]
    BY <1>6 DEF Unblock
  <2>2. windows' \in [Exe -> Nat]
    BY <1>0, <2>1
  <2>3. cut' \in {cut, TRUE} /\ UNCHANGED <<aim, down, blind, confirmed>>
    BY <1>6 DEF Unblock
  <2> QED
    BY <1>0, <2>2, <2>3
<1>7. CASE \E c \in Conn : SetTcpEntry(c)
  BY <1>0, <1>7 DEF SetTcpEntry, Observe, Watched
<1>8. CASE Environment
  BY <1>0, <1>8, EnvironmentLeaves DEF Environment, GameStarts, GameExits,
     Connects, Disconnects, Cancel, Observe, Watched
<1>9. CASE UNCHANGED vars
  BY <1>0, <1>9 DEF vars
<1> QED
  BY <1>1, <1>2, <1>3, <1>4, <1>5, <1>6, <1>7, <1>8, <1>9, Steps

\* Every variable of closeLobby keeps its type: the round counter stays within
\* cfg.Rounds, only IPv4 targets are queued for SetTcpEntry, and no connection
\* is pursued that the first listing did not show.
THEOREM TypeCorrect == Spec => []TypeOK
<1>1. TypeInv /\ [Next]_vars => TypeInv'
  BY SystemStep, ControlStep, TargetsStep, CountsStep, HistoryStep
     DEF TypeInv, TypeOK
<1>2. TypeInv => TypeOK
  BY DEF TypeInv
<1> QED
  BY TypeInit, <1>1, <1>2, PTL DEF Spec

-----------------------------------------------------------------------------
(* The inductive invariant behind the safety properties.                    *)

Listing == {"list4", "list6", "listed"}
Rounding == Listing \cup {"round", "close", "wait", "verify4", "verify6", "decide"}
Blocking == {"block", "nextPath", "blocking", "recheck4", "recheck6", "judge"}

\* Nothing is pursued, confirmed or counted before the listing is complete.
Fresh == pc \in Listing => aim = {} /\ confirmed = {} /\ stats = NoStats

\* A listed connection that no table read could show any more has been down.
Seen == \A c \in Watched : Killable(table, c) \/ c \in down

\* Why a read does not show a target: it went down, or its table was not read.
Explained(conns) == conns \subseteq down \cup blind

Missed ==
  /\ Explained(confirmed)
  /\ pc \in {"verify6", "recheck6"} => Explained(V4Only(targets) \ snap)
  /\ pc \in {"decide", "judge"} => Explained(targets \ snap)

\* The listed connections are the targets and the confirmed ones; while the
\* rounds go on no target is confirmed.
Accounted == aim \subseteq targets \cup confirmed
Apart == pc \in Rounding => targets \cap confirmed = {}

\* The fallback and its verdicts start from at least one survivor.
Leftover == pc \in Blocking => stats.Survived # 0
NilVerdict == Returned /\ result = "nil" /\ stats.Survived = 0 => aim \subseteq confirmed

IInv ==
  /\ TypeInv /\ Fresh /\ Seen /\ Missed /\ Accounted /\ Apart
  /\ Leftover /\ NilVerdict
  /\ BlockIsLastResort /\ NothingToCloseIsTrue /\ StopsWithinRound

\* The first state satisfies the invariant.
LEMMA InvInit == Init => IInv
<1> SUFFICES ASSUME Init PROVE IInv
  OBVIOUS
<1>1. TypeInv
  BY TypeInit
<1>2. Seen /\ Missed /\ Accounted
  BY DEF Init, Seen, Watched, Missed, Explained, Accounted
<1>3. Fresh /\ Apart /\ Leftover /\ NilVerdict
  BY DEF Init, Fresh, Listing, Apart, Leftover, Blocking, NilVerdict, Returned
<1>4. BlockIsLastResort /\ NothingToCloseIsTrue /\ StopsWithinRound
  BY DEF Init, BlockIsLastResort, NothingToCloseIsTrue, Returned, StopsWithinRound
<1> QED
  BY <1>1, <1>2, <1>3, <1>4 DEF IInv

\* Steps that may change the tables record what goes down with them.
LEMMA LoudSteps ==
  ASSUME Environment \/ \E c \in Conn : SetTcpEntry(c)
  PROVE  /\ UNCHANGED <<pids, snap, aim, targets, confirmed, blind, result>>
         /\ down \subseteq down'
         /\ table' = table \/ Observe
<1>1. CASE Environment
  BY <1>1, EnvironmentLeaves DEF Environment, GameStarts, GameExits, Connects,
     Disconnects, Cancel, Observe
<1>2. CASE \E c \in Conn : SetTcpEntry(c)
  <2>1. UNCHANGED <<pids, snap, aim, targets, confirmed, blind, result>> /\ Observe
    BY <1>2 DEF SetTcpEntry
  <2> QED
    BY <1>2, <2>1 DEF Observe
<1> QED
  BY <1>1, <1>2

\* No listed connection leaves the tables unrecorded.
LEMMA SeenStep == IInv /\ [Next]_vars => Seen'
<1> SUFFICES ASSUME IInv, [Next]_vars PROVE Seen'
  OBVIOUS
<1>0. Seen /\ Fresh
  BY DEF IInv
<1>1. CASE Call
  BY <1>1 DEF Call, Seen, Watched
<1>2. CASE ListTargets \/ Verify \/ Recheck
  <2>1. /\ UNCHANGED <<table, pids, down, aim>>
        /\ snap' \subseteq snap \cup {c \in Conn : Killable(table, c)}
    BY <1>2, CloseAssumption DEF ListTargets, Verify, Recheck, ReadTable, V4
  <2> QED
    BY <1>0, <2>1 DEF Seen, Watched, Killable
<1>3. CASE Listed
  BY <1>0, <1>3 DEF Listed, Seen, Watched, Killable, Fresh, Listing
<1>4. CASE Decide \/ Judge
  BY <1>0, <1>4 DEF Decide, Judge, Seen, Watched, Killable
<1>5. CASE UNCHANGED <<table, pids, down, aim, snap>>
  BY <1>0, <1>5 DEF Seen, Watched, Killable
<1>6. StartRound \/ WaitVerify \/ BlockGameTraffic \/ BlockLifted \/ Unblock
        \/ (\E n \in Pid : BlockApp(n)) \/ UNCHANGED vars
      => UNCHANGED <<table, pids, down, aim, snap>>
  BY DEF StartRound, WaitVerify, BlockGameTraffic, BlockLifted, Unblock,
         BlockApp, vars
<1>7. CASE Environment \/ \E c \in Conn : SetTcpEntry(c)
  <2>1. Watched' = Watched /\ pids' = pids /\ down \subseteq down'
    BY <1>7, LoudSteps DEF Watched
  <2>2. table' = table \/ Observe
    BY <1>7, LoudSteps
  <2> QED
    BY <1>0, <2>1, <2>2 DEF Seen, Observe, Killable
<1> QED
  BY <1>1, <1>2, <1>3, <1>4, <1>5, <1>6, <1>7, Steps

\* The books on the listed connections: targets and confirmed ones.
LEMMA FreshStep == IInv /\ [Next]_vars => Fresh' /\ Accounted' /\ Apart'
<1> SUFFICES ASSUME IInv, [Next]_vars PROVE Fresh' /\ Accounted' /\ Apart'
  OBVIOUS
<1> USE DEF Fresh, Accounted, Apart, Listing, Rounding
<1>0. Fresh /\ Accounted /\ Apart
  BY DEF IInv
<1>1. CASE Call
  BY <1>1 DEF Call
<1>2. CASE ListTargets \/ Verify \/ Recheck
  BY <1>0, <1>2 DEF ListTargets, Verify, Recheck, ReadTable
<1>3. CASE Listed \/ StartRound \/ WaitVerify
  BY <1>0, <1>3 DEF Listed, StartRound, WaitVerify
<1>4. CASE Decide
  BY <1>0, <1>4 DEF Decide, NextTargets, Survivors
<1>5. CASE BlockGameTraffic \/ BlockLifted \/ Unblock \/ Judge
             \/ (\E n \in Pid : BlockApp(n))
  BY <1>0, <1>5 DEF BlockGameTraffic, BlockLifted, Unblock, Judge, BlockApp
<1>6. CASE \E c \in Conn : SetTcpEntry(c)
  BY <1>0, <1>6 DEF SetTcpEntry
<1>7. CASE Environment
  BY <1>0, <1>7, EnvironmentLeaves
<1>8. CASE UNCHANGED vars
  BY <1>0, <1>8 DEF vars
<1> QED
  BY <1>1, <1>2, <1>3, <1>4, <1>5, <1>6, <1>7, <1>8, Steps

\* A read of one family explains the targets of the family it does not show.
LEMMA ReadExplains ==
  ASSUME IInv, NEW from, NEW to, NEW family, family \subseteq Conn,
         ReadTable(from, to, family)
  PROVE  Explained((targets \cap family) \ snap)'
<1>1. UNCHANGED <<table, pids, targets, down, aim>>
  BY DEF ReadTable
<1>2. Seen /\ targets \subseteq aim
  BY DEF IInv, TypeInv, TypeOK, TargetsOK
<1>3. CASE snap' = snap \cup {c \in family : Killable(table, c)}
  BY <1>1, <1>2, <1>3 DEF Explained, Seen, Watched
<1>4. CASE blind' = blind \cup (targets \cap family)
  BY <1>1, <1>4 DEF Explained
<1> QED
  BY <1>3, <1>4 DEF ReadTable

\* What a verifying read misses went down, or its table was not read.
LEMMA MissedStep == IInv /\ [Next]_vars => Missed'
<1> SUFFICES ASSUME IInv, [Next]_vars PROVE Missed'
  OBVIOUS
<1>0. Missed /\ Fresh /\ targets \subseteq Conn
  BY DEF IInv, TypeInv, TypeOK, TargetsOK, HistoryOK
<1>1. CASE Call
  BY <1>1 DEF Call, Missed, Explained
<1>2. CASE ListTargets \/ Verify \/ Recheck
  <2>1. /\ UNCHANGED <<targets, down, confirmed>>
        /\ blind \subseteq blind' /\ snap \subseteq snap'
    BY <1>2 DEF ListTargets, Verify, Recheck, ReadTable
  <2>2. Explained(confirmed)'
    BY <1>0, <2>1 DEF Missed, Explained
  <2>3. CASE pc' \in {"verify6", "recheck6"}
    <3>1. ReadTable("verify4", "verify6", V4) \/ ReadTable("recheck4", "recheck6", V4)
      BY <1>2, <2>3 DEF ListTargets, Verify, Recheck, ReadTable
    <3>2. Explained((targets \cap V4) \ snap)'
      BY <3>1, ReadExplains DEF V4
    <3> QED
      BY <2>2, <2>3, <3>2 DEF Missed, V4Only
  <2>4. CASE pc' \in {"decide", "judge"}
    <3>1. /\ ReadTable("verify6", "decide", V6) \/ ReadTable("recheck6", "judge", V6)
          /\ pc \in {"verify6", "recheck6"}
      BY <1>2, <2>4 DEF ListTargets, Verify, Recheck, ReadTable
    <3>2. Explained((targets \cap V6) \ snap)'
      BY <3>1, CloseAssumption, ReadExplains
    <3>3. Explained((targets \cap V4) \ snap)'
      BY <1>0, <2>1, <3>1 DEF Missed, Explained, V4Only
    <3>4. Explained(targets \ snap)'
      BY <1>0, <2>1, <3>2, <3>3 DEF Explained, V4
    <3> QED
      BY <2>2, <2>4, <3>4 DEF Missed
  <2> QED
    BY <2>2, <2>3, <2>4 DEF Missed
<1>3. CASE Decide \/ Judge
  BY <1>0, <1>3 DEF Decide, Judge, Missed, Explained
<1>4. CASE \/ Listed \/ StartRound \/ WaitVerify \/ BlockGameTraffic
           \/ BlockLifted \/ Unblock \/ \E n \in Pid : BlockApp(n)
  <2>1. UNCHANGED <<down, blind, confirmed>>
    BY <1>4 DEF Listed, StartRound, WaitVerify, BlockGameTraffic, BlockLifted,
                Unblock, BlockApp
  <2>2. pc' \notin {"verify6", "recheck6", "decide", "judge"}
    BY <1>4 DEF Listed, StartRound, WaitVerify, BlockGameTraffic, BlockLifted,
                Unblock, BlockApp
  <2> QED
    BY <1>0, <2>1, <2>2 DEF Missed, Explained
<1>5. CASE Environment \/ (\E c \in Conn : SetTcpEntry(c))
  <2>1. UNCHANGED <<snap, targets, confirmed, blind>> /\ down \subseteq down'
    BY <1>5, LoudSteps
  <2>2. pc' = pc
    BY <1>5, EnvironmentLeaves DEF SetTcpEntry
  <2> QED
    BY <1>0, <2>1, <2>2 DEF Missed, Explained, V4Only
<1>6. CASE UNCHANGED vars
  BY <1>0, <1>6 DEF vars, Missed, Explained, V4Only
<1> QED
  BY <1>1, <1>2, <1>3, <1>4, <1>5, <1>6, Steps

\* The steps that change neither the verdict nor what it is drawn from.
LEMMA Undecided ==
  ASSUME \/ ListTargets \/ Verify \/ Recheck \/ WaitVerify \/ StartRound
         \/ (\E c \in Conn : SetTcpEntry(c)) \/ Environment \/ UNCHANGED vars
  PROVE  /\ UNCHANGED <<aim, confirmed, round>>
         /\ \/ UNCHANGED <<pc, result, stats>>
            \/ /\ pc \notin {"block", "nextPath", "blocking", "returned"}
               /\ pc' \notin {"block", "nextPath", "blocking", "returned"}
            \/ pc' = "returned" /\ result' = "canceled"
<1>1. CASE ListTargets \/ Verify \/ Recheck \/ WaitVerify \/ StartRound
  BY <1>1 DEF ListTargets, Verify, Recheck, ReadTable, WaitVerify, StartRound
<1>2. CASE \E c \in Conn : SetTcpEntry(c)
  BY <1>2 DEF SetTcpEntry
<1>3. CASE Environment
  BY <1>3, EnvironmentLeaves
<1>4. CASE UNCHANGED vars
  BY <1>4 DEF vars
<1> QED
  BY <1>1, <1>2, <1>3, <1>4

\* The fallback starts with a positive count of survivors and keeps it.
LEMMA LeftoverStep == IInv /\ [Next]_vars => Leftover'
<1> SUFFICES ASSUME IInv, [Next]_vars PROVE Leftover'
  OBVIOUS
<1> USE DEF Leftover, Blocking
<1>0. Leftover /\ targets \subseteq Conn
  BY DEF IInv, TypeInv, TypeOK, TargetsOK, HistoryOK
<1>1. CASE Decide
  <2>1. CASE pc' = "block"
    <3>1. Survivors # {} /\ stats' = [stats EXCEPT !.Survived = Cardinality(Survivors)]
      BY <1>1, <2>1 DEF Decide
    <3>2. Cardinality(Survivors) # 0
      BY <1>0, <3>1, SurvivorCount DEF Survivors
    <3>3. stats' .Survived = Cardinality(Survivors)
      BY <3>1 DEF IInv, TypeInv, TypeOK, CountsOK
    <3> QED
      BY <3>2, <3>3
  <2> QED
    BY <1>1, <2>1 DEF Decide
<1>2. CASE BlockLifted
  <2>1. stats'.Survived = stats.Survived /\ pc = "nextPath"
    BY <1>2 DEF BlockLifted, IInv, TypeInv, TypeOK, CountsOK
  <2> QED
    BY <1>0, <2>1
<1>3. CASE Judge \/ Call \/ Listed \/ ListTargets \/ StartRound \/ WaitVerify
  BY <1>3 DEF Judge, Call, Listed, ListTargets, ReadTable, StartRound, WaitVerify
<1>4. CASE Verify \/ Recheck \/ BlockGameTraffic \/ Unblock \/ (\E n \in Pid : BlockApp(n))
  BY <1>0, <1>4 DEF Verify, Recheck, ReadTable, BlockGameTraffic, Unblock, BlockApp
<1>5. CASE \E c \in Conn : SetTcpEntry(c)
  BY <1>5 DEF SetTcpEntry
<1>6. CASE Environment \/ UNCHANGED vars
  BY <1>0, <1>6, EnvironmentLeaves DEF vars
<1> QED
  BY <1>1, <1>2, <1>3, <1>4, <1>5, <1>6, Steps

\* A nil verdict without survivors follows a read that missed them all.
LEMMA NilVerdictStep == IInv /\ [Next]_vars => NilVerdict'
<1> SUFFICES ASSUME IInv, [Next]_vars PROVE NilVerdict'
  OBVIOUS
<1> USE DEF NilVerdict, Returned
<1>0. NilVerdict /\ Accounted /\ Leftover /\ targets \subseteq Conn
  BY DEF IInv, TypeInv, TypeOK, TargetsOK, HistoryOK
<1>1. CASE Call
  BY <1>1 DEF Call
<1>2. CASE Listed
  BY <1>2 DEF Listed
<1>3. CASE Decide
  <2>1. CASE pc' = "returned"
    BY <1>0, <1>3, <2>1 DEF Decide, Accounted, Survivors
  <2> QED
    BY <2>1
<1>4. CASE BlockGameTraffic \/ Unblock \/ (\E n \in Pid : BlockApp(n)) \/ BlockLifted
  <2>1. CASE pc' = "returned"
    BY <1>0, <1>4, <2>1 DEF BlockGameTraffic, Unblock, BlockApp, BlockLifted,
                            Leftover, Blocking
  <2> QED
    BY <2>1
<1>5. CASE Judge
  BY <1>0, <1>5 DEF Judge, Accounted, Survivors, Leftover, Blocking
<1>6. CASE \/ ListTargets \/ Verify \/ Recheck \/ WaitVerify \/ StartRound
           \/ (\E c \in Conn : SetTcpEntry(c)) \/ Environment \/ UNCHANGED vars
  BY <1>0, <1>6, Undecided
<1> QED
  BY <1>1, <1>2, <1>3, <1>4, <1>5, <1>6, Steps

\* The fallback starts when the rounds are over or IPv6 is all that is left.
LEMMA LastResortStep == IInv /\ [Next]_vars => BlockIsLastResort'
<1> SUFFICES ASSUME IInv, [Next]_vars PROVE BlockIsLastResort'
  OBVIOUS
<1> USE DEF BlockIsLastResort
<1>0. BlockIsLastResort /\ Accounted /\ Apart /\ round \in 0 .. Rounds
  BY DEF IInv, TypeInv, TypeOK, ControlOK
<1>1. CASE Decide
  <2>1. CASE pc' = "block"
    <3>1. Survivors # {} /\ ~Retry /\ UNCHANGED <<aim, round>>
          /\ confirmed' = confirmed \cup (targets \ snap)
      BY <1>1, <2>1 DEF Decide
    <3>2. targets \cap confirmed = {} /\ targets \subseteq aim
      BY <1>0, <1>1 DEF Decide, Apart, Rounding, IInv, TypeInv, TypeOK, TargetsOK
    <3>3. (aim \ confirmed)' = Survivors
      BY <1>0, <3>1, <3>2 DEF Accounted, Survivors
    <3>4. round = Rounds \/ Survivors \subseteq V6
      BY <1>0, <3>1, CloseAssumption DEF Retry, AllIPv6
    <3> QED
      BY <3>1, <3>3, <3>4
  <2> QED
    BY <1>1, <2>1 DEF Decide
<1>2. CASE BlockGameTraffic \/ Unblock \/ (\E n \in Pid : BlockApp(n))
  BY <1>0, <1>2 DEF BlockGameTraffic, Unblock, BlockApp
<1>3. CASE Call \/ Listed \/ BlockLifted \/ Judge
  BY <1>3 DEF Call, Listed, BlockLifted, Judge
<1>4. CASE \/ ListTargets \/ Verify \/ Recheck \/ WaitVerify \/ StartRound
           \/ (\E c \in Conn : SetTcpEntry(c)) \/ Environment \/ UNCHANGED vars
  BY <1>0, <1>4, Undecided
<1> QED
  BY <1>1, <1>2, <1>3, <1>4, Steps

\* The title "Nothing to close" follows a read that missed every target.
LEMMA NothingToCloseStep == IInv /\ [Next]_vars => NothingToCloseIsTrue'
<1> SUFFICES ASSUME IInv, [Next]_vars PROVE NothingToCloseIsTrue'
  OBVIOUS
<1> USE DEF NothingToCloseIsTrue, Returned
<1>0. NothingToCloseIsTrue /\ Accounted /\ CountsOK
  BY DEF IInv, TypeInv, TypeOK
<1>t. Title' = "Nothing to close" =>
        result' = "nil" /\ stats'.Closed = 0 /\ stats'.Gone = 0
  BY DEF Title
<1>u. Unresolved = "nil" => ~(stats.Closed = 0 /\ stats.Gone = 0)
  BY DEF Unresolved
<1>1. CASE Call \/ Listed
  BY <1>1 DEF Call, Listed
<1>2. CASE Decide \/ Judge
  <2>1. CASE pc' = "returned" /\ result' = "nil" /\ Survivors = {}
    BY <1>0, <1>2, <2>1 DEF Decide, Judge, Accounted, Survivors
  <2>2. CASE Judge /\ Survivors # {}
    <3>1. stats' = stats /\ result' = Unresolved
      BY <2>2 DEF Judge
    <3> QED
      BY <1>t, <1>u, <3>1
  <2> QED
    BY <1>2, <1>t, <2>1, <2>2 DEF Decide, Judge
<1>3. CASE BlockGameTraffic \/ Unblock \/ (\E n \in Pid : BlockApp(n))
  <2>1. stats' = stats
    BY <1>3 DEF BlockGameTraffic, Unblock, BlockApp
  <2>2. pc' = "returned" => result' = Unresolved
    BY <1>3 DEF BlockGameTraffic, Unblock, BlockApp
  <2> QED
    BY <1>t, <1>u, <2>1, <2>2
<1>4. CASE BlockLifted
  BY <1>4 DEF BlockLifted
<1>5. CASE \/ ListTargets \/ Verify \/ Recheck \/ WaitVerify \/ StartRound
           \/ (\E c \in Conn : SetTcpEntry(c)) \/ Environment \/ UNCHANGED vars
  <2>1. CASE UNCHANGED <<pc, result, stats>>
    BY <1>0, <1>5, <2>1, Undecided DEF Title
  <2> QED
    BY <1>5, <1>t, <2>1, Undecided
<1> QED
  BY <1>1, <1>2, <1>3, <1>4, <1>5, Steps

\* No round starts once ctx is cancelled.
LEMMA StopsStep == IInv /\ [Next]_vars => StopsWithinRound'
<1> SUFFICES ASSUME IInv, [Next]_vars PROVE StopsWithinRound'
  OBVIOUS
<1> USE DEF StopsWithinRound
<1>0. StopsWithinRound
  BY DEF IInv
<1>1. CASE StartRound
  BY <1>1 DEF StartRound, cancelled
<1>2. CASE \E c \in Conn : SetTcpEntry(c)
  BY <1>0, <1>2 DEF SetTcpEntry
<1>3. CASE Environment
  <2>1. cancelAt' = cancelAt \/ cancelAt' = 1 + round
    BY <1>3 DEF Environment, GameStarts, GameExits, Connects, Disconnects, Cancel
  <2> QED
    BY <1>0, <1>3, <2>1, EnvironmentLeaves
<1>4. CASE UNCHANGED vars
  BY <1>0, <1>4 DEF vars
<1>5. CASE \/ Call \/ ListTargets \/ Verify \/ Recheck \/ Listed \/ WaitVerify
           \/ Decide \/ BlockGameTraffic \/ BlockLifted \/ Unblock \/ Judge
           \/ (\E n \in Pid : BlockApp(n))
  BY <1>5 DEF Call, ListTargets, Verify, Recheck, ReadTable, Listed, WaitVerify, Decide,
         BlockGameTraffic, BlockLifted, Unblock, Judge, BlockApp
<1> QED
  BY <1>1, <1>2, <1>3, <1>4, <1>5, Steps

\* The conjuncts support each other: the read in progress explains what the
\* verdict relies on, and the books tell the connections still pursued from
\* those confirmed.
THEOREM Invariance == Spec => []IInv
<1>1. IInv /\ [Next]_vars => TypeInv'
  BY SystemStep, ControlStep, TargetsStep, CountsStep, HistoryStep
     DEF IInv, TypeInv, TypeOK
<1>2. IInv /\ [Next]_vars => IInv'
  BY <1>1, SeenStep, FreshStep, MissedStep, LeftoverStep, NilVerdictStep,
     LastResortStep, NothingToCloseStep, StopsStep DEF IInv
<1> QED
  BY InvInit, <1>2, PTL DEF Spec
-----------------------------------------------------------------------------
(* The safety properties.                                                   *)

\* A run that returns nil and counts no survivor saw every listed connection
\* go down, or a verifying table read failed and hid it.
THEOREM SuccessTheorem == Spec => []SuccessIsReal
<1>1. IInv => SuccessIsReal
  BY DEF IInv, Missed, Explained, NilVerdict, SuccessIsReal
<1> QED
  BY <1>1, Invariance, PTL

\* SetTcpEntry is never called for a connection a verifying read has missed,
\* though the game may have reconnected on its tuple.
THEOREM SparesTheorem == Spec => []SparesReconnected
<1>1. IInv => SparesReconnected
  <2> SUFFICES ASSUME IInv, todo # {} PROVE SparesReconnected
    BY DEF SparesReconnected
  <2>1. pc = "close" /\ todo \subseteq targets
    BY DEF IInv, TypeInv, Queue, TypeOK, TargetsOK, V4Only
  <2>2. targets \cap confirmed = {}
    BY <2>1 DEF IInv, Apart, Rounding
  <2> QED
    BY <2>1, <2>2 DEF SparesReconnected
<1> QED
  BY <1>1, Invariance, PTL

\* Traffic is blocked only after the last round, or for IPv6 survivors alone.
THEOREM LastResortTheorem == Spec => []BlockIsLastResort
<1>1. IInv => BlockIsLastResort
  BY DEF IInv
<1> QED
  BY <1>1, Invariance, PTL

\* The balloon "Nothing to close" is shown only when every listed connection
\* was missed by a later read.
THEOREM NothingToCloseTheorem == Spec => []NothingToCloseIsTrue
<1>1. IInv => NothingToCloseIsTrue
  BY DEF IInv
<1> QED
  BY <1>1, Invariance, PTL

\* After a cancel SetTcpEntry is called only for the round it came in.
THEOREM StopsTheorem == Spec => []StopsWithinRound
<1>1. IInv => StopsWithinRound
  BY DEF IInv
<1> QED
  BY <1>1, Invariance, PTL

-----------------------------------------------------------------------------
(* The traffic block, entry by entry.                                       *)

\* blockGameTraffic has given a window to each entry it is through with.
Served ==
  /\ pc \in {"nextPath", "blocking"} =>
       \A n \in paths \ toBlock : windows[ExeOf[n]] > 0
  /\ pc = "blocking" => active \in toBlock

BlockInv == TypeInv /\ Served /\ BlockedMeansAll

\* Windows are counted, and paths fixed, within a call of closeLobby.
LEMMA ServedStep == BlockInv /\ [Next]_vars => Served' /\ BlockedMeansAll'
<1> SUFFICES ASSUME BlockInv, [Next]_vars PROVE Served' /\ BlockedMeansAll'
  OBVIOUS
<1> USE DEF Served, BlockedMeansAll
<1>0. /\ Served /\ BlockedMeansAll /\ toBlock \subseteq paths /\ paths \subseteq Pid
      /\ windows \in [Exe -> Nat] /\ ExeOf \in [Pid -> Exe]
      /\ stats \in [Closed : Nat, Gone : Nat, Failed : Nat, Survived : Nat,
                    Blocked : BOOLEAN]
  BY CloseAssumption
     DEF BlockInv, TypeInv, TypeOK, TargetsOK, CountsOK, HistoryOK
<1>1. CASE Call
  BY <1>1 DEF Call, NoStats
<1>2. CASE Unblock
  <2>1. active \in toBlock /\ active \in Pid /\ ExeOf[active] \in Exe
    BY <1>0, <1>2 DEF Unblock
  <2>2. UNCHANGED <<paths, stats>> /\ pc' # "blocking"
    BY <1>2 DEF Unblock
  <2>3. \/ windows' = [windows EXCEPT ![ExeOf[active]] = @ + 1]
           /\ toBlock' = toBlock \ {active}
        \/ windows' = windows /\ pc' = "returned"
    BY <1>2 DEF Unblock
  <2>4. \A e \in Exe : windows[e] > 0 => windows'[e] > 0
    BY <1>0, <2>1, <2>3
  <2>5. \A n \in paths : windows[ExeOf[n]] > 0 => windows'[ExeOf[n]] > 0
    BY <1>0, <2>4
  <2>6. windows' # windows => windows'[ExeOf[active]] > 0
    BY <1>0, <2>1, <2>3
  <2>7. CASE windows' = windows /\ pc' = "returned"
    BY <1>0, <2>2, <2>7
  <2>8. CASE windows' = [windows EXCEPT ![ExeOf[active]] = @ + 1]
             /\ toBlock' = toBlock \ {active}
    <3>1. windows'[ExeOf[active]] > 0
      BY <1>0, <2>1, <2>8
    <3> QED
      BY <1>0, <1>2, <2>2, <2>5, <2>8, <3>1 DEF Unblock
  <2> QED
    BY <2>3, <2>7, <2>8
<1>3. CASE BlockLifted
  BY <1>0, <1>3 DEF BlockLifted
<1>4. CASE BlockGameTraffic \/ (\E n \in Pid : BlockApp(n))
  BY <1>0, <1>4 DEF BlockGameTraffic, BlockApp
<1>5. CASE Decide \/ Judge
  <2>1. /\ UNCHANGED <<paths, toBlock, active, windows>>
        /\ pc' \notin {"nextPath", "blocking"}
    BY <1>5 DEF Decide, Judge
  <2>2. stats'.Blocked = stats.Blocked
    BY <1>0, <1>5 DEF Decide, Judge
  <2> QED
    BY <1>0, <2>1, <2>2
<1>6. CASE \E c \in Conn : SetTcpEntry(c)
  <2>1. UNCHANGED <<pc, paths, toBlock, active, windows>>
    BY <1>6 DEF SetTcpEntry
  <2>2. stats'.Blocked = stats.Blocked
    BY <1>0, <1>6 DEF SetTcpEntry, Count
  <2> QED
    BY <1>0, <2>1, <2>2
<1>7. CASE ListTargets \/ Verify \/ Recheck \/ Listed \/ StartRound \/ WaitVerify
  BY <1>0, <1>7 DEF ListTargets, Verify, Recheck, ReadTable, Listed, StartRound,
     WaitVerify
<1>8. CASE Environment \/ UNCHANGED vars
  <2>1. UNCHANGED <<pc, paths, toBlock, active, windows, stats>>
    BY <1>8, EnvironmentLeaves DEF vars
  <2> QED
    BY <1>0, <2>1
<1> QED
  BY <1>1, <1>2, <1>3, <1>4, <1>5, <1>6, <1>7, <1>8, Steps

\* A run reports the block only when every executable it found was blocked for
\* a whole window, however many there are.
THEOREM BlockedTheorem == Spec => []BlockedMeansAll
<1>1. Init => BlockInv
  BY TypeInit DEF Init, BlockInv, Served, BlockedMeansAll, NoStats
<1>2. TypeInv /\ [Next]_vars => TypeInv'
  BY SystemStep, ControlStep, TargetsStep, CountsStep, HistoryStep
     DEF TypeInv, TypeOK
<1>3. BlockInv /\ [Next]_vars => BlockInv'
  BY <1>2, ServedStep DEF BlockInv
<1>4. BlockInv => BlockedMeansAll
  BY DEF BlockInv
<1> QED
  BY <1>1, <1>3, <1>4, PTL DEF Spec

-----------------------------------------------------------------------------
(* The run is over after a bounded number of its steps.                     *)

Unstarted == pc \in Listing => round = 0
StepsInv == TypeInv /\ Served /\ BlockedMeansAll /\ Unstarted

\* The round counter starts with the first round.
LEMMA UnstartedStep == Unstarted /\ [Next]_vars => Unstarted'
<1> SUFFICES ASSUME Unstarted, [Next]_vars PROVE Unstarted'
  OBVIOUS
<1> USE DEF Unstarted, Listing
<1>1. CASE Environment \/ UNCHANGED vars
  BY <1>1, EnvironmentLeaves DEF vars
<1>2. CASE ~(Environment \/ UNCHANGED vars)
  BY <1>2 DEF Next, Run, Call, ListTargets, Verify, Recheck, ReadTable,
     Listed, StartRound, WaitVerify, Decide, SetTcpEntry, BlockGameTraffic, BlockLifted,
     Unblock, Judge, BlockApp
<1> QED
  BY <1>1, <1>2

\* How long the queues are, and that a round more is a round less to come.
LEMMA Sizes ==
  ASSUME TypeInv
  PROVE  /\ Cardinality(V4) \in Nat /\ Cardinality(paths) \in Nat
         /\ \A S : S \subseteq V4 =>
              /\ Cardinality(S) \in Nat /\ Cardinality(S) <= Cardinality(V4)
              /\ \A c \in S : Cardinality(S \ {c}) = Cardinality(S) - 1
         /\ \A S : S \subseteq paths =>
              /\ Cardinality(S) \in Nat /\ Cardinality(S) <= Cardinality(paths)
              /\ \A n \in S : Cardinality(S \ {n}) = Cardinality(S) - 1
<1>1. IsFiniteSet(V4)
  BY CloseAssumption, FS_Subset DEF V4
<1>2. IsFiniteSet(paths)
  BY CloseAssumption, FS_Subset DEF TypeInv, TypeOK, TargetsOK
<1>3. ASSUME NEW T, IsFiniteSet(T), NEW S, S \subseteq T
      PROVE  /\ Cardinality(S) \in Nat /\ Cardinality(S) <= Cardinality(T)
             /\ \A c \in S : Cardinality(S \ {c}) = Cardinality(S) - 1
  <2>1. IsFiniteSet(S) /\ Cardinality(S) <= Cardinality(T)
    BY <1>3, FS_Subset
  <2> QED
    BY <2>1, FS_CardinalityType, FS_RemoveElement
<1> QED
  BY <1>1, <1>2, <1>3, FS_CardinalityType

\* The numbers are naturals; a round more done is a round less to come.
LEMMA Later ==
  ASSUME TypeInv
  PROVE  /\ RoundSteps \in Nat /\ RoundSteps = Cardinality(V4) + 6
         /\ FallbackSteps \in Nat /\ FallbackSteps = 2 * Cardinality(paths) + 5
         /\ \A r \in 0 .. Rounds : AfterRound(r) \in Nat /\ AfterRound(r) >= FallbackSteps
         /\ \A r \in 0 .. Rounds - 1 : AfterRound(r) = AfterRound(r + 1) + RoundSteps
<1>1. RoundSteps \in Nat /\ RoundSteps = Cardinality(V4) + 6
  BY Sizes DEF RoundSteps
<1>2. FallbackSteps \in Nat /\ FallbackSteps = 2 * Cardinality(paths) + 5
  BY Sizes DEF FallbackSteps
<1>3. \A k \in Nat : k * RoundSteps \in Nat
  BY <1>1
<1>4. ASSUME NEW k \in Nat PROVE (k + 1) * RoundSteps = (k * RoundSteps) + RoundSteps
  BY <1>1
<1>5. \A r \in 0 .. Rounds : Rounds - r \in Nat
  BY CloseAssumption
<1>6. ASSUME NEW r \in 0 .. Rounds - 1
      PROVE  AfterRound(r) = AfterRound(r + 1) + RoundSteps
  <2>1. Rounds - (r + 1) \in Nat /\ (Rounds - (r + 1)) + 1 = Rounds - r
    BY CloseAssumption
  <2>2. (Rounds - r) * RoundSteps = ((Rounds - (r + 1)) * RoundSteps) + RoundSteps
    BY <1>4, <2>1
  <2> QED
    BY <1>1, <1>2, <1>3, <2>1, <2>2 DEF AfterRound
<1>7. \A r \in 0 .. Rounds : AfterRound(r) \in Nat /\ AfterRound(r) >= FallbackSteps
  BY <1>2, <1>3, <1>5 DEF AfterRound
<1> QED
  BY <1>1, <1>2, <1>6, <1>7

\* What is to come depends on the paths, and they stay as they are.
LEMMA LaterStays ==
  ASSUME UNCHANGED paths
  PROVE  /\ RoundSteps' = RoundSteps /\ FallbackSteps' = FallbackSteps
         /\ \A r : AfterRound(r)' = AfterRound(r)
  BY DEF RoundSteps, FallbackSteps, AfterRound

\* Every step of the run is one less to come.
LEMMA StepsDecrease == StepsInv /\ Run => StepsLeft' \in Nat /\ StepsLeft' < StepsLeft
<1> SUFFICES ASSUME StepsInv, Run PROVE StepsLeft' \in Nat /\ StepsLeft' < StepsLeft
  OBVIOUS
<1>0. /\ round \in 0 .. Rounds /\ Rounds \in Nat \ {0} /\ TypeInv
      /\ todo \subseteq V4 /\ toBlock \subseteq paths /\ targets \subseteq Conn
      /\ Unstarted /\ (pc = "blocking" => active \in toBlock)
  BY CloseAssumption DEF StepsInv, Served, TypeInv, TypeOK, ControlOK, TargetsOK,
     HistoryOK, V4Only, V4
<1>1. /\ RoundSteps \in Nat /\ RoundSteps = Cardinality(V4) + 6
      /\ FallbackSteps \in Nat /\ FallbackSteps = 2 * Cardinality(paths) + 5
      /\ \A r \in 0 .. Rounds : AfterRound(r) \in Nat /\ AfterRound(r) >= FallbackSteps
      /\ \A r \in 0 .. Rounds - 1 : AfterRound(r) = AfterRound(r + 1) + RoundSteps
  BY <1>0, Later
<1>2. /\ Cardinality(V4) \in Nat /\ Cardinality(paths) \in Nat
      /\ Cardinality(todo) \in Nat /\ Cardinality(toBlock) \in Nat
      /\ Cardinality(toBlock) <= Cardinality(paths)
  BY <1>0, Sizes
<1>3. UNCHANGED paths
  BY DEF Run, ListTargets, Verify, Recheck, ReadTable, Listed, StartRound, WaitVerify,
     Decide, SetTcpEntry, BlockGameTraffic, BlockLifted, Unblock, Judge, BlockApp
<1>4. /\ RoundSteps' = RoundSteps /\ FallbackSteps' = FallbackSteps
      /\ \A r : AfterRound(r)' = AfterRound(r)
  BY <1>3, LaterStays
<1>5. AfterRound(round)' = AfterRound(round')
  BY <1>3 DEF AfterRound, FallbackSteps, RoundSteps
<1>6. AfterRound(round) \in Nat /\ AfterRound(round) >= FallbackSteps
  BY <1>0, <1>1
<1>7. CASE ListTargets \/ Verify \/ Recheck
  <2>1. UNCHANGED round
    BY <1>7 DEF ListTargets, Verify, Recheck, ReadTable
  <2> QED
    BY <1>5, <1>6, <1>7, <2>1 DEF StepsLeft, ListTargets, Verify, Recheck, ReadTable
<1>8. CASE Listed
  <2>1. CASE pc' = "returned"
    BY <1>6, <1>8, <2>1 DEF StepsLeft, Listed
  <2>2. CASE pc' = "round"
    <3>1. pc = "listed" /\ round = 0 /\ round' = 1
      BY <1>0, <1>8, <2>2 DEF Listed, Unstarted, Listing
    <3>2. AfterRound(0) = AfterRound(1) + RoundSteps /\ AfterRound(0) \in Nat
      <4>1. 0 \in 0 .. Rounds - 1 /\ 0 \in 0 .. Rounds /\ 0 + 1 = 1
        BY <1>0
      <4> QED
        BY <1>1, <4>1
    <3>3. StepsLeft = AfterRound(0) + 1
      BY <3>1 DEF StepsLeft
    <3>4. StepsLeft' = AfterRound(1) + RoundSteps
      BY <1>4, <1>5, <2>2, <3>1 DEF StepsLeft
    <3> QED
      BY <3>2, <3>3, <3>4
  <2> QED
    BY <1>8, <2>1, <2>2 DEF Listed
<1>9. CASE StartRound
  <2>1. UNCHANGED round /\ pc = "round" /\ StepsLeft = AfterRound(round) + RoundSteps
    BY <1>9 DEF StartRound, StepsLeft
  <2>2. CASE pc' = "returned"
    <3>1. StepsLeft' = 0
      BY <2>2 DEF StepsLeft
    <3> QED
      BY <1>1, <1>2, <1>6, <2>1, <3>1
  <2>3. CASE pc' = "close"
    <3>1. todo' \subseteq V4
      BY <1>0, <1>9, <2>3 DEF StartRound, V4Only, V4
    <3>2. Cardinality(todo') \in Nat /\ Cardinality(todo') <= Cardinality(V4)
      BY <1>0, <3>1, Sizes
    <3>3. StepsLeft' = AfterRound(round) + Cardinality(todo') + 5
      BY <1>5, <2>1, <2>3 DEF StepsLeft
    <3> QED
      BY <1>1, <1>2, <1>6, <2>1, <3>2, <3>3
  <2> QED
    BY <1>9, <2>2, <2>3 DEF StartRound
<1>10. CASE \E c \in Conn : SetTcpEntry(c)
  <2>1. PICK c \in Conn : SetTcpEntry(c)
    BY <1>10
  <2>2. /\ UNCHANGED <<round, pc>> /\ pc = "close" /\ c \in todo /\ todo' = todo \ {c}
    BY <2>1 DEF SetTcpEntry
  <2>3. Cardinality(todo') = Cardinality(todo) - 1 /\ Cardinality(todo') \in Nat
    <3>1. todo' \subseteq V4
      BY <1>0, <2>2
    <3> QED
      BY <1>0, <2>2, <3>1, Sizes
  <2>4. StepsLeft = AfterRound(round) + Cardinality(todo) + 5
    BY <2>2 DEF StepsLeft
  <2>5. StepsLeft' = AfterRound(round) + Cardinality(todo') + 5
    BY <1>5, <2>2 DEF StepsLeft
  <2> QED
    BY <1>2, <1>6, <2>3, <2>4, <2>5
<1>11. CASE WaitVerify
  <2>1. UNCHANGED round
    BY <1>11 DEF WaitVerify
  <2>2. CASE pc = "close"
    BY <1>2, <1>5, <1>6, <1>11, <2>1, <2>2 DEF WaitVerify, StepsLeft
  <2>3. CASE pc = "wait"
    BY <1>5, <1>6, <1>11, <2>1, <2>3 DEF WaitVerify, StepsLeft
  <2> QED
    BY <1>11, <2>2, <2>3 DEF WaitVerify
<1>12. CASE Decide
  <2>1. pc = "decide" /\ StepsLeft = AfterRound(round) + 1
    BY <1>12 DEF Decide, StepsLeft
  <2>2. CASE Retry
    <3>1. pc' = "round" /\ round' = round + 1 /\ round \in 0 .. Rounds - 1
      BY <1>0, <1>12, <2>2 DEF Decide, Retry
    <3>2. AfterRound(round) = AfterRound(round + 1) + RoundSteps
      BY <1>1, <3>1
    <3>3. StepsLeft' = AfterRound(round + 1) + RoundSteps
      BY <1>4, <1>5, <3>1 DEF StepsLeft
    <3> QED
      BY <1>6, <2>1, <3>2, <3>3
  <2>3. CASE ~Retry
    <3>1. pc' \in {"block", "returned"}
      BY <1>12, <2>3 DEF Decide
    <3>2. StepsLeft' \in {0, FallbackSteps}
      BY <1>4, <3>1 DEF StepsLeft
    <3> QED
      BY <1>1, <1>6, <2>1, <3>2
  <2> QED
    BY <2>2, <2>3
<1>13. CASE BlockGameTraffic
  <2>1. pc = "block" /\ StepsLeft = FallbackSteps
    BY <1>13 DEF BlockGameTraffic, StepsLeft
  <2>2. CASE pc' = "returned"
    BY <1>1, <1>2, <2>1, <2>2 DEF StepsLeft
  <2>3. CASE pc' = "nextPath"
    <3>1. toBlock' = paths
      BY <1>13, <2>3 DEF BlockGameTraffic
    <3>2. StepsLeft' = 2 * Cardinality(paths) + 4
      BY <2>3, <3>1 DEF StepsLeft
    <3> QED
      BY <1>1, <1>2, <2>1, <3>2
  <2> QED
    BY <1>13, <2>2, <2>3 DEF BlockGameTraffic
<1>14. CASE \E n \in Pid : BlockApp(n)
  <2>1. /\ pc = "nextPath" /\ pc' \in {"blocking", "returned"} /\ UNCHANGED toBlock
    BY <1>14 DEF BlockApp
  <2> QED
    BY <1>2, <2>1 DEF StepsLeft
<1>15. CASE Unblock
  <2>1. pc = "blocking" /\ StepsLeft = 2 * Cardinality(toBlock) + 3
    BY <1>15 DEF Unblock, StepsLeft
  <2>2. CASE pc' = "returned"
    BY <1>2, <2>1, <2>2 DEF StepsLeft
  <2>3. CASE pc' = "nextPath"
    <3>1. toBlock' = toBlock \ {active} /\ active \in toBlock
      BY <1>0, <1>15, <2>1, <2>3 DEF Unblock
    <3>2. Cardinality(toBlock') = Cardinality(toBlock) - 1 /\ Cardinality(toBlock') \in Nat
      <4>1. toBlock' \subseteq paths
        BY <1>0, <3>1
      <4> QED
        BY <1>0, <3>1, <4>1, Sizes
    <3>3. StepsLeft' = 2 * Cardinality(toBlock') + 4
      BY <2>3 DEF StepsLeft
    <3> QED
      BY <1>2, <2>1, <3>2, <3>3
  <2> QED
    BY <1>15, <2>2, <2>3 DEF Unblock
<1>16. CASE BlockLifted \/ Judge
  <2>1. CASE BlockLifted
    BY <1>2, <2>1 DEF BlockLifted, StepsLeft
  <2>2. CASE Judge
    <3>1. pc = "judge" /\ pc' = "returned"
      BY <2>2 DEF Judge
    <3> QED
      BY <3>1 DEF StepsLeft
  <2> QED
    BY <1>16, <2>1, <2>2
<1> QED
  BY <1>7, <1>8, <1>9, <1>10, <1>11, <1>12, <1>13, <1>14, <1>15, <1>16 DEF Run

\* The steps to come are a number at any moment.
Counted == StepsLeft \in Nat

LEMMA StepsLeftType == StepsInv => Counted
<1> SUFFICES ASSUME StepsInv PROVE Counted
  OBVIOUS
<1>1. TypeInv /\ round \in 0 .. Rounds /\ todo \subseteq V4 /\ toBlock \subseteq paths
  BY DEF StepsInv, TypeInv, TypeOK, ControlOK, TargetsOK, V4Only
<1>2. AfterRound(round) \in Nat /\ RoundSteps \in Nat /\ FallbackSteps \in Nat
  BY <1>1, Later
<1>3. Cardinality(todo) \in Nat /\ Cardinality(toBlock) \in Nat
  BY <1>1, Sizes
<1> QED
  BY <1>2, <1>3 DEF StepsLeft, Counted

\* A run is over after a bounded number of its steps, whatever the game, the other
\* processes and Windows do between them: for any number of connections,
\* rounds and executables.
THEOREM RunsOutTheorem == Spec => CallRunsOut
<1>1. Init => StepsInv
  BY TypeInit
     DEF Init, StepsInv, Served, BlockedMeansAll, NoStats, Unstarted, Listing
<1>2. TypeInv /\ [Next]_vars => TypeInv'
  BY SystemStep, ControlStep, TargetsStep, CountsStep, HistoryStep
     DEF TypeInv, TypeOK
<1>3. StepsInv /\ [Next]_vars => StepsInv'
  BY <1>2, ServedStep, UnstartedStep DEF StepsInv, BlockInv
<1>4. Environment => StepsLeft' = StepsLeft
  BY EnvironmentLeaves
     DEF StepsLeft, AfterRound, RoundSteps, FallbackSteps
<1>5. StepsInv /\ Counted' =>
        /\ StepsLeft' \in Nat
        /\ Run => StepsLeft' < StepsLeft
        /\ Environment => StepsLeft' = StepsLeft
  BY <1>4, StepsDecrease DEF Counted
<1> QED
  BY <1>1, <1>3, <1>5, StepsLeftType, PTL DEF Spec, CallRunsOut

-----------------------------------------------------------------------------
(* The run implements Closing.                                              *)

Phase == CASE pc = "idle" -> "idle"
           [] pc \in {"list4", "list6", "listed"} -> "looking"
           [] Returned -> "done"
           [] OTHER -> "closing"
Left == targets \ confirmed
Attempts == CASE pc = "round" -> round - 1 [] Returned -> 0 [] OTHER -> round
Report == IF Returned THEN Title ELSE "none"

\* Where the rounds and the fallback are.
Closes == (Rounding \cup Blocking) \ Listing

\* A run begins by looking or ends at once; nothing is left of an earlier one.
LEMMA CallRefines == Call => Promise!Begin \/ Promise!Refuse
<1> SUFFICES ASSUME Call PROVE Promise!Begin \/ Promise!Refuse
  OBVIOUS
<1>1. Phase \in {"idle", "done"} /\ Left' = {} /\ todo' = {} /\ round' = 0
  BY DEF Call, Phase, Left, Returned
<1>2. CASE pc' = "list4"
  <2>1. Phase' = "looking" /\ Report' = "none" /\ Attempts' = 0
    BY <1>1, <1>2 DEF Phase, Report, Attempts, Returned
  <2> QED
    BY <1>1, <2>1
       DEF Promise!Begin, Promise!Clear, Phase, Left, Attempts, Report
<1>3. CASE pc' = "returned"
  <2>1. Phase' = "done" /\ Attempts' = 0
    BY <1>3 DEF Phase, Attempts, Returned
  <2>2. result' = "findProcesses" \/ (result' = "nil" /\ stats' = NoStats)
    BY <1>3 DEF Call
  <2>3. Report' \in {"Nothing to close", "Close failed"}
    BY <1>3, <2>2 DEF Report, Returned, Title, NoStats
  <2> QED
    BY <1>1, <2>1, <2>3
       DEF Promise!Refuse, Promise!Clear, Phase, Left, Attempts, Report
<1> QED
  BY <1>2, <1>3 DEF Call

\* Where the abstract request is, from where the run is.
LEMMA Phases ==
  /\ pc = "idle" => Phase = "idle"
  /\ pc \in Listing => Phase = "looking"
  /\ pc = "returned" => Phase = "done"
  /\ pc \in Closes => Phase = "closing" /\ Report = "none"
BY DEF Phase, Report, Closes, Listing, Rounding, Blocking, Returned

\* The end of the listing refuses the request or fixes what is to be closed.
LEMMA ListedRefines == IInv /\ Unstarted /\ Listed => Promise!Refuse \/ Promise!Aim
<1> SUFFICES ASSUME IInv, Unstarted, Listed PROVE Promise!Refuse \/ Promise!Aim
  OBVIOUS
<1>1. Phase = "looking" /\ Report = "none" /\ Attempts = 0
  BY DEF Listed, Phase, Report, Attempts, Unstarted, Listing, Returned
<1>2. /\ stats.Closed = 0 /\ stats.Gone = 0 /\ ~stats.Blocked /\ stats' = stats
      /\ confirmed = {} /\ confirmed' = {} /\ snap \subseteq Conn
      /\ todo = {} /\ todo' = {} /\ Left' = snap
  BY DEF Listed, IInv, Fresh, Listing, NoStats, TypeInv, TypeOK, TargetsOK, Queue,
         Left
<1>3. CASE snap = {}
  <2>1. Phase' = "done" /\ Attempts' = 0
    BY <1>3 DEF Listed, Phase, Attempts, Returned
  <2>2. Report' = "Nothing to close"
    BY <1>2, <1>3 DEF Listed, Report, Returned, Title
  <2> QED
    BY <1>1, <1>2, <1>3, <2>1, <2>2
       DEF Promise!Refuse, Promise!Clear, Phase, Left, Attempts, Report
<1>4. CASE snap # {}
  <2>1. Phase' = "closing" /\ Report' = "none"
    BY <1>4 DEF Listed, Phase, Report, Returned
  <2>2. Attempts' = 0
    BY <1>4 DEF Listed, Attempts, Returned
  <2> QED
    BY <1>1, <1>2, <1>4, <2>1, <2>2
       DEF Promise!Aim, Phase, Left, Attempts, Report
<1> QED
  BY <1>3, <1>4

\* A round starts as an attempt on the targets, all of which are left, or ctx
\* ends the request.
LEMMA AttemptRefines ==
  ASSUME IInv, StartRound, pc' = "close" PROVE Promise!Attempt
<1>1. pc = "round" /\ todo = {} /\ Phase = "closing" /\ Report = "none"
  BY Phases DEF StartRound, IInv, TypeInv, Queue, Closes, Rounding, Listing
<1>2. Phase' = "closing" /\ Report' = "none"
  BY DEF Phase, Report, Returned
<1>3. UNCHANGED <<targets, confirmed, round>> /\ todo' = V4Only(targets)
  BY DEF StartRound
<1>4. Left' = Left /\ todo' \in SUBSET Left
  BY <1>1, <1>3 DEF Left, IInv, Apart, Rounding, V4Only
<1>5. round \in 0 .. Rounds /\ Rounds \in Nat
  BY CloseAssumption DEF IInv, TypeInv, TypeOK, ControlOK
<1>6. Attempts = round - 1 /\ Attempts' = round
  BY <1>1, <1>3 DEF Attempts, Returned
<1>7. Attempts < Rounds /\ Attempts' = Attempts + 1
  BY <1>5, <1>6
<1> QED
  BY <1>1, <1>2, <1>4, <1>7 DEF Promise!Attempt, Phase, Left, Attempts, Report

\* A SetTcpEntry call deletes one of the connections due.
LEMMA DeleteRefines ==
  ASSUME NEW c \in Conn, SetTcpEntry(c) PROVE Promise!Delete
<1>1. /\ pc = "close" /\ pc' = pc /\ c \in todo /\ todo' = todo \ {c}
      /\ UNCHANGED <<targets, confirmed, round, result>>
  BY DEF SetTcpEntry
<1>2. Left' = Left /\ Phase' = Phase /\ Attempts' = Attempts
  BY <1>1 DEF Left, Phase, Attempts, Returned
<1>3. Report' = Report
  BY <1>1 DEF Report, Returned
<1> QED
  BY <1>1, <1>2, <1>3 DEF Promise!Delete, Phase, Left, Attempts, Report

\* Another step of the rounds or the fallback confirms, or ends the request.
LEMMA ClosingRefines ==
  ASSUME TypeInv', NothingToCloseIsTrue', pc \in Closes, todo = {}, todo' = {},
         targets' \subseteq targets, confirmed \subseteq confirmed',
         \/ pc' = "returned"
         \/ pc' \in Closes /\ Attempts' = Attempts
  PROVE  Promise!Confirm \/ Promise!Finish
<1>1. Phase = "closing" /\ Report = "none" /\ Left' \in SUBSET Left
  BY Phases DEF Left
<1>2. CASE pc' = "returned"
  <2>1. Phase' = "done" /\ Report' = Title' /\ Attempts' = 0
    BY <1>2 DEF Phase, Report, Attempts, Returned
  <2>2. targets' \subseteq aim'
    BY DEF TypeInv, TypeOK, TargetsOK
  <2>3. Title' = "Nothing to close" => Left' = {}
    BY <1>2, <2>2 DEF NothingToCloseIsTrue, Left, Returned
  <2>4. Title' \in {"silent", "Close failed", "Nothing to close", "Sockets closed"}
    BY DEF Title
  <2> QED
    BY <1>1, <2>1, <2>3, <2>4 DEF Promise!Finish, Phase, Left, Attempts, Report
<1>3. CASE pc' \in Closes /\ Attempts' = Attempts
  <2>1. Phase' = "closing" /\ Report' = "none"
    BY <1>3
       DEF Phase, Report, Closes, Listing, Rounding, Blocking, Returned
  <2> QED
    BY <1>1, <1>3, <2>1 DEF Promise!Confirm, Phase, Left, Attempts, Report
<1> QED
  BY <1>2, <1>3

\* What a step leaves alone when it changes neither books nor verdict.
LEMMA Stutters ==
  ASSUME UNCHANGED <<targets, confirmed, todo, round, result, stats>>,
         pc' = pc \/ (pc \in Listing /\ pc' \in Listing)
  PROVE  UNCHANGED Promise!vars
<1>1. Phase' = Phase
  BY DEF Phase, Listing, Returned
<1>2. Left' = Left
  BY DEF Left
<1>3. Report' = Report
  BY DEF Report, Title, Listing, Returned
<1>4. Attempts' = Attempts
  BY DEF Attempts, Listing, Returned
<1> QED
  BY <1>1, <1>2, <1>3, <1>4 DEF Promise!vars, Phase, Left, Attempts, Report

\* Every step of the run, of Windows and of the user is one of the request's
\* or none.
LEMMA StepRefines ==
  IInv /\ IInv' /\ Unstarted /\ [Next]_vars => [Promise!Next]_(Promise!vars)
<1> SUFFICES ASSUME IInv, IInv', Unstarted, [Next]_vars
             PROVE  Promise!Next \/ UNCHANGED Promise!vars
  OBVIOUS
<1> USE DEF Promise!Next
<1>0. /\ TypeInv' /\ NothingToCloseIsTrue'
      /\ todo # {} => pc = "close"
      /\ todo' # {} => pc' = "close"
      /\ round \in Nat
  BY DEF IInv, TypeInv, TypeOK, ControlOK, Queue
<1>1. CASE Call
  BY <1>1, CallRefines
<1>2. CASE Listed
  BY <1>2, ListedRefines
<1>3. CASE ListTargets
  BY <1>3, Stutters DEF ListTargets, ReadTable, Listing
<1>4. CASE StartRound
  <2>1. CASE pc' = "close"
    BY <1>4, <2>1, AttemptRefines
  <2>2. CASE pc' = "returned"
    <3>1. pc \in Closes /\ pc = "round" /\ UNCHANGED <<targets, confirmed>>
      BY <1>4 DEF StartRound, Closes, Rounding, Listing
    <3> QED
      BY <1>0, <2>2, <3>1, ClosingRefines
  <2> QED
    BY <1>4, <2>1, <2>2 DEF StartRound
<1>5. CASE WaitVerify \/ Verify \/ Recheck \/ BlockGameTraffic \/ BlockLifted
           \/ Unblock \/ \E n \in Pid : BlockApp(n)
  <2>1. /\ pc \in Closes /\ pc # "round" /\ (pc = "close" => todo = {})
        /\ pc' \in (Closes \ {"round", "close"}) \cup {"returned"}
        /\ UNCHANGED <<targets, confirmed, round>>
    BY <1>5 DEF WaitVerify, Verify, Recheck, ReadTable, BlockGameTraffic,
                BlockLifted, Unblock, BlockApp, Closes, Rounding, Blocking, Listing
  <2>2. CASE pc' # "returned"
    <3>1. pc \notin {"round", "returned"} /\ pc' \notin {"round", "returned"}
      BY <2>1, <2>2 DEF Closes, Rounding, Blocking, Listing
    <3>2. Attempts = round /\ Attempts' = round'
      BY <3>1 DEF Attempts, Returned
    <3> QED
      BY <1>0, <2>1, <2>2, <3>2, ClosingRefines
  <2>3. CASE pc' = "returned"
    BY <1>0, <2>1, <2>3, ClosingRefines
  <2> QED
    BY <2>2, <2>3
<1>6. CASE Decide
  <2>1. pc = "decide" /\ pc \in Closes /\ Attempts = round
    BY <1>6 DEF Decide, Attempts, Closes, Rounding, Listing, Returned
  <2>2. targets' \subseteq targets /\ confirmed \subseteq confirmed'
    BY <1>6 DEF Decide, NextTargets, Survivors
  <2>3. CASE Retry
    <3>1. pc' = "round" /\ pc' \in Closes /\ round' = round + 1
      BY <1>6, <2>3 DEF Decide, Closes, Rounding, Listing
    <3>2. Attempts' = round' - 1
      BY <3>1 DEF Attempts, Returned
    <3>3. Attempts' = Attempts
      BY <1>0, <2>1, <3>1, <3>2
    <3> QED
      BY <1>0, <2>1, <2>2, <3>1, <3>3, ClosingRefines
  <2>4. CASE ~Retry
    <3>1. pc' \in {"block", "returned"} /\ round' = round
      BY <1>6, <2>4 DEF Decide
    <3>2. pc' = "block" => pc' \in Closes /\ Attempts' = Attempts
      BY <2>1, <3>1 DEF Attempts, Closes, Blocking, Listing, Returned
    <3> QED
      BY <1>0, <2>1, <2>2, <3>1, <3>2, ClosingRefines
  <2> QED
    BY <2>3, <2>4
<1>7. CASE Judge
  <2>1. /\ pc = "judge" /\ pc \in Closes /\ pc' = "returned"
        /\ targets' = targets /\ confirmed \subseteq confirmed'
    BY <1>7 DEF Judge, Closes, Blocking, Listing
  <2> QED
    BY <1>0, <2>1, ClosingRefines
<1>8. CASE \E c \in Conn : SetTcpEntry(c)
  BY <1>8, DeleteRefines
<1>9. CASE Environment
  BY <1>9, EnvironmentLeaves, Stutters
<1>10. CASE UNCHANGED vars
  BY <1>10, Stutters DEF vars
<1> QED
  BY <1>1, <1>2, <1>3, <1>4, <1>5, <1>6, <1>7, <1>8, <1>9, <1>10, Steps

\* closeLobby implements the request of Closing: it fixes the connections to
\* close once, it deletes only those still left, in at most cfg.Rounds attempts,
\* and its balloon agrees with what is left.
THEOREM Refinement == Spec => KeepsPromise
<1>1. Init => Promise!Init
  BY DEF Init, Promise!Init, Returned
<1>2. Init => Unstarted
  BY DEF Init, Unstarted, Listing
<1>3. Unstarted /\ [Next]_vars => Unstarted'
  BY UnstartedStep
<1>4. IInv /\ IInv' /\ Unstarted /\ [Next]_vars => [Promise!Next]_(Promise!vars)
  BY StepRefines
<1> QED
  BY <1>1, <1>2, <1>3, <1>4, Invariance, PTL DEF Spec, KeepsPromise, Promise!Spec
=============================================================================
