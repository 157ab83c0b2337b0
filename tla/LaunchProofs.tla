---------------------------- MODULE LaunchProofs -----------------------------
(***************************************************************************)
(* Launch keeps the promises of Update, and of each start of the user at   *)
(* most one process becomes the running tool, for any processes, releases, *)
(* command lines and starts.                                               *)
(***************************************************************************)
EXTENDS Launch, UpdateProofs, FiniteSetTheorems

-----------------------------------------------------------------------------
(* Launch implements Update.                                                *)

\* A step of Launch is one of Update, or none.
LEMMA UpdateStep == [LaunchNext]_lvars => [Next]_vars
<1> SUFFICES ASSUME [LaunchNext]_lvars PROVE [Next]_vars
  OBVIOUS
<1>1. CASE Publish
  BY <1>1 DEF Next
<1>2. ASSUME NEW t \in Proc, Main(t) PROVE [Next]_vars
  <2>1. CASE CleanupOld(t) \/ Install(t)
    BY <2>1 DEF Next
  <2>2. CASE Guard(t)
    BY <2>2 DEF Guard, Next
  <2>3. CASE Stay(t) \/ RestartFails(t)
    BY <2>3 DEF Stay, RestartFails
  <2>4. CASE Leave(t)
    BY <2>4 DEF Leave, Vanish, Next
  <2>5. ASSUME NEW u \in Proc, RelaunchAsAdmin(t, u) \/ Restart(t, u)
        PROVE  [Next]_vars
    BY <2>5 DEF RelaunchAsAdmin, Restart, Begin, Next
  <2> QED
    BY <1>2, <2>1, <2>2, <2>3, <2>4, <2>5 DEF Main
<1>3. ASSUME NEW t \in Proc, Finish(t) \/ Kill(t) PROVE [Next]_vars
  BY <1>3 DEF Finish, Kill, Vanish, Next
<1>4. ASSUME NEW t \in Proc, NEW line \in Requests, UserStarts(t, line)
      PROVE  [Next]_vars
  BY <1>4 DEF UserStarts, Begin, Next
<1>5. CASE UNCHANGED lvars
  BY <1>5 DEF lvars
<1> QED
  BY <1>1, <1>2, <1>3, <1>4, <1>5 DEF LaunchNext

\* What Update promises of its processes holds of the chains of Launch.
THEOREM UpdateHolds == LaunchSpec => Spec
<1>1. LaunchInit => Init
  BY DEF LaunchInit
<1> QED
  BY <1>1, UpdateStep, PTL DEF LaunchSpec, Spec

-----------------------------------------------------------------------------
(* The inductive invariant.                                                 *)

Sorts ==
  /\ phase \in [Proc -> {"elevate", "guard", "leave"}]
  /\ elevated \in [Proc -> BOOLEAN]
  /\ origin \in [Proc -> 0 .. starts] /\ starts \in 0 .. MaxStarts
  /\ broken \subseteq 1 .. starts

\* A process that lives goes back to a start.
Descends(t) == Live(t) <=> origin[t] # 0

\* It installs only past its prompt, and whoever leaves is not running.
InOrder(t) ==
  /\ pc[t] \notin {"off", "cleanup", "started"} =>
       phase[t] = "guard" \/ pc[t] = "installed"
  /\ phase[t] = "leave" => pc[t] \in {"started", "installed"}

\* Of a start, one process has not handed over.
Heir(t) == origin[t] # 0 /\ phase[t] # "leave"
Unique(t, u) == Heir(t) /\ Heir(u) /\ origin[t] = origin[u] => t = u

LInv ==
  /\ Sorts
  /\ \A t \in Proc : Descends(t) /\ InOrder(t)
  /\ \A t, u \in Proc : Unique(t, u)

LEMMA LInit == LaunchInit => LInv
<1> SUFFICES ASSUME LaunchInit PROVE LInv
  OBVIOUS
<1>1. Sorts
  BY LaunchAssumption DEF LaunchInit, Sorts
<1>2. \A t \in Proc : Descends(t) /\ InOrder(t)
  BY DEF LaunchInit, Init, Descends, InOrder, Live
<1>3. \A t, u \in Proc : Unique(t, u)
  BY DEF LaunchInit, Unique, Heir
<1> QED
  BY <1>1, <1>2, <1>3 DEF LInv

Installs == {"fetch", "download", "stage", "moveAway", "putInPlace", "rollBack"}

\* Where the steps of Update take a process.
LEMMA OwnStep ==
  ASSUME TypeOK, NEW t \in Proc,
         CleanupOld(t) \/ Install(t) \/ MaybeAuto(t) \/ Skip(t)
  PROVE  \E v \in Pc :
           /\ pc' = [pc EXCEPT ![t] = v]
           /\ \/ pc[t] = "cleanup" /\ v \in {"cleanup", "started"}
              \/ pc[t] = "started" /\ v \in {"fetch", "run"}
              \/ pc[t] \in Installs /\ v \in Installs \cup {"run", "installed"}
<1> USE DEF Pc, Goto, Installs
<1>1. CASE CleanupOld(t)
  <2>1. \/ pc' = [pc EXCEPT ![t] = "started"]
        \/ pc' = [pc EXCEPT ![t] = pc[t]]
    BY <1>1 DEF CleanupOld
  <2> QED
    BY <1>1, <2>1 DEF CleanupOld
<1>2. CASE FetchLatest(t)
  BY <1>2 DEF FetchLatest
<1>3. CASE Download(t)
  BY <1>3 DEF Download
<1>4. CASE Stage(t) \/ MoveAway(t)
  BY <1>4 DEF Stage, MoveAway
<1>5. CASE PutInPlace(t) \/ RollBack(t)
  BY <1>5 DEF PutInPlace, RollBack
<1>6. CASE MaybeAuto(t)
  <2>1. CASE checkable(ver[t])
    BY <1>6, <2>1 DEF MaybeAuto
  <2>2. CASE ~checkable(ver[t])
    BY <1>6, <2>2 DEF MaybeAuto
  <2> QED
    BY <2>1, <2>2
<1>7. CASE Skip(t)
  BY <1>7 DEF Skip
<1> QED
  BY <1>1, <1>2, <1>3, <1>4, <1>5, <1>6, <1>7 DEF Install

\* A process goes on, past its prompt where it installs.
LEMMA GoesOn ==
  ASSUME TypeOK, LInv, NEW t \in Proc, UNCHANGED launch,
         \/ CleanupOld(t) \/ Install(t)
         \/ phase[t] = "guard" /\ (MaybeAuto(t) \/ Skip(t))
  PROVE  LInv'
<1>1. PICK v \in Pc :
        /\ pc' = [pc EXCEPT ![t] = v]
        /\ \/ pc[t] = "cleanup" /\ v \in {"cleanup", "started"}
           \/ pc[t] = "started" /\ v \in {"fetch", "run"}
           \/ pc[t] \in Installs /\ v \in Installs \cup {"run", "installed"}
  BY OwnStep
<1>2. pc[t] = "started" => phase[t] = "guard"
  <2>1. CleanupOld(t) \/ Install(t) => pc[t] # "started"
    BY DEF CleanupOld, Install, FetchLatest, Download, Stage, MoveAway, PutInPlace,
       RollBack, Goto
  <2> QED
    BY <2>1
<1>3. UNCHANGED <<phase, elevated, origin, starts, broken>>
  BY DEF launch
<1>4. pc \in [Proc -> Pc]
  BY DEF TypeOK
<1>5. Sorts'
  BY <1>3 DEF LInv, Sorts
<1>6. ASSUME NEW u \in Proc PROVE Descends(u)' /\ InOrder(u)'
  <2>1. Descends(u) /\ InOrder(u)
    BY DEF LInv
  <2>2. CASE u # t
    <3>1. pc'[u] = pc[u]
      BY <1>1, <1>4, <2>2
    <3> QED
      BY <1>3, <2>1, <3>1 DEF Descends, InOrder, Live
  <2>3. CASE u = t
    <3>1. pc'[t] = v
      BY <1>1, <1>4
    <3>2. v # "off" /\ pc[t] # "off"
      BY <1>1 DEF Installs
    <3>3. Descends(t)'
      BY <1>3, <2>1, <2>3, <3>1, <3>2 DEF Descends, Live
    <3>4. InOrder(t)'
      BY <1>1, <1>2, <1>3, <2>1, <2>3, <3>1 DEF InOrder, Installs
    <3> QED
      BY <2>3, <3>3, <3>4
  <2> QED
    BY <2>2, <2>3
<1>7. \A u, w \in Proc : Unique(u, w)'
  BY <1>3 DEF LInv, Unique, Heir
<1> QED
  BY <1>5, <1>6, <1>7 DEF LInv

\* A process changes its phase.
LEMMA Turns ==
  ASSUME TypeOK, LInv, NEW t \in Proc, NEW p \in {"guard", "leave"},
         UNCHANGED <<pc, elevated, origin, starts>>,
         phase[t] # "leave", pc[t] \in {"started", "installed"},
         phase' = [phase EXCEPT ![t] = p],
         broken' \subseteq 1 .. starts
  PROVE  LInv'
<1>1. Sorts'
  BY DEF LInv, Sorts
<1>2. ASSUME NEW u \in Proc PROVE Descends(u)' /\ InOrder(u)'
  <2>1. Descends(u) /\ InOrder(u)
    BY DEF LInv
  <2>2. phase'[u] = IF u = t THEN p ELSE phase[u]
    BY DEF LInv, Sorts
  <2> QED
    BY <2>1, <2>2 DEF Descends, InOrder, Live
<1>3. ASSUME NEW u \in Proc, NEW w \in Proc PROVE Unique(u, w)'
  <2>1. Unique(u, w)
    BY DEF LInv
  <2>2. /\ phase'[u] = IF u = t THEN p ELSE phase[u]
        /\ phase'[w] = IF w = t THEN p ELSE phase[w]
    BY DEF LInv, Sorts
  <2> QED
    BY <2>1, <2>2 DEF Unique, Heir
<1> QED
  BY <1>1, <1>2, <1>3 DEF LInv

\* A process ends.
LEMMA Ends ==
  ASSUME TypeOK, LInv, NEW t \in Proc, Vanish(t), UNCHANGED starts,
         broken' \subseteq 1 .. starts
  PROVE  LInv'
<1>1. /\ pc' = [pc EXCEPT ![t] = "off"] /\ phase' = [phase EXCEPT ![t] = "elevate"]
      /\ elevated' = [elevated EXCEPT ![t] = FALSE]
      /\ origin' = [origin EXCEPT ![t] = 0]
  BY DEF Vanish, End
<1>2. pc \in [Proc -> Pc] /\ Sorts
  BY DEF TypeOK, LInv
<1>3. Sorts'
  BY <1>1, <1>2 DEF Sorts
<1>4. ASSUME NEW u \in Proc
      PROVE  /\ u = t => pc'[u] = "off" /\ phase'[u] = "elevate" /\ origin'[u] = 0
             /\ u # t => pc'[u] = pc[u] /\ phase'[u] = phase[u] /\ origin'[u] = origin[u]
  BY <1>1, <1>2 DEF Sorts
<1>5. ASSUME NEW u \in Proc PROVE Descends(u)' /\ InOrder(u)'
  BY <1>4 DEF LInv, Descends, InOrder, Live
<1>6. ASSUME NEW u \in Proc, NEW w \in Proc PROVE Unique(u, w)'
  <2>1. Unique(u, w)
    BY DEF LInv
  <2> QED
    BY <1>4, <2>1 DEF Unique, Heir
<1> QED
  BY <1>3, <1>5, <1>6 DEF LInv

\* A process begins: it is the heir of its start when no other is.
LEMMA Begins ==
  ASSUME TypeOK, LInv, NEW u \in Proc, NEW c \in 1 .. starts', NEW line, NEW tag,
         NEW admin \in BOOLEAN, Begin(u, c, line, tag, admin),
         starts' \in starts .. MaxStarts, UNCHANGED broken,
         phase' \in [Proc -> {"elevate", "guard", "leave"}],
         \A w \in Proc : phase'[w] = phase[w]
                         \/ (phase'[w] = "leave" /\ pc[w] \in {"started", "installed"}),
         \A w \in Proc : origin[w] = c => phase'[w] = "leave"
  PROVE  LInv'
<1>1. /\ pc[u] = "off" /\ pc' = [pc EXCEPT ![u] = "cleanup"]
      /\ elevated' = [elevated EXCEPT ![u] = admin]
      /\ origin' = [origin EXCEPT ![u] = c]
  BY DEF Begin, Start, Goto
<1>2. pc \in [Proc -> Pc] /\ Sorts
  BY DEF TypeOK, LInv
<1>3. starts \in Nat /\ starts' \in Nat /\ starts <= starts' /\ c \in 0 .. starts'
      /\ starts' \in 0 .. MaxStarts
  BY <1>2, LaunchAssumption DEF Sorts
<1>4. Sorts'
  <2>1. 0 .. starts \subseteq 0 .. starts' /\ 1 .. starts \subseteq 1 .. starts'
    BY <1>3
  <2>2. origin' \in [Proc -> 0 .. starts']
    BY <1>1, <1>2, <1>3, <2>1 DEF Sorts
  <2>3. elevated' \in [Proc -> BOOLEAN]
    BY <1>1, <1>2 DEF Sorts
  <2> QED
    BY <1>2, <1>3, <2>1, <2>2, <2>3 DEF Sorts
<1>5. ASSUME NEW w \in Proc
      PROVE  /\ w = u => pc'[w] = "cleanup" /\ origin'[w] = c
             /\ w # u => pc'[w] = pc[w] /\ origin'[w] = origin[w]
  BY <1>1, <1>2 DEF Sorts
<1>6. c # 0
  BY <1>3
<1>7. ASSUME NEW w \in Proc PROVE Descends(w)' /\ InOrder(w)'
  <2>1. Descends(w) /\ InOrder(w)
    BY DEF LInv
  <2>2. CASE w = u
    <3>1. phase[u] # "leave"
      BY <1>1, <2>1, <2>2 DEF InOrder
    <3>2. phase'[u] # "leave"
      BY <1>1, <3>1
    <3> QED
      BY <1>5, <1>6, <2>2, <3>2 DEF Descends, InOrder, Live
  <2>3. CASE w # u
    <3>1. pc'[w] = pc[w] /\ origin'[w] = origin[w]
      BY <1>5, <2>3
    <3> QED
      BY <2>1, <3>1 DEF Descends, InOrder, Live
  <2> QED
    BY <2>2, <2>3
<1>8. ASSUME NEW v \in Proc, NEW w \in Proc PROVE Unique(v, w)'
  <2>1. Unique(v, w)
    BY DEF LInv
  <2> QED
    BY <1>5, <2>1 DEF Unique, Heir
<1> QED
  BY <1>4, <1>7, <1>8 DEF LInv

LEMMA LStep == TypeOK /\ LInv /\ [LaunchNext]_lvars => LInv'
<1> SUFFICES ASSUME TypeOK, LInv, [LaunchNext]_lvars PROVE LInv'
  OBVIOUS
<1>0. Sorts /\ pc \in [Proc -> Pc] /\ starts \in Nat /\ MaxStarts \in Nat
  BY LaunchAssumption DEF LInv, Sorts, TypeOK
<1>1. CASE UNCHANGED <<pc, launch>>
  <2>1. UNCHANGED <<pc, phase, elevated, origin, starts, broken>>
    BY <1>1 DEF launch
  <2> QED
    BY <2>1 DEF LInv, Sorts, Descends, InOrder, Unique, Heir, Live
<1>2. CASE Publish /\ UNCHANGED launch
  BY <1>1, <1>2 DEF Publish
<1>3. ASSUME NEW t \in Proc, Main(t) PROVE LInv'
  <2>1. CASE (CleanupOld(t) \/ Install(t)) /\ UNCHANGED launch
    BY <2>1, GoesOn
  <2>2. CASE Guard(t)
    BY <2>2, GoesOn DEF Guard, At
  <2>3. CASE Stay(t)
    <3>1. UNCHANGED <<pc, elevated, origin, starts, broken>>
      BY <2>3 DEF Stay, vars
    <3>2. pc[t] = "started" /\ phase[t] = "elevate"
          /\ phase' = [phase EXCEPT ![t] = "guard"]
      BY <2>3 DEF Stay, At
    <3>3. broken' \subseteq 1 .. starts
      BY <1>0, <3>1 DEF Sorts
    <3> QED
      BY <3>1, <3>2, <3>3, Turns
  <2>4. CASE RestartFails(t)
    <3>1. UNCHANGED <<pc, elevated, origin, starts>>
      BY <2>4 DEF RestartFails, vars
    <3>2. pc[t] = "installed" /\ phase[t] = "guard"
          /\ phase' = [phase EXCEPT ![t] = "leave"]
          /\ broken' = broken \cup {origin[t]}
      BY <2>4 DEF RestartFails, Leaves
    <3>3. origin[t] \in 1 .. starts
      <4>1. origin[t] # 0 /\ origin[t] \in 0 .. starts
        BY <1>0, <3>2 DEF LInv, Descends, Live, Sorts
      <4> QED
        BY <1>0, <4>1
    <3>4. broken' \subseteq 1 .. starts
      BY <1>0, <3>2, <3>3 DEF Sorts
    <3> QED
      BY <3>1, <3>2, <3>4, Turns
  <2>5. CASE Leave(t)
    <3>1. UNCHANGED <<starts, broken>>
      BY <2>5 DEF Leave
    <3>2. broken' \subseteq 1 .. starts
      BY <1>0, <3>1 DEF Sorts
    <3> QED
      BY <2>5, <3>1, <3>2, Ends DEF Leave
  <2>6. ASSUME NEW u \in Proc, RelaunchAsAdmin(t, u) \/ Restart(t, u) PROVE LInv'
    <3>1. pc[t] \in {"started", "installed"} /\ phase[t] # "leave"
          /\ phase' = [phase EXCEPT ![t] = "leave"] /\ UNCHANGED <<starts, broken>>
      BY <2>6 DEF RelaunchAsAdmin, Restart, At, Leaves
    <3>2. origin[t] \in 1 .. starts
      <4>1. origin[t] # 0 /\ origin[t] \in 0 .. starts
        BY <1>0, <3>1 DEF LInv, Descends, Live, Sorts
      <4> QED
        BY <1>0, <4>1
    <3>3. elevated[t] \in BOOLEAN
      BY <1>0 DEF Sorts
    <3>4. \E line, tag : \E admin \in BOOLEAN : Begin(u, origin[t], line, tag, admin)
      BY <2>6, <3>3 DEF RelaunchAsAdmin, Restart
    <3>5. phase' \in [Proc -> {"elevate", "guard", "leave"}]
      BY <1>0, <3>1 DEF Sorts
    <3>6. \A w \in Proc : phase'[w] = IF w = t THEN "leave" ELSE phase[w]
      BY <1>0, <3>1 DEF Sorts
    <3>7. \A w \in Proc : origin[w] = origin[t] => phase'[w] = "leave"
      BY <3>1, <3>2, <3>6 DEF LInv, Unique, Heir
    <3>8. starts' \in starts .. MaxStarts /\ origin[t] \in 1 .. starts'
      BY <1>0, <3>1, <3>2 DEF Sorts
    <3> QED
      BY <3>1, <3>4, <3>5, <3>6, <3>7, <3>8, Begins
  <2> QED
    BY <1>3, <2>1, <2>2, <2>3, <2>4, <2>5, <2>6 DEF Main
<1>4. ASSUME NEW t \in Proc, Finish(t) PROVE LInv'
  <2>1. UNCHANGED <<starts, broken>>
    BY <1>4 DEF Finish
  <2>2. Vanish(t)
    BY <1>4 DEF Finish
  <2>3. broken' \subseteq 1 .. starts
    BY <1>0, <2>1 DEF Sorts
  <2> QED
    BY <2>1, <2>2, <2>3, Ends
<1>5. ASSUME NEW t \in Proc, Kill(t) PROVE LInv'
  <2>0. Vanish(t)
    BY <1>5 DEF Kill
  <2>1. UNCHANGED starts /\ broken' = broken \cup {origin[t]}
    BY <1>5 DEF Kill
  <2>2. origin[t] # 0 /\ origin[t] \in 0 .. starts
    <3>1. pc[t] # "off"
      BY <1>5 DEF Kill, Vanish, End, Live
    <3> QED
      BY <1>0, <3>1 DEF LInv, Descends, Sorts, Live
  <2>3. origin[t] \in 1 .. starts
    BY <1>0, <2>2
  <2>4. broken' \subseteq 1 .. starts
    BY <1>0, <2>1, <2>3 DEF Sorts
  <2> QED
    BY <2>0, <2>1, <2>4, Ends
<1>6. ASSUME NEW t \in Proc, NEW line \in Requests, UserStarts(t, line) PROVE LInv'
  <2>1. starts < MaxStarts /\ starts' = starts + 1 /\ UNCHANGED <<phase, broken>>
    BY <1>6 DEF UserStarts
  <2>2. PICK admin \in BOOLEAN : Begin(t, starts', line, NoTag, admin)
    BY <1>6 DEF UserStarts
  <2>3. starts' \in starts .. MaxStarts /\ starts' \in 1 .. starts'
    BY <1>0, <2>1
  <2>4. \A w \in Proc : origin[w] # starts'
    BY <1>0, <2>1 DEF Sorts
  <2>5. phase' \in [Proc -> {"elevate", "guard", "leave"}]
    BY <1>0, <2>1 DEF Sorts
  <2> QED
    BY <2>1, <2>2, <2>3, <2>4, <2>5, Begins
<1> QED
  BY <1>1, <1>2, <1>3, <1>4, <1>5, <1>6 DEF LaunchNext, lvars, vars

LEMMA LInvHolds == LaunchSpec => [](TypeOK /\ LInv)
<1>1. LaunchSpec => []TypeOK
  BY UpdateHolds, TypeCorrect, PTL
<1> QED
  BY <1>1, LInit, LStep, PTL DEF LaunchSpec

\* Every variable of a chain of processes keeps its type.
THEOREM LaunchTypeCorrect == LaunchSpec => []LaunchTypeOK
<1>1. TypeOK /\ LInv => LaunchTypeOK
  <2> SUFFICES ASSUME TypeOK, LInv PROVE LaunchTypeOK
    OBVIOUS
  <2>1. \A t \in Proc : Live(t) = (origin[t] # 0)
    BY DEF LInv, Descends, Live
  <2> QED
    BY <2>1 DEF LInv, Sorts, InOrder, LaunchTypeOK
<1> QED
  BY <1>1, LInvHolds, PTL

LEMMA AtMostOne ==
  ASSUME NEW S, IsFiniteSet(S), \A x, y \in S : x = y
  PROVE  Cardinality(S) <= 1
<1>1. CASE S = {}
  BY <1>1, FS_EmptySet
<1>2. CASE S # {}
  <2>1. PICK x \in S : TRUE
    BY <1>2
  <2>2. S = {x}
    BY <2>1
  <2> QED
    BY <2>2, FS_Singleton
<1> QED
  BY <1>1, <1>2

\* One start of the user gives one running tool at most: whoever hands over is
\* on its way out, and whoever is on its way out never comes to app.Run.
THEOREM OneHeirTheorem == LaunchSpec => []OneHeir
<1>1. LInv => OneHeir
  <2> SUFFICES ASSUME LInv, NEW c \in Starts PROVE Cardinality(Running(c)) <= 1
    BY DEF OneHeir
  <2>1. Running(c) \in SUBSET Proc
    BY DEF Running
  <2>2. IsFiniteSet(Running(c))
    BY <2>1, LaunchAssumption, FS_Subset
  <2>3. c # 0
    BY LaunchAssumption DEF Starts
  <2>4. ASSUME NEW t \in Running(c), NEW u \in Running(c) PROVE t = u
    <3>1. t \in Proc /\ u \in Proc /\ origin[t] = c /\ origin[u] = c
          /\ pc[t] = "run" /\ pc[u] = "run"
      BY DEF Running
    <3>2. InOrder(t) /\ InOrder(u) /\ Unique(t, u)
      BY <3>1 DEF LInv
    <3> QED
      BY <2>3, <3>1, <3>2 DEF InOrder, Unique, Heir
  <2> QED
    BY <2>2, <2>4, AtMostOne
<1> QED
  BY <1>1, LInvHolds, PTL

-----------------------------------------------------------------------------
(* The chains of copies run out: the safety half of ChainsEnd.              *)

HandsOver(t, u) == RelaunchAsAdmin(t, u) \/ Restart(t, u)

\* The copy has a right more, or a newer version, and has lost neither.
Climbs(t, u) ==
  /\ ver[t] <= ver'[u] /\ (elevated[t] => elevated'[u])
  /\ ver[t] < ver'[u] \/ (~elevated[t] /\ elevated'[u])

\* A copy runs what is installed.
LEMMA CopyRuns ==
  ASSUME TypeOK, NEW u \in Proc, NEW c, NEW line, NEW tag, NEW admin,
         Begin(u, c, line, tag, admin), Sorts
  PROVE  ver'[u] = Installed /\ elevated'[u] = admin
<1>1. exe # NoFile
  BY Files DEF Begin, Start
<1>2. ver' = [ver EXCEPT ![u] = exe.release]
  BY DEF Begin, Start
<1>3. elevated' = [elevated EXCEPT ![u] = admin]
  BY DEF Begin
<1> QED
  BY <1>1, <1>2, <1>3 DEF TypeOK, Sorts, Installed

LEMMA HandsOverUp ==
  ASSUME TypeOK, LInv, \A t \in Proc : Behind(t),
         NEW t \in Proc, NEW u \in Proc, HandsOver(t, u)
  PROVE  Climbs(t, u)
<1>1. Sorts /\ Behind(t)
  BY DEF LInv
<1>2. CASE RelaunchAsAdmin(t, u)
  <2>1. ~elevated[t]
    BY <1>2 DEF RelaunchAsAdmin, WantsElevation
  <2>2. \E tag \in {env[t], NoTag} : Begin(u, origin[t], AdminArgs(args[t]), tag, TRUE)
    BY <1>2 DEF RelaunchAsAdmin
  <2>3. ver'[u] = Installed /\ elevated'[u] = TRUE
    BY <1>1, <2>2, CopyRuns
  <2> QED
    BY <1>1, <2>1, <2>3 DEF Behind, Climbs
<1>3. CASE Restart(t, u)
  <2>1. pc[t] = "installed"
    BY <1>3 DEF Restart
  <2>2. Begin(u, origin[t], args[t], Tag(target[t].release), elevated[t])
    BY <1>3 DEF Restart
  <2>3. ver'[u] = Installed /\ elevated'[u] = elevated[t]
    BY <1>1, <2>2, CopyRuns
  <2> QED
    BY <1>1, <2>1, <2>3 DEF Behind, Climbs
<1> QED
  BY <1>2, <1>3 DEF HandsOver

\* Of a start of the user, each handover and each restart is one up: into an
\* elevated process, for good, or into a newer release than the one it leaves, also
\* when other processes have updated the files in between.  The restart-loop
\* guard, which never holds, is not needed for it.
THEOREM ChainsClimb ==
  LaunchSpec => [][\A t, u \in Proc : HandsOver(t, u) => Climbs(t, u)]_lvars
<1> DEFINE AllBehind == \A t \in Proc : Behind(t)
           AllClimb == \A t, u \in Proc : HandsOver(t, u) => Climbs(t, u)
<1>1. TypeOK /\ LInv /\ AllBehind => AllClimb
  BY HandsOverUp
<1>2. LaunchSpec => []AllBehind
  BY UpdateHolds, BehindTheorem, PTL
<1> HIDE DEF AllBehind, AllClimb
<1>3. LaunchSpec => [][AllClimb]_lvars
  BY <1>1, <1>2, LInvHolds, PTL DEF LaunchSpec
<1> QED
  BY <1>3 DEF AllClimb

\* The handovers a process may still be followed by: one for each release newer
\* than its own, and one if it is not elevated.
Newer(t) == {r \in Release : r > ver[t]}
Rest(t) == Cardinality(Newer(t)) + (IF elevated[t] THEN 0 ELSE 1)

LEMMA ClimbsShorten ==
  ASSUME IsFiniteSet(Release), TypeOK, TypeOK', NEW t \in Proc, NEW u \in Proc,
         Climbs(t, u)
  PROVE  Rest(u)' \in Nat /\ Rest(u)' < Rest(t)
<1> DEFINE a == Cardinality(Newer(t))
           b == Cardinality(Newer(u)')
<1>1. IsFiniteSet(Newer(t)) /\ IsFiniteSet(Newer(u)') /\ a \in Nat /\ b \in Nat
  <2>1. Newer(t) \in SUBSET Release /\ Newer(u)' \in SUBSET Release
    BY DEF Newer
  <2> QED
    BY <2>1, FS_Subset, FS_CardinalityType
<1>2. /\ ver[t] \in Nat /\ ver'[u] \in Release \cup {0}
      /\ \A r \in Release : r \in Nat /\ r # 0
  BY UpdateAssumption, Numbers DEF TypeOK
<1>3. ver'[u] \in Nat
  BY <1>2
<1>4. Newer(u)' \subseteq Newer(t)
  BY <1>2, <1>3 DEF Newer, Climbs
<1>5. b <= a
  BY <1>1, <1>4, FS_Subset
<1>6. CASE ver[t] < ver'[u]
  <2>1. ver'[u] \in Newer(t) /\ ver'[u] \notin Newer(u)'
    BY <1>2, <1>3, <1>6 DEF Newer
  <2>2. b < a
    <3>1. Newer(u)' # Newer(t)
      BY <2>1
    <3>2. b # a
      BY <1>1, <1>4, <3>1, FS_Subset
    <3> QED
      BY <1>1, <1>5, <3>2
  <2>3. \/ Rest(t) = a /\ Rest(u)' = b
        \/ Rest(t) = a + 1 /\ Rest(u)' \in {b, b + 1}
    BY <1>1 DEF Rest, Climbs
  <2> HIDE DEF a, b
  <2> QED
    BY <1>1, <2>2, <2>3
<1>7. CASE ~elevated[t] /\ elevated'[u]
  <2>1. Rest(t) = a + 1 /\ Rest(u)' = b
    BY <1>1, <1>7 DEF Rest
  <2> HIDE DEF a, b
  <2> QED
    BY <1>1, <1>5, <2>1
<1> QED
  BY <1>6, <1>7 DEF Climbs

\* With finitely many releases no chain goes on forever: every handover leaves
\* fewer to come, from one for each release and one on.
THEOREM ChainsRunOut ==
  ASSUME IsFiniteSet(Release)
  PROVE  LaunchSpec =>
           [][\A t, u \in Proc :
                HandsOver(t, u) => Rest(u)' \in Nat /\ Rest(u)' < Rest(t)]_lvars
<1> DEFINE AllClimb == \A t, u \in Proc : HandsOver(t, u) => Climbs(t, u)
           AllShorter == \A t, u \in Proc :
                           HandsOver(t, u) => Rest(u)' \in Nat /\ Rest(u)' < Rest(t)
<1>1. TypeOK /\ TypeOK' /\ AllClimb => AllShorter
  BY ClimbsShorten
<1>2. LaunchSpec => [][AllClimb]_lvars
  BY ChainsClimb DEF AllClimb
<1> HIDE DEF AllClimb, AllShorter
<1>3. LaunchSpec => [][AllShorter]_lvars
  BY <1>1, <1>2, LInvHolds, PTL
<1> QED
  BY <1>3 DEF AllShorter
=============================================================================
