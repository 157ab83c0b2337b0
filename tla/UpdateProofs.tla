---------------------------- MODULE UpdateProofs ----------------------------
(***************************************************************************)
(* The safety properties of Update, for any number of processes, releases  *)
(* and removals, with any releases too long for maxZipSize.                *)
(***************************************************************************)
EXTENDS Update, TLAPS

\* A process runs from a whole file of its own version, wherever that file is.
Runs(t) ==
  Live(t) => \/ image[t] = "exe" /\ exe = Whole(ver[t])
             \/ image[t] = "old" /\ old = Whole(ver[t])

\* Between its two renames a process runs from .old, and nothing is at the
\* path of the executable.
Swaps(t) == Swapping(t) => image[t] = "old" /\ exe = NoFile

\* What is being installed is newer than who installs it, and once it has been
\* downloaded it is whole, but for releases that exeFromZip cuts.
Targets(t) ==
  /\ pc[t] \in {"download", "stage", "moveAway", "putInPlace"} =>
       target[t].release \in Release /\ target[t].release > ver[t]
  /\ pc[t] \in {"stage", "moveAway", "putInPlace"} =>
       target[t].whole \/ target[t].release \in Oversize

Each(t) == Runs(t) /\ Swaps(t) /\ Targets(t)

\* CleanupOld counts a try only while it has one left.
Counted == \A t \in Proc : pc[t] = "cleanup" => tries[t] < Tries
Idle == \A t \in Proc : pc[t] = "off" => tries[t] = 0

IInv ==
  /\ TypeOK /\ Counted /\ Idle
  /\ Verified /\ Recoverable /\ OneSwap
  /\ \A t \in Proc : Each(t)

Installed == IF exe = NoFile THEN old.release ELSE exe.release

\* The files are told apart by their contents.
LEMMA Files ==
  /\ NoFile \in File /\ ~NoFile.whole /\ NoFile.release = 0
  /\ \A r \in Release \cup {0} :
       Whole(r) \in File /\ Whole(r) # NoFile /\ Whole(r).whole
         /\ Whole(r).release = r
BY DEF File, NoFile, Whole

\* At first nothing runs and a whole executable is in place.
LEMMA InvInit == Init => IInv
<1> SUFFICES ASSUME Init PROVE IInv
  OBVIOUS
<1>1. TypeOK
  BY UpdateAssumption, Files DEF Init, TypeOK, Pc
<1>2. Verified /\ Recoverable
  BY Files DEF Init, Verified, Recoverable
<1>3. OneSwap /\ Counted /\ Idle /\ \A t \in Proc : Each(t)
  BY UpdateAssumption DEF Init, OneSwap, Swapping, Counted, Idle, Each, Runs,
     Swaps, Targets, Live
<1> QED
  BY <1>1, <1>2, <1>3 DEF IInv

-----------------------------------------------------------------------------
(* Types.                                                                   *)

LEMMA TypeStep == IInv /\ [Next]_vars => TypeOK' /\ Counted' /\ Idle'
<1> SUFFICES ASSUME IInv, [Next]_vars PROVE TypeOK' /\ Counted' /\ Idle'
  OBVIOUS
<1> USE UpdateAssumption, Files
<1>0. TypeOK /\ Counted /\ Idle
  BY DEF IInv
<1>1. CASE UNCHANGED vars
  BY <1>0, <1>1 DEF vars, files, TypeOK, Counted, Idle
<1>2. CASE Publish
  BY <1>0, <1>2 DEF Publish, files, TypeOK, Counted, Idle
<1>3. ASSUME NEW t \in Proc, Start(t) PROVE TypeOK' /\ Counted' /\ Idle'
  BY <1>0, <1>3 DEF Start, Goto, files, TypeOK, Counted, Idle, Pc, File
<1>4. ASSUME NEW t \in Proc, CleanupOld(t) PROVE TypeOK' /\ Counted' /\ Idle'
  <2>1. CASE old' = NoFile /\ pc' = [pc EXCEPT ![t] = "started"] /\ UNCHANGED tries
    BY <1>0, <1>4, <2>1 DEF CleanupOld, TypeOK, Counted, Idle, Pc
  <2>2. CASE /\ tries' = [tries EXCEPT ![t] = @ + 1]
             /\ pc' = [pc EXCEPT ![t] = IF tries'[t] = Tries THEN "started" ELSE @]
             /\ UNCHANGED old
    BY <1>0, <1>4, <2>2 DEF CleanupOld, TypeOK, Counted, Idle, Pc
  <2> QED
    BY <1>4, <2>1, <2>2 DEF CleanupOld
<1>5. ASSUME NEW t \in Proc, Skip(t) \/ MaybeAuto(t) \/ Stage(t)
      PROVE  TypeOK' /\ Counted' /\ Idle'
  BY <1>0, <1>5 DEF Skip, MaybeAuto, Stage, Goto, files, TypeOK, Counted, Idle, Pc
<1>6. ASSUME NEW t \in Proc, FetchLatest(t) \/ Download(t)
      PROVE  TypeOK' /\ Counted' /\ Idle'
  <2>1. CASE FetchLatest(t)
    <3>1. [release |-> latest, whole |-> FALSE] \in File
      BY <1>0 DEF TypeOK, File
    <3>2. target' \in [Proc -> File]
      BY <1>0, <2>1, <3>1 DEF FetchLatest, TypeOK
    <3> QED
      BY <1>0, <2>1, <3>2 DEF FetchLatest, Goto, files, TypeOK, Counted, Idle, Pc
  <2>2. CASE Download(t)
    <3>1. target[t] \in File /\ target[t].release \in Release \cup {0}
      BY <1>0 DEF TypeOK, File
    <3>2. target' \in [Proc -> File]
      BY <1>0, <2>2, <3>1 DEF Download, TypeOK
    <3> QED
      BY <1>0, <2>2, <3>2 DEF Download, Goto, files, TypeOK, Counted, Idle, Pc
  <2> QED
    BY <1>6, <2>1, <2>2
<1>7. ASSUME NEW t \in Proc, MoveAway(t) \/ PutInPlace(t) \/ RollBack(t)
      PROVE  TypeOK' /\ Counted' /\ Idle'
  BY <1>0, <1>7 DEF MoveAway, PutInPlace, RollBack, Renamed, Goto, files, TypeOK,
     Counted, Idle, Pc
<1>8. ASSUME NEW t \in Proc, End(t) PROVE TypeOK' /\ Counted' /\ Idle'
  BY <1>0, <1>8 DEF End, files, TypeOK, Counted, Idle, Pc
<1> QED
  BY <1>1, <1>2, <1>3, <1>4, <1>5, <1>6, <1>7, <1>8 DEF Next, Install

-----------------------------------------------------------------------------
(* Steps that leave the files alone.                                        *)

\* A step that touches no file and brings nobody between the two renames keeps
\* what is said of the files.
LEMMA FilesStand ==
  ASSUME IInv, UNCHANGED files, \A u \in Proc : Swapping(u)' => Swapping(u)
  PROVE  Verified' /\ Recoverable' /\ OneSwap'
BY DEF IInv, files, Verified, Recoverable, OneSwap

\* Who takes no part in a step that touches no file is not affected by it.
LEMMA Bystander ==
  ASSUME IInv, UNCHANGED files, NEW u \in Proc, pc'[u] = pc[u],
         image'[u] = image[u], ver'[u] = ver[u], target'[u] = target[u]
  PROVE  Each(u)'
BY DEF IInv, files, Each, Runs, Swaps, Targets, Swapping, Live

\* Starting, ending, deciding and downloading.
LEMMA QuietStep ==
  ASSUME IInv, NEW t \in Proc,
         \/ Start(t) \/ End(t) \/ Skip(t) \/ MaybeAuto(t) \/ FetchLatest(t)
         \/ Download(t) \/ Stage(t)
  PROVE  Verified' /\ Recoverable' /\ OneSwap' /\ \A u \in Proc : Each(u)'
<1> USE UpdateAssumption
<1>0. TypeOK /\ Each(t) /\ UNCHANGED files
  BY DEF IInv, Start, End, Skip, MaybeAuto, FetchLatest, Download, Stage
<1>1. \A u \in Proc \ {t} : /\ pc'[u] = pc[u] /\ image'[u] = image[u]
                            /\ ver'[u] = ver[u] /\ target'[u] = target[u]
  BY <1>0 DEF TypeOK, Start, End, Skip, MaybeAuto, FetchLatest, Download, Stage, Goto
<1>2. \A u \in Proc \ {t} : Each(u)'
  BY <1>0, <1>1, Bystander
<1>3. Each(t)' /\ ~Swapping(t)'
  <2>1. CASE Start(t)
    <3>1. exe = Whole(exe.release)
      BY <1>0, <2>1 DEF Start, TypeOK, File, Whole
    <3> QED
      BY <1>0, <2>1, <3>1 DEF Start, Goto, TypeOK, files, Each, Runs, Swaps,
         Targets, Swapping, Live
  <2>2. CASE End(t)
    BY <1>0, <2>2 DEF End, TypeOK, Each, Runs, Swaps, Targets, Swapping, Live
  <2>3. CASE Skip(t) \/ MaybeAuto(t) \/ Stage(t)
    BY <1>0, <2>3 DEF Skip, MaybeAuto, Stage, Goto, TypeOK, files, Each, Runs,
       Swaps, Targets, Swapping, Live
  <2>4. CASE FetchLatest(t)
    BY <1>0, <2>4 DEF FetchLatest, newer, Goto, TypeOK, files, Each, Runs,
       Swaps, Targets, Swapping, Live
  <2>5. CASE Download(t)
    <3>1. target[t] \in File /\ target[t].release \in Release \cup {0}
      BY <1>0 DEF TypeOK, File
    <3>2. CASE Goto(t, "download", "run") /\ UNCHANGED target
      BY <1>0, <2>5, <3>2 DEF Download, Goto, TypeOK, files, Each, Runs, Swaps,
         Targets, Swapping, Live
    <3>3. CASE target' = [target EXCEPT ![t] =
                            IF @.release \in Oversize THEN @ ELSE Whole(@.release)]
      <4>1. /\ target'[t].release = target[t].release
            /\ target'[t].whole \/ target'[t].release \in Oversize
        BY <1>0, <3>1, <3>3, Files DEF TypeOK
      <4> QED
        BY <1>0, <2>5, <4>1 DEF Download, Goto, TypeOK, files, Each, Runs, Swaps,
           Targets, Swapping, Live
    <3> QED
      BY <2>5, <3>2, <3>3 DEF Download
  <2> QED
    BY <2>1, <2>2, <2>3, <2>4, <2>5
<1>4. \A u \in Proc : Swapping(u)' => Swapping(u)
  BY <1>1, <1>3 DEF Swapping
<1> QED
  BY <1>0, <1>2, <1>3, <1>4, FilesStand

-----------------------------------------------------------------------------
(* Steps that change the files.                                             *)

\* Removing .old: nobody runs from it, so who removes it runs from a whole
\* executable at its path, and nobody is between the two renames.
LEMMA CleanupStep ==
  ASSUME IInv, NEW t \in Proc, CleanupOld(t)
  PROVE  /\ Verified' /\ Recoverable' /\ OneSwap'
         /\ \A u \in Proc : Each(u)'
         /\ Installed' = Installed
<1>0. TypeOK /\ (\A u \in Proc : Each(u)) /\ pc[t] = "cleanup"
  BY DEF IInv, CleanupOld
<1>a. UNCHANGED <<exe, image, ver, target>>
  BY DEF CleanupOld
<1>b. \A u \in Proc : pc'[u] = pc[u] \/ (u = t /\ pc'[u] = "started")
  <2>0. pc \in [Proc -> Pc]
    BY <1>0 DEF TypeOK
  <2>1. CASE pc' = [pc EXCEPT ![t] = "started"]
    BY <2>0, <2>1
  <2>2. CASE pc' = [pc EXCEPT ![t] = IF tries'[t] = Tries THEN "started" ELSE @]
    BY <2>0, <2>2
  <2> QED
    BY <2>1, <2>2 DEF CleanupOld
<1>1. UNCHANGED <<exe, image, ver, target>>
      /\ \A u \in Proc : pc'[u] = pc[u] \/ (u = t /\ pc'[u] = "started")
  BY <1>a, <1>b
<1>2. CASE old' = old
  <2>1. \A u \in Proc : Swapping(u)' => Swapping(u)
    BY <1>1 DEF Swapping
  <2>2. \A u \in Proc : Each(u)'
    BY <1>0, <1>1, <1>2 DEF Each, Runs, Swaps, Targets, Swapping, Live
  <2> QED
    BY <1>1, <1>2, <2>1, <2>2, FilesStand DEF files, Installed
<1>3. CASE old' = NoFile /\ ~Locked("old")
  <2>1. exe = Whole(ver[t]) /\ ver[t] \in Release \cup {0}
    BY <1>0, <1>3 DEF Each, Runs, Live, Locked, TypeOK
  <2>2. exe.whole /\ exe # NoFile
    BY <2>1, Files
  <2>3. \A u \in Proc : Each(u)' /\ ~Swapping(u)'
    BY <1>0, <1>1, <1>3, <2>2 DEF Each, Runs, Swaps, Targets, Swapping, Live, Locked
  <2> QED
    BY <1>1, <2>2, <2>3 DEF Verified, Recoverable, OneSwap, Installed
<1> QED
  BY <1>2, <1>3 DEF CleanupOld

\* The first rename: who makes it runs from the executable, for nobody runs
\* from .old, so what it moves is whole.
LEMMA MoveAwayStep ==
  ASSUME IInv, NEW t \in Proc, MoveAway(t)
  PROVE  /\ Verified' /\ Recoverable' /\ OneSwap'
         /\ \A u \in Proc : Each(u)'
         /\ Installed' = Installed
<1>0. TypeOK /\ (\A u \in Proc : Each(u)) /\ pc[t] = "moveAway"
  BY DEF IInv, MoveAway, Goto
<1>1. UNCHANGED <<ver, target>> /\ \A u \in Proc \ {t} : pc'[u] = pc[u]
  BY <1>0 DEF MoveAway, Goto, TypeOK
<1>2. CASE Goto(t, "moveAway", "run") /\ UNCHANGED <<files, image>>
  <2>1. pc'[t] = "run" /\ image' = image
    BY <1>0, <1>2 DEF Goto, TypeOK
  <2>2. \A u \in Proc \ {t} : Each(u)'
    BY <1>1, <1>2, <2>1, Bystander
  <2>3. Each(t)'
    BY <1>0, <1>1, <1>2, <2>1 DEF files, Each, Runs, Swaps, Targets, Swapping, Live
  <2>4. \A u \in Proc : Swapping(u)' => Swapping(u)
    BY <1>1, <2>1 DEF Swapping
  <2> QED
    BY <1>2, <2>2, <2>3, <2>4, FilesStand DEF files, Installed
<1>3. CASE /\ Goto(t, "moveAway", "putInPlace")
           /\ exe # NoFile /\ ~Locked("old")
           /\ old' = exe /\ exe' = NoFile /\ Renamed("exe", "old")
  <2>1. exe = Whole(ver[t]) /\ ver[t] \in Release \cup {0}
    BY <1>0, <1>3 DEF Each, Runs, Live, Locked, TypeOK
  <2>2. exe.whole
    BY <2>1, Files
  <2>3. pc'[t] = "putInPlace" /\ (\A u \in Proc : Live(u)' => Live(u))
    BY <1>0, <1>1, <1>3 DEF Goto, TypeOK, Live
  <2>4. \A u \in Proc : Live(u) => image'[u] = "old" /\ old' = Whole(ver'[u])
    BY <1>0, <1>1, <1>3 DEF Each, Runs, Live, Locked, Renamed
  <2>5. \A u \in Proc \ {t} : ~Swapping(u)'
    BY <1>0, <1>1, <1>3 DEF Each, Swaps, Swapping
  <2>6. \A u \in Proc : Runs(u)' /\ Swaps(u)'
    BY <1>3, <2>3, <2>4 DEF Runs, Swaps, Swapping, Live
  <2>7. \A u \in Proc : Targets(u)'
    BY <1>0, <1>1, <2>3 DEF Each, Targets
  <2>8. OneSwap'
    BY <2>5 DEF OneSwap
  <2> QED
    BY <1>3, <2>2, <2>6, <2>7, <2>8 DEF Verified, Recoverable, Installed, Each
<1> QED
  BY <1>2, <1>3 DEF MoveAway

\* The second rename: what comes in place is newer than who brings it, whose
\* own executable is the .old file.
LEMMA PutInPlaceStep ==
  ASSUME IInv, NEW t \in Proc, PutInPlace(t)
  PROVE  /\ Verified' /\ Recoverable' /\ OneSwap'
         /\ \A u \in Proc : Each(u)'
         /\ Installed' = Installed \/ (Installed' \in Release /\ Installed' > Installed)
<1> USE UpdateAssumption
<1>0. /\ TypeOK /\ OneSwap /\ (\A u \in Proc : Each(u))
      /\ pc[t] = "putInPlace" /\ Swapping(t)
  BY DEF IInv, PutInPlace, Goto, Swapping
<1>1. UNCHANGED <<old, image, ver, target>> /\ \A u \in Proc \ {t} : pc'[u] = pc[u]
  BY <1>0 DEF PutInPlace, Goto, TypeOK
<1>2. exe = NoFile /\ image[t] = "old" /\ old = Whole(ver[t])
      /\ ver[t] \in Release \cup {0}
  BY <1>0 DEF Each, Runs, Swaps, Live, TypeOK
<1>3. old.whole /\ old.release = ver[t]
  BY <1>2, Files
<1>4. \A u \in Proc \ {t} : ~Swapping(u)
  BY <1>0 DEF OneSwap
<1>5. CASE Goto(t, "putInPlace", "rollBack") /\ UNCHANGED exe
  <2>1. pc'[t] = "rollBack"
    BY <1>0, <1>5 DEF Goto, TypeOK
  <2>2. \A u \in Proc : Swapping(u)' => Swapping(u)
    BY <1>0, <1>1 DEF Swapping
  <2>3. \A u \in Proc : Each(u)'
    BY <1>0, <1>1, <1>2, <1>5, <2>1 DEF Each, Runs, Swaps, Targets, Swapping, Live
  <2>4. Verified' /\ Recoverable' /\ OneSwap'
    BY <1>1, <1>5, <2>2, FilesStand DEF files
  <2>5. Installed' = Installed
    BY <1>1, <1>5 DEF Installed
  <2> QED
    BY <2>3, <2>4, <2>5
<1>6. CASE Goto(t, "putInPlace", "installed") /\ ~Locked("exe") /\ exe' = target[t]
  <2>1. pc'[t] = "installed"
    BY <1>0, <1>6 DEF Goto, TypeOK
  <2>2. /\ target[t].release \in Release /\ target[t].release > ver[t]
        /\ target[t].whole \/ target[t].release \in Oversize
    BY <1>0 DEF Each, Targets
  <2>3. exe' # NoFile
    BY <1>6, <2>2, Files
  <2>4. \A u \in Proc : Live(u)' => Live(u) /\ image'[u] = "old"
    BY <1>0, <1>1, <1>6 DEF Live, Locked, TypeOK
  <2>5. \A u \in Proc : ~Swapping(u)'
    BY <1>1, <1>4, <2>1 DEF Swapping
  <2>6. \A u \in Proc : Each(u)'
    BY <1>0, <1>1, <2>1, <2>4, <2>5 DEF Each, Runs, Swaps, Targets
  <2> QED
    BY <1>1, <1>2, <1>3, <1>6, <2>2, <2>3, <2>5, <2>6
       DEF Verified, Recoverable, OneSwap, Installed
<1> QED
  BY <1>5, <1>6 DEF PutInPlace

\* The rollback brings back the version it was made from, or leaves it in .old.
LEMMA RollBackStep ==
  ASSUME IInv, NEW t \in Proc, RollBack(t)
  PROVE  /\ Verified' /\ Recoverable' /\ OneSwap'
         /\ \A u \in Proc : Each(u)'
         /\ Installed' = Installed
<1>0. /\ TypeOK /\ OneSwap /\ (\A u \in Proc : Each(u))
      /\ pc[t] = "rollBack" /\ Swapping(t)
  BY DEF IInv, RollBack, Goto, Swapping
<1>1. UNCHANGED <<ver, target>> /\ (\A u \in Proc \ {t} : pc'[u] = pc[u])
      /\ pc'[t] = "run"
  BY <1>0 DEF RollBack, Goto, TypeOK
<1>2. exe = NoFile /\ image[t] = "old" /\ old = Whole(ver[t])
      /\ ver[t] \in Release \cup {0}
  BY <1>0 DEF Each, Runs, Swaps, Live, TypeOK
<1>3. old.whole /\ old # NoFile
  BY <1>2, Files
<1>4. \A u \in Proc : ~Swapping(u)'
  BY <1>0, <1>1 DEF OneSwap, Swapping
<1>5. \A u \in Proc : (Live(u)' => Live(u)) /\ Targets(u)'
  BY <1>0, <1>1 DEF Live, Each, Targets
<1>6. CASE UNCHANGED <<files, image>>
  <2>1. \A u \in Proc : Each(u)'
    BY <1>0, <1>1, <1>4, <1>5, <1>6 DEF files, Each, Runs, Swaps
  <2>2. \A u \in Proc : Swapping(u)' => Swapping(u)
    BY <1>4
  <2> QED
    BY <1>6, <2>1, <2>2, FilesStand DEF files, Installed
<1>7. CASE ~Locked("exe") /\ exe' = old /\ old' = NoFile /\ Renamed("old", "exe")
  <2>1. \A u \in Proc : Live(u) => image'[u] = "exe" /\ exe' = Whole(ver'[u])
    BY <1>0, <1>1, <1>7 DEF Each, Runs, Live, Locked, Renamed
  <2>2. \A u \in Proc : Each(u)'
    BY <1>4, <1>5, <2>1 DEF Each, Runs, Swaps
  <2> QED
    BY <1>2, <1>3, <1>4, <1>7, <2>2 DEF Verified, Recoverable, OneSwap, Installed
<1> QED
  BY <1>6, <1>7 DEF RollBack

-----------------------------------------------------------------------------
(* The theorems.                                                            *)

LEMMA InvStep ==
  ASSUME IInv, [Next]_vars
  PROVE  /\ IInv'
         /\ \/ Installed' = Installed
            \/ Installed' \in Release /\ Installed' > Installed
<1>1. TypeOK' /\ Counted' /\ Idle'
  BY TypeStep
<1>2. CASE UNCHANGED vars \/ Publish
  <2>1. UNCHANGED <<files, pc, image, ver, target>>
    BY <1>2 DEF vars, Publish
  <2>2. \A u \in Proc : Each(u)' /\ (Swapping(u)' => Swapping(u))
    BY <2>1, Bystander DEF Swapping
  <2> QED
    BY <1>1, <2>1, <2>2, FilesStand DEF IInv, files, Installed
<1>3. ASSUME NEW t \in Proc,
             \/ Start(t) \/ End(t) \/ Skip(t) \/ MaybeAuto(t) \/ FetchLatest(t)
             \/ Download(t) \/ Stage(t)
      PROVE  IInv' /\ Installed' = Installed
  <2>1. UNCHANGED files
    BY <1>3 DEF Start, End, Skip, MaybeAuto, FetchLatest, Download, Stage
  <2> QED
    BY <1>1, <1>3, <2>1, QuietStep DEF IInv, files, Installed
<1>4. ASSUME NEW t \in Proc, CleanupOld(t) PROVE IInv' /\ Installed' = Installed
  BY <1>1, <1>4, CleanupStep DEF IInv
<1>5. ASSUME NEW t \in Proc, MoveAway(t) PROVE IInv' /\ Installed' = Installed
  BY <1>1, <1>5, MoveAwayStep DEF IInv
<1>6. ASSUME NEW t \in Proc, PutInPlace(t)
      PROVE  /\ IInv'
             /\ Installed' = Installed \/ (Installed' \in Release /\ Installed' > Installed)
  BY <1>1, <1>6, PutInPlaceStep DEF IInv
<1>7. ASSUME NEW t \in Proc, RollBack(t) PROVE IInv' /\ Installed' = Installed
  BY <1>1, <1>7, RollBackStep DEF IInv
<1> QED
  BY <1>2, <1>3, <1>4, <1>5, <1>6, <1>7 DEF Next, Install

\* The invariant of the self-update, in every reachable state.
THEOREM Invariance == Spec => []IInv
BY InvInit, InvStep, PTL DEF Spec

\* Every variable keeps its type, and CleanupOld tries no more often than it
\* says.
THEOREM TypeCorrect == Spec => []TypeOK
<1>1. IInv => TypeOK
  BY DEF IInv
<1> QED
  BY <1>1, Invariance, PTL

\* At every moment, whatever process has died and wherever, a whole executable
\* is at its path or in .old.
THEOREM RecoverableTheorem == Spec => []Recoverable
<1>1. IInv => Recoverable
  BY DEF IInv
<1> QED
  BY <1>1, Invariance, PTL

\* Nothing but a whole, verified release comes to the path of the executable,
\* releases too long for maxZipSize excepted.
THEOREM VerifiedTheorem == Spec => []Verified
<1>1. IInv => Verified
  BY DEF IInv
<1> QED
  BY <1>1, Invariance, PTL

\* No two processes have an executable moved away at the same time.
THEOREM OneSwapTheorem == Spec => []OneSwap
<1>1. IInv => OneSwap
  BY DEF IInv
<1> QED
  BY <1>1, Invariance, PTL

\* The installed version only goes up: Update implements Installing.
THEOREM Refinement == Spec => NeverDowngrades
<1>1. Init => Promise!Init
  BY Files DEF Init, Promise!Init
<1>2. IInv /\ [Next]_vars => [Promise!Upgrade]_(IF exe = NoFile THEN old.release ELSE exe.release)
  BY InvStep DEF Promise!Upgrade, Installed
<1> QED
  BY <1>1, <1>2, Invariance, PTL DEF Spec, NeverDowngrades, Promise!Spec

-----------------------------------------------------------------------------
(* Where the processes are on the way up.                                   *)

\* No process is newer than what is installed, and who has installed an update
\* is older.
Behind(t) == ver[t] <= Installed /\ (pc[t] = "installed" => ver[t] < Installed)

\* Versions and what is installed are numbers.
LEMMA Numbers ==
  ASSUME TypeOK
  PROVE  Installed \in Nat /\ \A t \in Proc : ver[t] \in Nat
<1>1. exe.release \in Release \cup {0} /\ old.release \in Release \cup {0}
  BY DEF TypeOK, File
<1>2. \A t \in Proc : ver[t] \in Release \cup {0}
  BY DEF TypeOK
<1>3. Installed \in {exe.release, old.release}
  BY DEF Installed
<1>4. \A r \in Release \cup {0} : r \in Nat
  BY UpdateAssumption
<1> QED
  BY <1>1, <1>2, <1>3, <1>4

\* What a step makes of a process's version and of its place at the end.
LEMMA VersionStep ==
  ASSUME IInv, [Next]_vars, NEW u \in Proc
  PROVE  \/ ver'[u] = ver[u] /\ (pc'[u] = "installed" => pc[u] = "installed")
         \/ ver'[u] = 0 /\ pc'[u] = "off"
         \/ ver'[u] = Installed /\ pc'[u] = "cleanup"
         \/ ver'[u] = ver[u] /\ ver[u] < Installed'
<1>0. TypeOK /\ \A t \in Proc : Each(t)
  BY DEF IInv
<1> USE DEF Goto
<1>1. CASE UNCHANGED vars \/ Publish
  BY <1>1 DEF vars, Publish
<1>2. ASSUME NEW t \in Proc, Start(t)
      PROVE  IF u = t THEN ver'[u] = Installed /\ pc'[u] = "cleanup"
                      ELSE ver'[u] = ver[u] /\ pc'[u] = pc[u]
  <2>1. ver'[t] = exe.release /\ exe # NoFile
    BY <1>0, <1>2, Files DEF Start, TypeOK
  <2> QED
    BY <1>0, <1>2, <2>1 DEF Start, TypeOK, Installed
<1>3. ASSUME NEW t \in Proc, End(t)
      PROVE  IF u = t THEN ver'[u] = 0 /\ pc'[u] = "off"
                      ELSE ver'[u] = ver[u] /\ pc'[u] = pc[u]
  BY <1>0, <1>3 DEF End, TypeOK
<1>4. ASSUME NEW t \in Proc,
             \/ CleanupOld(t) \/ Skip(t) \/ MaybeAuto(t) \/ FetchLatest(t)
             \/ Download(t) \/ Stage(t) \/ MoveAway(t) \/ RollBack(t)
      PROVE  ver'[u] = ver[u] /\ (pc'[u] = "installed" => pc[u] = "installed")
  <2>1. ver' = ver
    BY <1>4 DEF CleanupOld, Skip, MaybeAuto, FetchLatest, Download, Stage, MoveAway,
       RollBack
  <2>2. CASE CleanupOld(t)
    <3>1. \/ pc' = [pc EXCEPT ![t] = "started"]
          \/ pc' = [pc EXCEPT ![t] = pc[t]]
      BY <2>2 DEF CleanupOld
    <3> QED
      BY <1>0, <2>1, <3>1 DEF TypeOK
  <2>3. CASE MaybeAuto(t)
    <3>1. pc' = [pc EXCEPT ![t] = "fetch"] \/ pc' = [pc EXCEPT ![t] = "run"]
      BY <2>3 DEF MaybeAuto
    <3> QED
      BY <1>0, <2>1, <3>1 DEF TypeOK
  <2>4. CASE ~CleanupOld(t) /\ ~MaybeAuto(t)
    <3>1. \E v \in Pc \ {"installed"} : pc' = [pc EXCEPT ![t] = v]
      BY <1>4, <2>4 DEF Pc, Skip, FetchLatest, Download, Stage, MoveAway, RollBack
    <3> QED
      BY <1>0, <2>1, <3>1 DEF TypeOK
  <2> QED
    BY <2>2, <2>3, <2>4
<1>5. ASSUME NEW t \in Proc, PutInPlace(t)
      PROVE  /\ ver'[u] = ver[u]
             /\ (pc'[u] = "installed" => pc[u] = "installed") \/ ver[u] < Installed'
  <2>1. ver' = ver
    BY <1>5 DEF PutInPlace
  <2>2. CASE u # t
    BY <1>0, <1>5, <2>1, <2>2 DEF PutInPlace, TypeOK
  <2>3. CASE u = t
    <3>1. CASE exe' = target[t]
      <4>1. target[t].release \in Release /\ target[t].release > ver[t]
        BY <1>0, <1>5 DEF PutInPlace, Each, Targets
      <4>2. exe' # NoFile
        BY <3>1, <4>1, Files, UpdateAssumption
      <4>3. Installed' = target[t].release
        BY <3>1, <4>2 DEF Installed
      <4> QED
        BY <1>0, <2>1, <2>3, <4>1, <4>3, Numbers, UpdateAssumption
    <3>2. CASE pc' = [pc EXCEPT ![t] = "rollBack"]
      BY <1>0, <2>1, <2>3, <3>2 DEF TypeOK
    <3> QED
      BY <1>5, <3>1, <3>2 DEF PutInPlace
  <2> QED
    BY <2>2, <2>3
<1> QED
  BY <1>1, <1>2, <1>3, <1>4, <1>5 DEF Next, Install

\* However many processes update, end and start: none of them runs a release
\* newer than the one a start would run, and one that has installed an update
\* hands over to a newer one, whatever was installed over it since.
THEOREM BehindTheorem == Spec => [](\A t \in Proc : Behind(t))
<1> DEFINE AllBehind == \A t \in Proc : Behind(t)
<1>1. Init => AllBehind
  <2> SUFFICES ASSUME Init, NEW t \in Proc PROVE Behind(t)
    OBVIOUS
  <2>1. ver[t] = 0 /\ pc[t] = "off"
    BY DEF Init
  <2>2. Installed \in Nat
    BY InvInit, Numbers DEF IInv
  <2> QED
    BY <2>1, <2>2 DEF Behind
<1>2. IInv /\ AllBehind /\ [Next]_vars => AllBehind'
  <2> SUFFICES ASSUME IInv, AllBehind, [Next]_vars, NEW u \in Proc
               PROVE  Behind(u)'
    OBVIOUS
  <2>1. IInv' /\ (Installed' = Installed \/ Installed' > Installed)
    BY InvStep
  <2>2. /\ Installed \in Nat /\ ver[u] \in Nat /\ Installed' \in Nat
        /\ Installed <= Installed'
    <3>1. Installed \in Nat /\ ver[u] \in Nat
      BY Numbers DEF IInv
    <3>2. Installed' \in Nat
      BY <3>1, InvStep, UpdateAssumption
    <3> QED
      BY <2>1, <3>1, <3>2
  <2>3. Behind(u)
    OBVIOUS
  <2> HIDE DEF AllBehind
  <2> QED
    BY <2>2, <2>3, VersionStep DEF Behind
<1> HIDE DEF AllBehind
<1>3. Spec => []AllBehind
  BY <1>1, <1>2, Invariance, PTL DEF Spec
<1> QED
  BY <1>3 DEF AllBehind
=============================================================================
