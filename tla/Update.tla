------------------------------- MODULE Update -------------------------------
(***************************************************************************)
(* The self-update of internal/update: what several processes of the tool, *)
(* started from one directory, do to the executable and to the .old file   *)
(* beside it.  Every process may end or die at every step.                 *)
(*                                                                         *)
(* Windows is external: the file a process runs from can be renamed, and   *)
(* the process goes on running from the renamed file, but it can be        *)
(* neither deleted nor replaced by another file.                           *)
(***************************************************************************)
EXTENDS Naturals

CONSTANTS
  Proc,      \* processes of the tool; a slot is used again when it is free
  Release,   \* releases by number; 0 is a build without a version ("dev")
  Oversize,  \* releases whose executable is longer than maxZipSize
  Tries      \* how often CleanupOld tries

ASSUME UpdateAssumption ==
  /\ Release \subseteq Nat \ {0} /\ Oversize \subseteq Release
  /\ Tries \in Nat \ {0}

VARIABLES
  exe,     \* the file at the path of the executable
  old,     \* the file with the suffix .old
  latest,  \* the release GitHub calls the latest
  pc,      \* where each process is
  image,   \* the file it runs from, which renames of that file change
  ver,     \* its version, compiled in
  target,  \* the release it is installing; whole when newBin is complete
  tries    \* removals of .old it has tried

files == <<exe, old>>
vars == <<files, latest, pc, image, ver, target, tries>>

File == [release : Release \cup {0}, whole : BOOLEAN]
Whole(r) == [release |-> r, whole |-> TRUE]
NoFile == [release |-> 0, whole |-> FALSE]

Live(t) == pc[t] # "off"
Locked(f) == \E t \in Proc : Live(t) /\ image[t] = f

Init ==
  /\ exe \in {Whole(r) : r \in Release \cup {0}} /\ old = NoFile
  /\ latest \in Release
  /\ pc = [t \in Proc |-> "off"] /\ image = [t \in Proc |-> "exe"]
  /\ ver = [t \in Proc |-> 0] /\ target = [t \in Proc |-> NoFile]
  /\ tries = [t \in Proc |-> 0]

Goto(t, from, to) == pc[t] = from /\ pc' = [pc EXCEPT ![t] = to]

-----------------------------------------------------------------------------
(* The processes and GitHub.                                                *)

\* Windows starts a process from the path of the executable, whoever asks.
Start(t) ==
  /\ exe.whole
  /\ Goto(t, "off", "cleanup")
  /\ image' = [image EXCEPT ![t] = "exe"]
  /\ ver' = [ver EXCEPT ![t] = exe.release]
  /\ UNCHANGED <<files, latest, target, tries>>

\* The process ends: it returns from main, or it is killed.
End(t) ==
  /\ Live(t)
  /\ pc' = [pc EXCEPT ![t] = "off"]
  /\ image' = [image EXCEPT ![t] = "exe"] /\ ver' = [ver EXCEPT ![t] = 0]
  /\ target' = [target EXCEPT ![t] = NoFile] /\ tries' = [tries EXCEPT ![t] = 0]
  /\ UNCHANGED <<files, latest>>

\* Another release becomes the latest; withdrawing one may make it an older.
Publish ==
  /\ latest' \in Release \ {latest}
  /\ UNCHANGED <<files, pc, image, ver, target, tries>>

-----------------------------------------------------------------------------
(* CleanupOld.                                                              *)

\* Fault: one removal too many is tried.
CleanupOldOnceMore(t) ==
  /\ pc[t] = "cleanup"
  /\ \/ /\ old = NoFile \/ ~Locked("old")
        /\ old' = NoFile /\ pc' = [pc EXCEPT ![t] = "started"]
        /\ UNCHANGED tries
     \/ /\ old # NoFile
        /\ tries' = [tries EXCEPT ![t] = @ + 1]
        /\ pc' = [pc EXCEPT ![t] = IF tries'[t] > Tries THEN "started" ELSE @]
        /\ UNCHANGED old
  /\ UNCHANGED <<exe, latest, image, ver, target>>

\* One turn of the loop: no file, a file removed, or a failed removal.
CleanupOld(t) ==
  /\ pc[t] = "cleanup"
  /\ \/ /\ old = NoFile \/ ~Locked("old")
        /\ old' = NoFile /\ pc' = [pc EXCEPT ![t] = "started"]
        /\ UNCHANGED tries
     \/ /\ old # NoFile
        /\ tries' = [tries EXCEPT ![t] = @ + 1]
        /\ pc' = [pc EXCEPT ![t] = IF tries'[t] = Tries THEN "started" ELSE @]
        /\ UNCHANGED old
  /\ UNCHANGED <<exe, latest, image, ver, target>>

-----------------------------------------------------------------------------
(* MaybeAuto and apply.                                                     *)

checkable(v) == v # 0

\* Fault: the same version counts as newer.
newerOrSame(release, v) == release >= v

newer(release, v) == release > v

\* main goes on to app.Run without an update.
Skip(t) ==
  /\ Goto(t, "started", "run")
  /\ UNCHANGED <<files, latest, image, ver, target, tries>>

MaybeAuto(t) ==
  /\ Goto(t, "started", IF checkable(ver[t]) THEN "fetch" ELSE "run")
  /\ UNCHANGED <<files, latest, image, ver, target, tries>>

\* The answer of the API may be an error, or what is installed.
FetchLatest(t) ==
  /\ \/ /\ newer(latest, ver[t])
        /\ Goto(t, "fetch", "download")
        /\ target' = [target EXCEPT ![t] = [release |-> latest, whole |-> FALSE]]
     \/ Goto(t, "fetch", "run") /\ UNCHANGED target
  /\ UNCHANGED <<files, latest, image, ver, tries>>

\* Fault: the checksum is not compared.
DownloadUnverified(t) ==
  /\ Goto(t, "download", "stage")
  /\ \E intact \in BOOLEAN : target' = [target EXCEPT ![t].whole = intact]
  /\ UNCHANGED <<files, latest, image, ver, tries>>

\* ensureWritable and downloadUpdate.  A zip that is not the published one
\* fails verifyChecksum; exeFromZip cuts a longer executable without a word.
Download(t) ==
  /\ \/ /\ Goto(t, "download", "stage")
        /\ target' = [target EXCEPT ![t] =
                        IF @.release \in Oversize THEN @ ELSE Whole(@.release)]
     \/ Goto(t, "download", "run") /\ UNCHANGED target
  /\ UNCHANGED <<files, latest, image, ver, tries>>

-----------------------------------------------------------------------------
(* replace.                                                                 *)

\* The new executable is written to a temporary file that nobody else uses.
Stage(t) ==
  /\ Goto(t, "stage", "moveAway") \/ Goto(t, "stage", "run")
  /\ UNCHANGED <<files, latest, image, ver, target, tries>>

\* Who runs from file f runs from file g once f has been renamed to g.
Renamed(f, g) ==
  image' = [t \in Proc |-> IF Live(t) /\ image[t] = f THEN g ELSE image[t]]

\* Faults: an .old file in use is itself moved out of the way first; that there
\* is nothing to move is not an error.
MoveAwayTwice(t) ==
  /\ \/ /\ Goto(t, "moveAway", "putInPlace")
        /\ exe # NoFile
        /\ old' = exe /\ exe' = NoFile /\ Renamed("exe", "old")
     \/ Goto(t, "moveAway", "run") /\ UNCHANGED <<files, image>>
  /\ UNCHANGED <<latest, ver, target, tries>>

MoveAwayIfAny(t) ==
  /\ \/ /\ Goto(t, "moveAway", "putInPlace")
        /\ \/ exe = NoFile /\ UNCHANGED <<files, image>>
           \/ /\ exe # NoFile /\ ~Locked("old")
              /\ old' = exe /\ exe' = NoFile /\ Renamed("exe", "old")
     \/ Goto(t, "moveAway", "run") /\ UNCHANGED <<files, image>>
  /\ UNCHANGED <<latest, ver, target, tries>>

\* exe becomes .old, replacing one that nobody runs from.
MoveAway(t) ==
  /\ \/ /\ Goto(t, "moveAway", "putInPlace")
        /\ exe # NoFile /\ ~Locked("old")
        /\ old' = exe /\ exe' = NoFile /\ Renamed("exe", "old")
     \/ Goto(t, "moveAway", "run") /\ UNCHANGED <<files, image>>
  /\ UNCHANGED <<latest, ver, target, tries>>

PutInPlace(t) ==
  /\ \/ Goto(t, "putInPlace", "installed") /\ ~Locked("exe") /\ exe' = target[t]
     \/ Goto(t, "putInPlace", "rollBack") /\ UNCHANGED exe
  /\ UNCHANGED <<old, latest, image, ver, target, tries>>

\* The result of the rollback is ignored.
RollBack(t) ==
  /\ Goto(t, "rollBack", "run")
  /\ \/ /\ old # NoFile /\ ~Locked("exe")
        /\ exe' = old /\ old' = NoFile /\ Renamed("old", "exe")
     \/ UNCHANGED <<files, image>>
  /\ UNCHANGED <<latest, ver, target, tries>>

Install(t) ==
  \/ FetchLatest(t) \/ Download(t) \/ Stage(t) \/ MoveAway(t) \/ PutInPlace(t)
  \/ RollBack(t)

Next ==
  \/ Publish
  \/ \E t \in Proc : \/ Start(t) \/ CleanupOld(t) \/ Skip(t) \/ MaybeAuto(t)
                     \/ Install(t) \/ End(t)

Spec == Init /\ [][Next]_vars

-----------------------------------------------------------------------------
(* Properties.                                                              *)

Pc == {"off", "cleanup", "started", "fetch", "download", "stage", "moveAway",
       "putInPlace", "rollBack", "installed", "run"}

\* Every variable keeps its type.
TypeOK ==
  /\ exe \in File /\ old \in File /\ latest \in Release
  /\ pc \in [Proc -> Pc] /\ image \in [Proc -> {"exe", "old"}]
  /\ ver \in [Proc -> Release \cup {0}] /\ target \in [Proc -> File]
  /\ tries \in [Proc -> 0 .. Tries]

\* Whatever process dies between whatever two renames, and whatever other
\* processes clean up, update or start meanwhile: a whole executable is at its
\* path or in the .old file.
Recoverable == exe.whole \/ old.whole

\* What is at the path of the executable is a whole, verified release; the one
\* exception is a release that does not fit into maxZipSize, which exeFromZip
\* cuts.
Verified == exe # NoFile /\ ~exe.whole => exe.release \in Oversize

\* Two processes never have an executable moved away at the same time: the
\* second rename and the rollback of one cannot undo the other's update.
Swapping(t) == pc[t] \in {"putInPlace", "rollBack"}
OneSwap == \A t, u \in Proc : Swapping(t) /\ Swapping(u) => t = u

\* The installed version never goes back, even when an older process that
\* decided on an older release finishes its download after a newer release was
\* installed under it, or when a rollback puts a file back.
Promise == INSTANCE Installing WITH
  installed <- IF exe = NoFile THEN old.release ELSE exe.release
NeverDowngrades == Promise!Spec
=============================================================================
