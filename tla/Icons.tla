-------------------------------- MODULE Icons --------------------------------
(***************************************************************************)
(* internal/tray, tray_windows.go: which image of an .ico file the tray    *)
(* icon is made from.  A file is its length, the number of images it       *)
(* claims and its directory; an entry of the directory holds the width     *)
(* byte and the end of its image, offset plus size.                        *)
(***************************************************************************)
EXTENDS Integers, Sequences

Header == 6
EntrySize == 16

Entry == [width : 0 .. 255, end : Nat]

\* The directory has an entry for each image claimed, those beyond the end of
\* the file included.
IsFile(ico) == ico \in [len : Nat, count : Nat, dir : [1 .. ico.count -> Entry]]

\* Width byte 0 stands for 256.
Width(entry) == IF entry.width = 0 THEN 256 ELSE entry.width

Distance(entry, want) ==
  IF Width(entry) < want THEN want - Width(entry) ELSE Width(entry) - want

\* The entries the loop considers: inside the file, and so are their images.
Usable(ico) ==
  {i \in 1 .. ico.count : /\ Header + EntrySize * i <= ico.len
                          /\ ico.dir[i].end <= ico.len}

\* Fault: the first of two images equally far away is kept.
BetterFirst(entry, best, want) == Distance(entry, want) < Distance(best, want)

\* On a tie the larger image wins.
Better(entry, best, want) ==
  \/ Distance(entry, want) < Distance(best, want)
  \/ Distance(entry, want) = Distance(best, want) /\ Width(entry) > Width(best)

\* The loop over the directory, after each of its turns: the best image so far.
Picking(ico, want) ==
  LET best[i \in 0 .. ico.count] ==
        IF i = 0 THEN {}
        ELSE IF i \in Usable(ico) /\ \A b \in best[i - 1] : Better(ico.dir[i], b, want)
          THEN {ico.dir[i]}
        ELSE best[i - 1]
  IN  best

\* The image, or nothing when the file is too short or has none to use.
pickIconEntry(ico, want) ==
  IF ico.len < Header THEN {} ELSE Picking(ico, want)[ico.count]

-----------------------------------------------------------------------------
(* Properties.                                                              *)

\* The image picked lies inside the file and none of the others that do has a
\* width closer to the one wanted, or as close and larger; there is one
\* whenever the file has an image to use, however many more it claims.
PicksClosest(ico, want) ==
  LET picked == pickIconEntry(ico, want)
      images == {ico.dir[i] : i \in Usable(ico)}
  IN  /\ picked \subseteq images
      /\ picked = {} => images = {}
      /\ \A p \in picked, e \in images :
           /\ Distance(p, want) <= Distance(e, want)
           /\ Distance(p, want) = Distance(e, want) => Width(p) >= Width(e)
=============================================================================
