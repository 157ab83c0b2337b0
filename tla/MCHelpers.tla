------------------------------ MODULE MCHelpers ------------------------------
(***************************************************************************)
(* Bounded inputs of Helpers for TLC.                                      *)
(***************************************************************************)
EXTENDS Helpers, SequencesExt

Minus == -1  \* NotANumber

MCProcesses == {{}, {1}}

\* The first call answers 0 or the size of a table of up to two rows, the
\* table that is read has up to two rows, of two processes.
SizesOf(family) == {0} \cup {4 + RowSize[family] * n : n \in 0 .. 2}
MCRows == [OwningPID : 1 .. 2, RemotePort : {1, 6, 13}]
QueriesOf(family) ==
  [size : SizesOf(family), fails : {"neither", "first", "second"},
   table : BoundedSeq(MCRows, 2)]
MCQueries ==
  {[IPv4 |-> four, IPv6 |-> six] : four \in QueriesOf("IPv4"), six \in QueriesOf("IPv6")}

\* Fields around the boundary of int, and a text.
Fields == {NotANumber, 0, 1, MaxInt, MaxInt + 1}
MCTags ==
  [fields : BoundedSeq(Fields, 2) \ {<<>>}, suffix : {FALSE}]
  \cup [fields : BoundedSeq(Fields, 1) \ {<<>>}, suffix : {TRUE}]

HotkeyParts ==
  [kind : {"modifier"}, n : {1, 2}] \cup {Empty, [kind |-> "letter", n |-> 108]}
  \cup [kind : {"f"}, n : {24, 25}]
MCTexts == BoundedSeq(HotkeyParts, 4)

MCKeys ==
  [kind : {"letter"}, n : 97 .. 122] \cup [kind : {"digit"}, n : 48 .. 57]
  \cup [kind : {"f"}, n : -1 .. 30] \cup [kind : {"named"}, n : {32, 9, 27, 13}]
  \cup {[kind |-> "other", n |-> 0]}

\* Files cut inside the header, the directory and the images.
Lengths == {5, 6, 22, 37, 38, 54, 60}
Entries == [width : {0, 16, 32}, end : {38, 60, 61}]
MCFiles ==
  {[len |-> len, count |-> Len(dir), dir |-> dir] :
     len \in Lengths, dir \in BoundedSeq(Entries, 3)}
=============================================================================
