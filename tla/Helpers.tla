------------------------------- MODULE Helpers -------------------------------
(***************************************************************************)
(* The parsers and comparisons of Tables, Versions, Bindings and Icons     *)
(* called one at a time: a state is one input of one of them.              *)
(***************************************************************************)
EXTENDS Tables, Versions, Bindings, Icons

CONSTANTS
  Processes,  \* sets of process ids FindByName returns
  Queries,    \* what the calls of GetExtendedTcpTable find, by family
  Tags,       \* tags of releases and of the build
  Texts,      \* texts of -hotkey
  Keys,       \* the keys in them
  Files,      \* .ico files
  Sizes       \* sizes of a tray icon

ASSUME HelpersAssumption ==
  /\ Queries \subseteq [Families -> Query]
  /\ Tags \subseteq Tag
  /\ Texts \subseteq Seq(PartOfText) /\ Keys \subseteq Key
  /\ \A ico \in Files : IsFile(ico)
  /\ Sizes \subseteq Nat

VARIABLES
  helper,  \* "idle" or the helper called last
  input    \* its arguments

hvars == <<helper, input>>

HelperInit == helper = "idle" /\ input = <<>>

CallTable ==
  /\ helper = "idle" /\ helper' = "table"
  /\ \E procs \in Processes, queries \in Queries :
       input' = [procs |-> procs, queries |-> queries]

CallEntries ==
  /\ helper = "idle" /\ helper' = "entries"
  /\ \E len \in 0 .. Word - 1, count \in 0 .. Word - 1 :
       input' = [len |-> len, count |-> count]

CallVersions ==
  /\ helper = "idle" /\ helper' = "versions"
  /\ \E x, y, z \in Tags : input' = <<x, y, z>>

CallParse == helper = "idle" /\ helper' = "parse" /\ input' \in Texts

CallVirtualKey == helper = "idle" /\ helper' = "virtualKey" /\ input' \in Keys

CallIcon ==
  /\ helper = "idle" /\ helper' = "icon"
  /\ \E ico \in Files, want \in Sizes : input' = [ico |-> ico, want |-> want]

HelperNext ==
  CallTable \/ CallEntries \/ CallVersions \/ CallParse \/ CallVirtualKey \/ CallIcon

HelperSpec == HelperInit /\ [][HelperNext]_hvars

-----------------------------------------------------------------------------
(* Properties.                                                              *)

\* A table that changes while it is read costs -list nothing without a warning
\* (NoSilentLoss of Tables).
ListIsWhole == helper = "table" => NoSilentLoss(input.procs, input.queries)

\* No count of entries makes the parsers read beyond their buffer.
RowsInBounds ==
  helper = "entries" => \A f \in Families : InBounds(input.len, input.count, RowSize[f])

\* Versions are ordered (Ordered of Versions).
VersionsOrdered == helper = "versions" => Ordered(input[1], input[2], input[3])

\* Parse accepts what names one key, with all of its modifiers.
BindingIsMeant == helper = "parse" => Parse(input) = Meant(input)

\* No two keys share a virtual key.
VirtualKeysApart == helper = "virtualKey" => KeysApart(input, Keys)

\* The image closest to the wanted size is picked.
IconIsClosest == helper = "icon" => PicksClosest(input.ico, input.want)
=============================================================================
