------------------------------ MODULE Bindings ------------------------------
(***************************************************************************)
(* internal/hotkey, hotkey_windows.go: how the text of -hotkey becomes a   *)
(* binding.  The text is the list of its parts between the plus signs,     *)
(* trimmed and in lower case; what a part is stands in its kind, and n is  *)
(* the flag of a modifier, the ASCII code of a character, the number after *)
(* the "f" as Sscanf reads it or the virtual key of a named key.           *)
(***************************************************************************)
EXTENDS Integers, Sequences

\* An empty part, and the parts that name a key or try to.
Empty == [kind |-> "empty", n |-> 0]
Key ==
  [kind : {"letter"}, n : 97 .. 122] \cup [kind : {"digit"}, n : 48 .. 57]
  \cup [kind : {"f"}, n : Int] \cup [kind : {"named"}, n : {32, 9, 27, 13}]
  \cup {[kind |-> "other", n |-> 0]}

\* The flags of MOD_ALT, MOD_CONTROL, MOD_SHIFT and MOD_WIN.
PartOfText == Key \cup {Empty} \cup [kind : {"modifier"}, n : {1, 2, 4, 8}]
modNoRepeat == 16384

\* Fault: letters keep their lower case.
virtualKeyLower(key) ==
  CASE key.kind \in {"letter", "digit", "named"} -> {key.n}
    [] key.kind = "f" -> {112 + n - 1 : n \in {key.n} \cap 1 .. 24}
    [] OTHER -> {}

\* The virtual key, or nothing when the key is not supported.
virtualKey(key) ==
  CASE key.kind = "letter" -> {key.n - 97 + 65}
    [] key.kind \in {"digit", "named"} -> {key.n}
    [] key.kind = "f" -> {112 + n - 1 : n \in {key.n} \cap 1 .. 24}
    [] OTHER -> {}

\* Fault: the last of several keys counts.
ReadPartLast(st, p) ==
  IF p.kind = "modifier" THEN [st EXCEPT !.mods = @ \cup {p.n}]
                         ELSE [st EXCEPT !.key = p]

\* One turn of the loop.  An empty part does not count as a key.
ReadPart(st, p) ==
  IF p.kind = "modifier" THEN [st EXCEPT !.mods = @ \cup {p.n}]
  ELSE IF st.key # Empty THEN [st EXCEPT !.multiple = TRUE]
  ELSE [st EXCEPT !.key = p]

\* The loop, after each of its turns.
Reading(parts) ==
  LET st[i \in 0 .. Len(parts)] ==
        IF i = 0 THEN [mods |-> {}, key |-> Empty, multiple |-> FALSE]
        ELSE ReadPart(st[i - 1], parts[i])
  IN  st

\* The binding, or nothing when Parse returns an error.  Mods is the set of
\* the flags that are or-ed together.
Parse(parts) ==
  LET st == Reading(parts)[Len(parts)]
  IN  IF st.multiple \/ st.key = Empty THEN {}
      ELSE {[Mods |-> st.mods \cup {modNoRepeat}, VK |-> vk] : vk \in virtualKey(st.key)}

-----------------------------------------------------------------------------
(* Properties.                                                              *)

\* A text is a binding when it names exactly one key, one that is supported,
\* and nothing empty follows it; every modifier before or after it counts.
Meant(parts) ==
  {[Mods |-> {parts[i].n : i \in {i \in DOMAIN parts : parts[i].kind = "modifier"}}
               \cup {modNoRepeat},
    VK |-> vk] :
     vk \in UNION {virtualKey(parts[k]) :
       k \in {k \in DOMAIN parts :
         \A i \in DOMAIN parts : \/ parts[i].kind = "modifier"
                                 \/ i = k
                                 \/ i < k /\ parts[i] = Empty}}}

\* Every key that can be named has a virtual key of its own, and a function key
\* is one of the 24 that Windows has (up to 0x87): no binding takes the key of
\* another one.
KeysApart(key, keys) ==
  \A vk \in virtualKey(key) :
    /\ \A other \in keys : vk \in virtualKey(other) => other = key
    /\ vk <= 135
=============================================================================
