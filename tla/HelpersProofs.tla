---------------------------- MODULE HelpersProofs ----------------------------
(***************************************************************************)
(* The helpers do what they promise on inputs of any size: table lists     *)
(* whole, versions ordered, hotkeys as meant and icons closest.  A loop    *)
(* over data is a recursive function; Induction and Loop reduce what it    *)
(* computes to the least turn at which it would go wrong.                  *)
(***************************************************************************)
EXTENDS Helpers, VersionsProofs

-----------------------------------------------------------------------------
(* Loops.                                                                   *)

\* What holds before the first turn and is kept by each holds after all.
LEMMA Induction ==
  ASSUME NEW n \in Nat, NEW T, 0 \in T, \A i \in 1 .. n : i - 1 \in T => i \in T
  PROVE  \A i \in 0 .. n : i \in T
<1> DEFINE D == {i \in 0 .. n : i \notin T}
<1>1. CASE D = {}
  BY <1>1
<1>2. CASE D # {}
  <2>1. PICK x \in D : \A y \in D : x <= y
    <3>1. D \subseteq Nat
      OBVIOUS
    <3> HIDE DEF D
    <3> QED
      BY <1>2, <3>1, Least
  <2>2. x \in 1 .. n /\ x \notin T
    OBVIOUS
  <2>3. x - 1 \in 0 .. n /\ x - 1 \notin D
    BY <2>1, <2>2
  <2> QED
    BY <2>2, <2>3
<1> QED
  BY <1>1, <1>2

\* f has the states of a loop of n turns.
Runs(f, n, X, start, Turn) ==
  /\ f \in [0 .. n -> X] /\ f[0] = start
  /\ \A i \in 1 .. n : f[i] = Turn[<<i, f[i - 1]>>]

\* The turns of a loop define its states.
LEMMA Loop ==
  ASSUME NEW n \in Nat, NEW X, NEW start \in X, NEW Turn \in [(1 .. n) \X X -> X]
  PROVE  \E f : Runs(f, n, X, start, Turn)
<1> DEFINE T == {m \in 0 .. n : \E f : Runs(f, m, X, start, Turn)}
<1>1. 0 \in T
  <2> DEFINE g == [i \in 0 .. 0 |-> start]
  <2>1. Runs(g, 0, X, start, Turn)
    BY DEF Runs
  <2> HIDE DEF g
  <2> QED
    BY <2>1
<1>2. ASSUME NEW m \in 1 .. n, m - 1 \in T PROVE m \in T
  <2>1. PICK f : Runs(f, m - 1, X, start, Turn)
    BY <1>2
  <2> DEFINE g == [i \in 0 .. m |-> IF i = m THEN Turn[<<m, f[m - 1]>>] ELSE f[i]]
  <2>2. f[m - 1] \in X
    BY <2>1 DEF Runs
  <2>3. Turn[<<m, f[m - 1]>>] \in X
    BY <2>2
  <2>4. g \in [0 .. m -> X]
    BY <2>1, <2>3 DEF Runs
  <2>5. g[0] = start
    BY <2>1 DEF Runs
  <2>6. ASSUME NEW i \in 1 .. m PROVE g[i] = Turn[<<i, g[i - 1]>>]
    <3>1. CASE i = m
      BY <3>1
    <3>2. CASE i # m
      <4>1. i \in 1 .. m - 1 /\ i - 1 \in 0 .. m /\ i - 1 # m /\ i \in 0 .. m
        BY <3>2
      <4>2. g[i] = f[i] /\ g[i - 1] = f[i - 1]
        BY <3>2, <4>1
      <4> QED
        BY <2>1, <4>1, <4>2 DEF Runs
    <3> QED
      BY <3>1, <3>2
  <2> HIDE DEF g
  <2>7. Runs(g, m, X, start, Turn)
    BY <2>4, <2>5, <2>6 DEF Runs
  <2> QED
    BY <2>7
<1> HIDE DEF T
<1>3. \A i \in 0 .. n : i \in T
  BY <1>1, <1>2, Induction
<1>4. n \in T
  BY <1>3
<1> QED
  BY <1>4 DEF T

-----------------------------------------------------------------------------
(* Hotkeys.                                                                 *)

States == [mods : SUBSET Int, key : PartOfText, multiple : BOOLEAN]
Begun == [mods |-> {}, key |-> Empty, multiple |-> FALSE]

LEMMA PartTypes ==
  /\ Empty \in PartOfText
  /\ \A p \in PartOfText : p.n \in Int
<1>1. \A p \in Key : p.n \in Int
  BY DEF Key
<1> QED
  BY <1>1 DEF PartOfText, Empty

LEMMA ReadPartType ==
  ASSUME NEW st \in States, NEW p \in PartOfText
  PROVE  ReadPart(st, p) \in States
  BY PartTypes DEF ReadPart, States

\* The loop of Parse, turn by turn.
LEMMA ReadingTurns ==
  ASSUME NEW parts \in Seq(PartOfText)
  PROVE  /\ Reading(parts)[0] = Begun
         /\ \A i \in 1 .. Len(parts) :
              Reading(parts)[i] = ReadPart(Reading(parts)[i - 1], parts[i])
<1> DEFINE n == Len(parts)
           Turn == [w \in (1 .. n) \X States |-> ReadPart(w[2], parts[w[1]])]
<1>1. n \in Nat /\ \A i \in 1 .. n : parts[i] \in PartOfText
  OBVIOUS
<1>2. Begun \in States
  BY PartTypes DEF Begun, States
<1>3. Turn \in [(1 .. n) \X States -> States]
  BY <1>1, ReadPartType
<1>4. PICK f : Runs(f, n, States, Begun, Turn)
  <2> HIDE DEF Turn, n
  <2> QED
    BY <1>1, <1>2, <1>3, Loop
<1>5. f = [i \in 0 .. n |-> IF i = 0 THEN Begun ELSE ReadPart(f[i - 1], parts[i])]
  <2>1. ASSUME NEW i \in 0 .. n
        PROVE  f[i] = IF i = 0 THEN Begun ELSE ReadPart(f[i - 1], parts[i])
    <3>1. CASE i = 0
      BY <1>4, <3>1 DEF Runs
    <3>2. CASE i # 0
      <4>1. i \in 1 .. n /\ f[i - 1] \in States
        BY <1>4, <3>2 DEF Runs
      <4>2. Turn[<<i, f[i - 1]>>] = ReadPart(f[i - 1], parts[i])
        BY <4>1
      <4> HIDE DEF Turn
      <4> QED
        BY <1>4, <3>2, <4>1, <4>2 DEF Runs
    <3> QED
      BY <3>1, <3>2
  <2> QED
    BY <1>4, <2>1 DEF Runs
<1>6. Reading(parts) =
        [i \in 0 .. n |-> IF i = 0 THEN Begun
                          ELSE ReadPart(Reading(parts)[i - 1], parts[i])]
  BY <1>5, Zenon DEF Reading, Begun
<1> QED
  BY <1>1, <1>6

IsModifier(p) == p.kind = "modifier"

\* Of the first i parts, only k names a key and nothing empty follows it.
NamesKey(parts, i, k) ==
  /\ ~IsModifier(parts[k]) /\ parts[k] # Empty
  /\ \A j \in 1 .. i : IsModifier(parts[j]) \/ j = k \/ (j < k /\ parts[j] = Empty)

\* What the loop knows after i turns.
Mods(parts, i) == {parts[j].n : j \in {j \in 1 .. i : IsModifier(parts[j])}}
NoKey(parts, i) == \A j \in 1 .. i : IsModifier(parts[j]) \/ parts[j] = Empty
OneKey(parts, i, key) == \E k \in 1 .. i : parts[k] = key /\ NamesKey(parts, i, k)
TooMany(parts, i) ==
  \E k, j \in 1 .. i : /\ k < j /\ ~IsModifier(parts[k]) /\ parts[k] # Empty
                       /\ ~IsModifier(parts[j])

Knows(parts, i, st) ==
  /\ st \in States
  /\ st.mods = Mods(parts, i)
  /\ \/ ~st.multiple /\ st.key = Empty /\ NoKey(parts, i)
     \/ ~st.multiple /\ st.key # Empty /\ OneKey(parts, i, st.key)
     \/ st.multiple /\ st.key # Empty /\ TooMany(parts, i)

\* A turn of the loop keeps it up.
LEMMA ReadPartKnows ==
  ASSUME NEW parts \in Seq(PartOfText), NEW i \in 1 .. Len(parts), NEW st,
         Knows(parts, i - 1, st)
  PROVE  Knows(parts, i, ReadPart(st, parts[i]))
<1> DEFINE p == parts[i]
           new == ReadPart(st, p)
<1>0. p \in PartOfText /\ st \in States /\ new \in States
  BY ReadPartType DEF Knows
<1>1. \A j : j \in 1 .. i <=> j \in 1 .. i - 1 \/ j = i
  OBVIOUS
<1>2. \A j \in 1 .. i - 1 : j < i /\ j \in 1 .. i
  OBVIOUS
<1>3. CASE IsModifier(p)
  <2>1. new.mods = st.mods \cup {p.n} /\ new.key = st.key /\ new.multiple = st.multiple
    BY <1>0, <1>3 DEF ReadPart, IsModifier, States
  <2>2. Mods(parts, i) = Mods(parts, i - 1) \cup {p.n}
    BY <1>1, <1>3 DEF Mods
  <2>3. NoKey(parts, i - 1) => NoKey(parts, i)
    BY <1>1, <1>3 DEF NoKey
  <2>4. \A key : OneKey(parts, i - 1, key) => OneKey(parts, i, key)
    BY <1>1, <1>2, <1>3 DEF OneKey, NamesKey
  <2>5. TooMany(parts, i - 1) => TooMany(parts, i)
    BY <1>2 DEF TooMany
  <2> HIDE DEF new, p
  <2> QED
    BY <1>0, <2>1, <2>2, <2>3, <2>4, <2>5 DEF Knows, p, new
<1>4. CASE ~IsModifier(p) /\ st.key # Empty
  <2>1. new.mods = st.mods /\ new.key = st.key /\ new.multiple
    BY <1>0, <1>4 DEF ReadPart, IsModifier, States
  <2>2. Mods(parts, i) = Mods(parts, i - 1)
    BY <1>1, <1>4 DEF Mods
  <2>3. TooMany(parts, i - 1) => TooMany(parts, i)
    BY <1>2 DEF TooMany
  <2>4. OneKey(parts, i - 1, st.key) => TooMany(parts, i)
    BY <1>2, <1>4 DEF TooMany, OneKey, NamesKey
  <2>5. TooMany(parts, i)
    BY <1>4, <2>3, <2>4 DEF Knows
  <2>6. st.mods = Mods(parts, i - 1)
    BY DEF Knows
  <2> HIDE DEF new, p
  <2> QED
    BY <1>0, <1>4, <2>1, <2>2, <2>5, <2>6 DEF Knows, p, new
<1>5. CASE ~IsModifier(p) /\ st.key = Empty
  <2>1. new.mods = st.mods /\ new.key = p /\ new.multiple = st.multiple
    BY <1>0, <1>5 DEF ReadPart, IsModifier, States
  <2>2. Mods(parts, i) = Mods(parts, i - 1)
    BY <1>1, <1>5 DEF Mods
  <2>3. NoKey(parts, i - 1) /\ ~st.multiple /\ st.mods = Mods(parts, i - 1)
    BY <1>5 DEF Knows
  <2>4. p = Empty => NoKey(parts, i)
    BY <1>1, <2>3 DEF NoKey
  <2>5. p # Empty => OneKey(parts, i, p)
    BY <1>1, <1>2, <1>5, <2>3 DEF NoKey, OneKey, NamesKey
  <2> HIDE DEF new, p
  <2> QED
    BY <1>0, <2>1, <2>2, <2>3, <2>4, <2>5 DEF Knows, p, new
<1> QED
  BY <1>3, <1>4, <1>5

LEMMA ReadingKnows ==
  ASSUME NEW parts \in Seq(PartOfText)
  PROVE  Knows(parts, Len(parts), Reading(parts)[Len(parts)])
<1> DEFINE n == Len(parts)
           T == {i \in 0 .. n : Knows(parts, i, Reading(parts)[i])}
<1>1. n \in Nat
  OBVIOUS
<1>2. 0 \in T
  <2>1. Begun \in States /\ Begun.mods = {} /\ Begun.key = Empty /\ ~Begun.multiple
    BY PartTypes DEF Begun, States
  <2>2. Mods(parts, 0) = {} /\ NoKey(parts, 0)
    BY DEF Mods, NoKey
  <2>3. Knows(parts, 0, Begun)
    BY <2>1, <2>2 DEF Knows
  <2> QED
    BY <1>1, <2>3, ReadingTurns
<1>3. ASSUME NEW i \in 1 .. n, i - 1 \in T PROVE i \in T
  BY <1>3, ReadPartKnows, ReadingTurns
<1> HIDE DEF T
<1>4. \A i \in 0 .. n : i \in T
  BY <1>1, <1>2, <1>3, Induction
<1> QED
  BY <1>1, <1>4 DEF T

\* Parse accepts a text when it names one key that is supported, with every modifier
\* in it, however many parts the text has and in whatever order.
LEMMA ParseIsMeant ==
  ASSUME NEW parts \in Seq(PartOfText)
  PROVE  Parse(parts) = Meant(parts)
<1> DEFINE n == Len(parts)
           st == Reading(parts)[n]
           Candidates == {k \in DOMAIN parts :
                           \A i \in DOMAIN parts : \/ parts[i].kind = "modifier"
                                                   \/ i = k
                                                   \/ i < k /\ parts[i] = Empty}
           Codes == UNION {virtualKey(parts[k]) : k \in Candidates}
           mods == {parts[i].n : i \in {i \in DOMAIN parts : parts[i].kind = "modifier"}}
<1>1. DOMAIN parts = 1 .. n /\ n \in Nat
  OBVIOUS
<1>2. Knows(parts, n, st)
  BY ReadingKnows
<1>3. Meant(parts) = {[Mods |-> mods \cup {modNoRepeat}, VK |-> vk] : vk \in Codes}
  BY DEF Meant
<1>4. mods = st.mods
  BY <1>1, <1>2 DEF Knows, Mods, IsModifier
<1>5. Parse(parts) = IF st.multiple \/ st.key = Empty THEN {}
                     ELSE {[Mods |-> st.mods \cup {modNoRepeat}, VK |-> vk] :
                             vk \in virtualKey(st.key)}
  BY DEF Parse
<1>6. \A p : IsModifier(p) \/ p = Empty => virtualKey(p) = {}
  BY DEF virtualKey, IsModifier, Empty
<1>7. CASE NoKey(parts, n) /\ ~st.multiple /\ st.key = Empty
  <2>1. \A k \in Candidates : virtualKey(parts[k]) = {}
    BY <1>1, <1>6, <1>7 DEF NoKey
  <2>2. Codes = {}
    BY <2>1
  <2> HIDE DEF Codes, mods, st
  <2> QED
    BY <1>3, <1>5, <1>7, <2>2
<1>8. CASE OneKey(parts, n, st.key) /\ ~st.multiple /\ st.key # Empty
  <2>1. PICK k \in 1 .. n : parts[k] = st.key /\ NamesKey(parts, n, k)
    BY <1>8 DEF OneKey
  <2>2. k \in Candidates
    BY <1>1, <2>1 DEF NamesKey, IsModifier
  <2>3. \A j \in Candidates : j = k
    BY <1>1, <2>1 DEF NamesKey, IsModifier
  <2>4. Codes = virtualKey(st.key)
    BY <2>1, <2>2, <2>3
  <2> HIDE DEF Codes, mods, st
  <2> QED
    BY <1>3, <1>4, <1>5, <1>8, <2>4
<1>9. CASE TooMany(parts, n) /\ st.multiple
  <2>1. PICK k, j \in 1 .. n : /\ k < j /\ ~IsModifier(parts[k]) /\ parts[k] # Empty
                               /\ ~IsModifier(parts[j])
    BY <1>9 DEF TooMany
  <2>2. Candidates = {}
    BY <1>1, <2>1 DEF IsModifier
  <2>3. Codes = {}
    BY <2>2
  <2> HIDE DEF Codes, mods, st
  <2> QED
    BY <1>3, <1>5, <1>9, <2>3
<1> QED
  BY <1>2, <1>7, <1>8, <1>9 DEF Knows

\* The keys and their virtual keys.
LEMMA VirtualKeys ==
  ASSUME NEW key \in Key, NEW vk \in virtualKey(key)
  PROVE  \/ \E n \in 97 .. 122 : key = [kind |-> "letter", n |-> n] /\ vk = n - 32
         \/ \E n \in 48 .. 57 : key = [kind |-> "digit", n |-> n] /\ vk = n
         \/ \E n \in 1 .. 24 : key = [kind |-> "f", n |-> n] /\ vk = 111 + n
         \/ \E n \in {32, 9, 27, 13} : key = [kind |-> "named", n |-> n] /\ vk = n
<1>1. CASE key \in [kind : {"letter"}, n : 97 .. 122]
  <2>1. key = [kind |-> "letter", n |-> key.n] /\ key.n \in 97 .. 122
    BY <1>1
  <2> QED
    BY <2>1 DEF virtualKey
<1>2. CASE key \in [kind : {"digit"}, n : 48 .. 57]
  <2>1. key = [kind |-> "digit", n |-> key.n] /\ key.n \in 48 .. 57
    BY <1>2
  <2> QED
    BY <2>1 DEF virtualKey
<1>3. CASE key \in [kind : {"f"}, n : Int]
  <2>1. key = [kind |-> "f", n |-> key.n] /\ key.n \in Int
    BY <1>3
  <2> QED
    BY <2>1 DEF virtualKey
<1>4. CASE key \in [kind : {"named"}, n : {32, 9, 27, 13}]
  <2>1. key = [kind |-> "named", n |-> key.n] /\ key.n \in {32, 9, 27, 13}
    BY <1>4
  <2> QED
    BY <2>1 DEF virtualKey
<1>5. CASE key = [kind |-> "other", n |-> 0]
  BY <1>5 DEF virtualKey
<1> QED
  BY <1>1, <1>2, <1>3, <1>4, <1>5 DEF Key

\* The ranges of the virtual keys do not meet.
LEMMA NoKeysMeet ==
  ASSUME NEW key \in Key, NEW other \in Key,
         NEW vk, vk \in virtualKey(key), vk \in virtualKey(other)
  PROVE  other = key /\ vk <= 135
<1>1. \/ \E n \in 97 .. 122 : key = [kind |-> "letter", n |-> n] /\ vk = n - 32
      \/ \E n \in 48 .. 57 : key = [kind |-> "digit", n |-> n] /\ vk = n
      \/ \E n \in 1 .. 24 : key = [kind |-> "f", n |-> n] /\ vk = 111 + n
      \/ \E n \in {32, 9, 27, 13} : key = [kind |-> "named", n |-> n] /\ vk = n
  BY VirtualKeys
<1>2. \/ \E n \in 97 .. 122 : other = [kind |-> "letter", n |-> n] /\ vk = n - 32
      \/ \E n \in 48 .. 57 : other = [kind |-> "digit", n |-> n] /\ vk = n
      \/ \E n \in 1 .. 24 : other = [kind |-> "f", n |-> n] /\ vk = 111 + n
      \/ \E n \in {32, 9, 27, 13} : other = [kind |-> "named", n |-> n] /\ vk = n
  BY VirtualKeys
<1> QED
  BY <1>1, <1>2

-----------------------------------------------------------------------------
(* Icons.                                                                   *)

LEMMA PickingTurns ==
  ASSUME NEW ico, IsFile(ico), NEW want
  PROVE  /\ Picking(ico, want)[0] = {}
         /\ \A i \in 1 .. ico.count :
              Picking(ico, want)[i] =
                IF i \in Usable(ico)
                   /\ \A b \in Picking(ico, want)[i - 1] : Better(ico.dir[i], b, want)
                  THEN {ico.dir[i]}
                ELSE Picking(ico, want)[i - 1]
<1> DEFINE n == ico.count
           Images == SUBSET Entry
           Pick(i, best) ==
             IF i \in Usable(ico) /\ \A b \in best : Better(ico.dir[i], b, want)
               THEN {ico.dir[i]}
             ELSE best
           Turn == [w \in (1 .. n) \X Images |-> Pick(w[1], w[2])]
<1>1. n \in Nat /\ \A i \in 1 .. n : ico.dir[i] \in Entry
  BY DEF IsFile
<1>2. \A i \in 1 .. n, best \in Images : Pick(i, best) \in Images
  BY <1>1
<1> HIDE DEF Pick, Images
<1>3. Turn \in [(1 .. n) \X Images -> Images]
  BY <1>2
<1>4. {} \in Images
  BY DEF Images
<1>5. PICK f : Runs(f, n, Images, {}, Turn)
  <2> HIDE DEF Turn, n
  <2> QED
    BY <1>1, <1>3, <1>4, Loop
<1>6. ASSUME NEW i \in 0 .. n PROVE f[i] = IF i = 0 THEN {} ELSE Pick(i, f[i - 1])
  <2>1. CASE i = 0
    BY <1>5, <2>1 DEF Runs
  <2>2. CASE i # 0
    <3>1. i \in 1 .. n /\ f[i - 1] \in Images
      BY <1>1, <1>5, <2>2 DEF Runs
    <3>2. Turn[<<i, f[i - 1]>>] = Pick(i, f[i - 1])
      BY <3>1
    <3> HIDE DEF Turn
    <3> QED
      BY <1>5, <2>2, <3>1, <3>2 DEF Runs
  <2> QED
    BY <2>1, <2>2
<1>7. f = [i \in 0 .. n |-> IF i = 0 THEN {} ELSE Pick(i, f[i - 1])]
  BY <1>5, <1>6 DEF Runs
<1>8. Picking(ico, want) =
        [i \in 0 .. n |-> IF i = 0 THEN {} ELSE Pick(i, Picking(ico, want)[i - 1])]
  BY <1>7, Zenon DEF Picking, Pick
<1>9. ASSUME NEW i \in 1 .. n
      PROVE  Picking(ico, want)[i] = Pick(i, Picking(ico, want)[i - 1])
  <2>1. i \in 0 .. n /\ i # 0
    BY <1>1
  <2> QED
    BY <1>8, <2>1, Zenon
<1>10. Picking(ico, want)[0] = {}
  BY <1>1, <1>8
<1> QED
  BY <1>9, <1>10 DEF Pick

\* The best image of the first i entries.
IsBest(ico, want, i, best) ==
  /\ \A p \in best : \E j \in Usable(ico) : j <= i /\ p = ico.dir[j]
  /\ \A p, q \in best : p = q
  /\ \A j \in Usable(ico) : j <= i =>
       \E p \in best : ~Better(ico.dir[j], p, want)

LEMMA Distances ==
  ASSUME NEW e \in Entry, NEW want \in Nat
  PROVE  Distance(e, want) \in Nat /\ Width(e) \in Nat
<1>1. Width(e) \in Nat
  BY DEF Entry, Width
<1> QED
  BY <1>1 DEF Distance

LEMMA PickingBest ==
  ASSUME NEW ico, IsFile(ico), NEW want \in Nat
  PROVE  IsBest(ico, want, ico.count, Picking(ico, want)[ico.count])
<1> DEFINE n == ico.count
           best(i) == Picking(ico, want)[i]
           T == {i \in 0 .. n : IsBest(ico, want, i, best(i))}
<1>1. /\ n \in Nat
      /\ \A j \in Usable(ico) : j \in 1 .. n /\ ico.dir[j] \in Entry
  BY DEF IsFile, Usable
<1>2. 0 \in T
  <2>1. best(0) = {}
    BY PickingTurns
  <2>2. \A j \in Usable(ico) : ~(j <= 0)
    BY <1>1
  <2> HIDE DEF best
  <2>3. IsBest(ico, want, 0, best(0))
    BY <2>1, <2>2 DEF IsBest
  <2> QED
    BY <1>1, <2>3
<1>3. ASSUME NEW i \in 1 .. n, i - 1 \in T PROVE i \in T
  <2>1. IsBest(ico, want, i - 1, best(i - 1))
    BY <1>3
  <2>2. best(i) = IF i \in Usable(ico) /\ \A b \in best(i - 1) : Better(ico.dir[i], b, want)
                    THEN {ico.dir[i]} ELSE best(i - 1)
    BY PickingTurns
  <2> HIDE DEF best
  <2>3. \A j \in Usable(ico) : j <= i <=> j <= i - 1 \/ j = i
    BY <1>1
  <2>4. \A p \in best(i - 1) : p \in Entry
    BY <1>1, <2>1 DEF IsBest
  <2>5. CASE i \in Usable(ico) /\ \A b \in best(i - 1) : Better(ico.dir[i], b, want)
    <3>1. best(i) = {ico.dir[i]} /\ ico.dir[i] \in Entry
      BY <1>1, <2>2, <2>5
    <3>2. ASSUME NEW j \in Usable(ico), j <= i PROVE ~Better(ico.dir[j], ico.dir[i], want)
      <4>1. CASE j = i
        <5>1. Distance(ico.dir[i], want) \in Nat /\ Width(ico.dir[i]) \in Nat
          BY <3>1, Distances
        <5> QED
          BY <4>1, <5>1 DEF Better
      <4>2. CASE j # i
        <5>1. PICK p \in best(i - 1) : ~Better(ico.dir[j], p, want)
          BY <2>1, <2>3, <3>2, <4>2 DEF IsBest
        <5>2. Better(ico.dir[i], p, want)
          BY <2>5
        <5>3. p \in Entry /\ ico.dir[j] \in Entry
          BY <1>1, <2>4
        <5>4. /\ Distance(ico.dir[i], want) \in Nat /\ Width(ico.dir[i]) \in Nat
              /\ Distance(ico.dir[j], want) \in Nat /\ Width(ico.dir[j]) \in Nat
              /\ Distance(p, want) \in Nat /\ Width(p) \in Nat
          BY <3>1, <5>3, Distances
        <5> QED
          BY <5>1, <5>2, <5>4 DEF Better
      <4> QED
        BY <4>1, <4>2
    <3>3. i <= i
      OBVIOUS
    <3>4. IsBest(ico, want, i, best(i))
      BY <2>5, <3>1, <3>2, <3>3 DEF IsBest
    <3> QED
      BY <3>4
  <2>6. CASE ~(i \in Usable(ico) /\ \A b \in best(i - 1) : Better(ico.dir[i], b, want))
    <3>1. best(i) = best(i - 1)
      BY <2>2, <2>6
    <3>2. IsBest(ico, want, i, best(i))
      BY <2>1, <2>3, <2>6, <3>1 DEF IsBest
    <3> QED
      BY <3>2
  <2> QED
    BY <2>5, <2>6
<1> HIDE DEF T
<1>4. \A i \in 0 .. n : i \in T
  BY <1>1, <1>2, <1>3, Induction
<1> QED
  BY <1>1, <1>4 DEF T

\* Of any file and for any size, the image picked is the closest one inside the file.
LEMMA IconClosest ==
  ASSUME NEW ico, IsFile(ico), NEW want \in Nat
  PROVE  PicksClosest(ico, want)
<1> DEFINE picked == pickIconEntry(ico, want)
           images == {ico.dir[i] : i \in Usable(ico)}
<1>1. ico.len \in Nat /\ \A j \in Usable(ico) : j \in 1 .. ico.count /\ ico.dir[j] \in Entry
  BY DEF IsFile, Usable
<1>2. CASE ico.len < Header
  <2>1. picked = {}
    BY <1>2 DEF pickIconEntry
  <2>2. Usable(ico) = {}
    BY <1>1, <1>2 DEF Usable, Header, EntrySize
  <2> QED
    BY <2>1, <2>2 DEF PicksClosest
<1>3. CASE ~(ico.len < Header)
  <2>1. IsBest(ico, want, ico.count, picked)
    BY <1>3, PickingBest DEF pickIconEntry
  <2> HIDE DEF picked
  <2>2. \A j \in Usable(ico) : j <= ico.count
    BY <1>1
  <2>3. picked \subseteq images
    BY <2>1 DEF IsBest
  <2>4. picked = {} => images = {}
    BY <2>1, <2>2 DEF IsBest
  <2>5. ASSUME NEW p \in picked, NEW e \in images
        PROVE  /\ Distance(p, want) <= Distance(e, want)
               /\ Distance(p, want) = Distance(e, want) => Width(p) >= Width(e)
    <3>1. ~Better(e, p, want)
      BY <2>1, <2>2 DEF IsBest
    <3>2. p \in Entry /\ e \in Entry
      BY <1>1, <2>3
    <3>3. /\ Distance(p, want) \in Nat /\ Width(p) \in Nat
          /\ Distance(e, want) \in Nat /\ Width(e) \in Nat
      BY <3>2, Distances
    <3> QED
      BY <3>1, <3>3 DEF Better
  <2> QED
    BY <2>3, <2>4, <2>5 DEF PicksClosest, picked
<1> QED
  BY <1>2, <1>3

-----------------------------------------------------------------------------
(* Tables.                                                                  *)

\* The row of the last accepted count ends where the rows before it leave room.
LEMMA RowsFit ==
  ASSUME NEW size \in Nat, NEW count \in Nat, NEW i \in 1 .. count
  PROVE  (i - 1) * size \in Nat /\ (i - 1) * size + size <= count * size
<1>1. PICK rest \in Nat : count = i + rest
  <2>1. count - i \in Nat /\ count = i + (count - i)
    OBVIOUS
  <2> QED
    BY <2>1
<1>2. i - 1 \in Nat
  OBVIOUS
<1>3. (i - 1) * size + size = i * size
  OBVIOUS
<1>4. count * size = i * size + rest * size
  BY <1>1
<1>5. (i - 1) * size \in Nat /\ rest * size \in Nat /\ i * size \in Nat
  BY <1>2
<1> QED
  BY <1>3, <1>4, <1>5

\* A buffer has a length in a uint32, as the size Windows answers is one.
\* Whatever its count says, parseV4Table and parseV6Table read no byte beyond
\* it, though their offset is a uint32 too.
LEMMA ParsedRowsInBounds ==
  ASSUME NEW len \in Nat, len < Word, NEW count \in Nat, NEW size \in Nat \ {0}
  PROVE  InBounds(len, count, size)
<1> SUFFICES ASSUME tableEntries(len, count, size), NEW i \in 1 .. count
             PROVE  /\ Offset(i, size) = 4 + (i - 1) * size
                    /\ Offset(i, size) + size <= len
  BY DEF InBounds
<1>1. Word \in Nat
  BY TablesAssumption
<1>2. (i - 1) * size \in Nat /\ (i - 1) * size + size <= count * size
  BY RowsFit
<1> DEFINE row == (i - 1) * size
           all == count * size
<1>3. all \in Nat
  OBVIOUS
<1>4. 4 + all <= len
  BY DEF tableEntries
<1> HIDE DEF row, all
<1>5. row \in Nat /\ row + size <= all
  BY <1>2 DEF row, all
<1>6. 4 + row < Word /\ 4 + row + size <= len
  BY <1>1, <1>3, <1>4, <1>5
<1>7. (4 + row) % Word = 4 + row
  BY <1>1, <1>5, <1>6
<1> QED
  BY <1>6, <1>7 DEF Offset, row

\* A quotient and a remainder are what they make up.
LEMMA Division ==
  ASSUME NEW d \in Nat \ {0}, NEW q \in Nat, NEW r \in 0 .. d - 1
  PROVE  (d * q + r) \div d = q /\ (d * q + r) % d = r
<1> DEFINE a == d * q + r
           qq == a \div d
           rr == a % d
<1>1. a \in Nat /\ d * q \in Nat
  OBVIOUS
<1>2. qq \in Nat /\ rr \in 0 .. d - 1 /\ a = d * qq + rr
  BY <1>1
<1> HIDE DEF qq, rr
<1>3. d * q + r = d * qq + rr
  BY <1>2
<1>4. CASE q < qq
  <2>1. PICK e \in Nat : qq = q + 1 + e
    <3>1. qq - q - 1 \in Nat /\ qq = q + 1 + (qq - q - 1)
      BY <1>2, <1>4
    <3> QED
      BY <3>1
  <2>2. d * qq = d * q + d + d * e /\ d * e \in Nat
    BY <2>1
  <2> QED
    BY <1>1, <1>2, <1>3, <2>2
<1>5. CASE qq < q
  <2>1. PICK e \in Nat : q = qq + 1 + e
    <3>1. q - qq - 1 \in Nat /\ q = qq + 1 + (q - qq - 1)
      BY <1>2, <1>5
    <3> QED
      BY <3>1
  <2>2. d * q = d * qq + d + d * e /\ d * e \in Nat /\ d * qq \in Nat
    BY <1>2, <2>1
  <2> QED
    BY <1>1, <1>2, <1>3, <2>2
<1>6. CASE q = qq
  BY <1>1, <1>2, <1>3, <1>6 DEF qq, rr
<1> QED
  BY <1>2, <1>4, <1>5, <1>6

\* ntohs of the lower half of a DWORD has its first two bytes in network order.
LEMMA Ports ==
  ASSUME NEW raw \in Nat
  PROVE  ntohs(raw % (Byte * Byte)) = PortOnWire(raw)
<1> DEFINE q == raw \div Byte
           low == raw % Byte
           high == q % Byte
           rest == q \div Byte
           v == Byte * high + low
<1>1. Byte \in Nat \ {0}
  BY TablesAssumption
<1>2. q \in Nat /\ low \in 0 .. Byte - 1 /\ raw = Byte * q + low
  BY <1>1
<1>3. rest \in Nat /\ high \in 0 .. Byte - 1 /\ q = Byte * rest + high
  BY <1>1, <1>2
<1> HIDE DEF q, low, high, rest
<1>4. v \div Byte = high /\ v % Byte = low
  BY <1>1, <1>2, <1>3, Division
<1>5. v \in 0 .. Byte * Byte - 1
  <2>1. PICK e \in Nat : Byte = high + 1 + e
    <3>1. Byte - high - 1 \in Nat /\ Byte = high + 1 + (Byte - high - 1)
      BY <1>1, <1>3
    <3> QED
      BY <3>1
  <2>2. Byte * Byte = Byte * high + Byte + Byte * e
    BY <1>1, <1>3, <2>1
  <2>3. Byte * high \in Nat /\ Byte * e \in Nat
    BY <1>1, <1>3
  <2> QED
    BY <1>1, <1>2, <2>2, <2>3
<1>6. raw = (Byte * Byte) * rest + v
  <2>1. Byte * q = Byte * (Byte * rest) + Byte * high
    BY <1>1, <1>3
  <2>2. Byte * (Byte * rest) = (Byte * Byte) * rest
    BY <1>1, <1>3
  <2> QED
    BY <1>1, <1>2, <1>3, <2>1, <2>2
<1>7. Byte * Byte \in Nat \ {0}
  BY <1>1
<1>8. raw % (Byte * Byte) = v
  <2> DEFINE d == Byte * Byte
  <2> HIDE DEF d, v
  <2>1. d \in Nat \ {0} /\ v \in 0 .. d - 1 /\ raw = d * rest + v
    BY <1>5, <1>6, <1>7 DEF d
  <2>2. raw % d = v
    BY <1>3, <2>1, Division
  <2> QED
    BY <2>2 DEF d
<1>9. high % Byte = high
  BY <1>1, <1>3
<1>10. ntohs(v) = high + low * Byte
  BY <1>4, <1>9 DEF ntohs
<1>11. PortOnWire(raw) = Byte * low + high
  BY DEF PortOnWire, low, high, q
<1> QED
  BY <1>1, <1>2, <1>3, <1>8, <1>10, <1>11

\* What the second call finds: the table, whole, unless it has outgrown the buffer.
LEMMA TableRead ==
  ASSUME NEW f \in Families, NEW query \in Query, query.size # 0,
         NEW bufs, bufs = extendedTCPTable(f, query)
  PROVE  \/ bufs = {} /\ Unreadable(f, query)
         \/ /\ ~Unreadable(f, query)
            /\ \E buf : bufs = {buf} /\ parseTable(buf, RowSize[f]) = query.table
<1> DEFINE n == Len(query.table)
           size == RowSize[f]
           buf == [len |-> query.size, count |-> n, rows |-> query.table]
<1>1. n \in Nat /\ query.table \in Seq(Row) /\ query.size \in Nat
  BY DEF Query
<1>2. size \in {24, 56}
  BY DEF Families, RowSize
<1> HIDE DEF size
<1>3. SizeOf(f, query.table) = 4 + size * n /\ size * n \in Nat
  BY <1>1, <1>2 DEF SizeOf, size
<1>4. CASE query.fails = "first"
  BY <1>4 DEF extendedTCPTable, Unreadable
<1>5. CASE query.fails # "first" /\ Unreadable(f, query)
  <2>1. query.fails = "second" \/ ~(SizeOf(f, query.table) <= query.size)
    BY <1>1, <1>3, <1>5 DEF Unreadable
  <2>2. Fill(f, query) = {}
    BY <2>1 DEF Fill
  <2> QED
    BY <1>5, <2>2 DEF extendedTCPTable
<1>6. CASE ~Unreadable(f, query)
  <2>1. /\ query.fails # "first" /\ query.fails # "second"
        /\ SizeOf(f, query.table) <= query.size
    BY <1>1, <1>3, <1>6 DEF Unreadable
  <2>2. bufs = {buf}
    BY <2>1 DEF extendedTCPTable, Fill
  <2>3. tableEntries(query.size, n, size)
    BY <1>1, <1>2, <1>3, <2>1 DEF tableEntries
  <2>4. n * size = size * n
    BY <1>1, <1>2
  <2>5. ASSUME NEW i \in 1 .. n PROVE RowAt(buf, Offset(i, size), size) = query.table[i]
    <3>1. Offset(i, size) = 4 + (i - 1) * size
      <4>1. query.size < Word
        BY TablesAssumption DEF Query
      <4>2. InBounds(query.size, n, size)
        BY <1>1, <1>2, <4>1, ParsedRowsInBounds
      <4> QED
        BY <2>3, <4>2 DEF InBounds
    <3>2. ((4 + (i - 1) * size) - 4) \div size = i - 1
      <4>1. CASE size = 24
        BY <4>1
      <4>2. CASE size = 56
        BY <4>2
      <4> QED
        BY <1>2, <4>1, <4>2
    <3>3. (Offset(i, size) - 4) \div size = i - 1
      BY <3>1, <3>2, Zenon
    <3>4. RowAt(buf, Offset(i, size), size) =
            query.table[((Offset(i, size) - 4) \div size) + 1]
      <4>1. buf.rows = query.table
        OBVIOUS
      <4> HIDE DEF buf
      <4> QED
        BY <4>1, Zenon DEF RowAt
    <3>5. (i - 1) + 1 = i
      OBVIOUS
    <3> QED
      BY <3>3, <3>4, <3>5
  <2>6. parseTable(buf, size) = [i \in 1 .. n |-> RowAt(buf, Offset(i, size), size)]
    BY <2>3 DEF parseTable
  <2>7. parseTable(buf, size) = query.table
    BY <1>1, <2>5, <2>6
  <2> QED
    BY <1>6, <2>2, <2>7 DEF size
<1> QED
  BY <1>4, <1>5, <1>6

\* The loop over the rows, turn by turn.
LEMMA CollectedTurns ==
  ASSUME NEW f, NEW rows \in Seq(Row), NEW pids
  PROVE  /\ Collected(f, rows, pids)[0] = <<>>
         /\ \A i \in 1 .. Len(rows) :
              Collected(f, rows, pids)[i] =
                IF rows[i].OwningPID \in pids
                  THEN Append(Collected(f, rows, pids)[i - 1], connectionFromRow(f, rows[i]))
                ELSE Collected(f, rows, pids)[i - 1]
<1> DEFINE n == Len(rows)
           Conn == {connectionFromRow(f, rows[i]) : i \in 1 .. n}
           Lists == Seq(Conn)
           Take(i, conns) ==
             IF rows[i].OwningPID \in pids
               THEN Append(conns, connectionFromRow(f, rows[i]))
             ELSE conns
           Turn == [w \in (1 .. n) \X Lists |-> Take(w[1], w[2])]
<1>1. n \in Nat
  OBVIOUS
<1>2. \A i \in 1 .. n, conns \in Lists : Take(i, conns) \in Lists
  <2> SUFFICES ASSUME NEW i \in 1 .. n, NEW conns \in Lists PROVE Take(i, conns) \in Lists
    OBVIOUS
  <2>1. connectionFromRow(f, rows[i]) \in Conn
    OBVIOUS
  <2> HIDE DEF Conn
  <2> QED
    BY <2>1
<1>3. <<>> \in Lists
  <2> HIDE DEF Conn
  <2> QED
    OBVIOUS
<1> HIDE DEF Take, Conn, Lists
<1>4. Turn \in [(1 .. n) \X Lists -> Lists]
  BY <1>2
<1>5. PICK c : Runs(c, n, Lists, <<>>, Turn)
  <2> HIDE DEF Turn, n
  <2> QED
    BY <1>1, <1>3, <1>4, Loop
<1>6. ASSUME NEW i \in 0 .. n PROVE c[i] = IF i = 0 THEN <<>> ELSE Take(i, c[i - 1])
  <2>1. CASE i = 0
    BY <1>5, <2>1 DEF Runs
  <2>2. CASE i # 0
    <3>1. i \in 1 .. n /\ c[i - 1] \in Lists
      BY <1>1, <1>5, <2>2 DEF Runs
    <3>2. Turn[<<i, c[i - 1]>>] = Take(i, c[i - 1])
      BY <3>1
    <3> HIDE DEF Turn
    <3> QED
      BY <1>5, <2>2, <3>1, <3>2 DEF Runs
  <2> QED
    BY <2>1, <2>2
<1>7. c = [i \in 0 .. n |-> IF i = 0 THEN <<>> ELSE Take(i, c[i - 1])]
  BY <1>5, <1>6 DEF Runs
<1>8. Collected(f, rows, pids) =
        [i \in 0 .. n |-> IF i = 0 THEN <<>> ELSE Take(i, Collected(f, rows, pids)[i - 1])]
  BY <1>7, Zenon DEF Collected, Take
<1>9. ASSUME NEW i \in 1 .. n
      PROVE  Collected(f, rows, pids)[i] = Take(i, Collected(f, rows, pids)[i - 1])
  <2>1. i \in 0 .. n /\ i # 0
    BY <1>1
  <2> QED
    BY <1>8, <2>1, Zenon
<1>10. Collected(f, rows, pids)[0] = <<>>
  <2>1. 0 \in 0 .. n
    BY <1>1
  <2> QED
    BY <1>8, <2>1, Zenon
<1> QED
  BY <1>9, <1>10 DEF Take

\* The places of the wanted rows among the first i.
Wanted(rows, pids, i) == {j \in 1 .. i : rows[j].OwningPID \in pids}

LEMMA WantedFinite ==
  ASSUME NEW rows, NEW pids, NEW i \in Nat
  PROVE  /\ IsFiniteSet(Wanted(rows, pids, i))
         /\ Cardinality(Wanted(rows, pids, i)) \in Nat
<1>1. IsFiniteSet(1 .. i)
  BY FS_Interval
<1>2. Wanted(rows, pids, i) \subseteq 1 .. i
  BY DEF Wanted
<1> QED
  BY <1>1, <1>2, FS_Subset, FS_CardinalityType

\* The list of the first i rows: the wanted ones, in order.
Lists(f, rows, pids, i, conns) ==
  /\ conns \in Seq({connectionFromRow(f, rows[j]) : j \in Wanted(rows, pids, Len(rows))})
  /\ Len(conns) = Cardinality(Wanted(rows, pids, i))
  /\ \A j \in Wanted(rows, pids, i) :
       LET k == Cardinality(Wanted(rows, pids, j))
       IN  k \in 1 .. Len(conns) /\ conns[k] = connectionFromRow(f, rows[j])

LEMMA CollectedLists ==
  ASSUME NEW f, NEW rows \in Seq(Row), NEW pids
  PROVE  Lists(f, rows, pids, Len(rows), Collected(f, rows, pids)[Len(rows)])
<1> DEFINE n == Len(rows)
           conns(i) == Collected(f, rows, pids)[i]
           W(i) == Wanted(rows, pids, i)
           Conn == {connectionFromRow(f, rows[j]) : j \in W(n)}
           T == {i \in 0 .. n : Lists(f, rows, pids, i, conns(i))}
<1>1. n \in Nat
  OBVIOUS
<1>2. 0 \in T
  <2>1. conns(0) = <<>>
    BY CollectedTurns
  <2>2. W(0) = {}
    BY DEF Wanted
  <2> HIDE DEF conns
  <2>3. Cardinality(Wanted(rows, pids, 0)) = 0
    BY <2>2, FS_EmptySet
  <2>4. \A S : <<>> \in Seq(S)
    OBVIOUS
  <2>5. Len(conns(0)) = 0 /\ conns(0) \in Seq(Conn)
    <3> HIDE DEF Conn
    <3> QED
      BY <2>1, <2>4
  <2>6. Lists(f, rows, pids, 0, conns(0))
    BY <2>2, <2>3, <2>5 DEF Lists
  <2> QED
    BY <1>1, <2>6
<1>3. ASSUME NEW i \in 1 .. n, i - 1 \in T PROVE i \in T
  <2>1. Lists(f, rows, pids, i - 1, conns(i - 1))
    BY <1>3
  <2>2. conns(i) = IF rows[i].OwningPID \in pids
                     THEN Append(conns(i - 1), connectionFromRow(f, rows[i]))
                   ELSE conns(i - 1)
    BY CollectedTurns
  <2> HIDE DEF conns
  <2>3. i \in Nat /\ i - 1 \in Nat
    OBVIOUS
  <2>4. IsFiniteSet(W(i - 1)) /\ Cardinality(W(i - 1)) \in Nat
    BY <2>3, WantedFinite
  <2>5. conns(i - 1) \in Seq(Conn) /\ Len(conns(i - 1)) = Cardinality(W(i - 1))
    BY <2>1 DEF Lists
  <2>6. CASE rows[i].OwningPID \in pids
    <3>1. W(i) = W(i - 1) \cup {i} /\ i \notin W(i - 1)
      BY <2>6 DEF Wanted
    <3>2. Cardinality(W(i)) = Cardinality(W(i - 1)) + 1
      BY <2>4, <3>1, FS_AddElement
    <3>3. i \in W(n)
      BY <2>6 DEF Wanted
    <3>4. connectionFromRow(f, rows[i]) \in Conn
      BY <3>3
    <3> DEFINE c == connectionFromRow(f, rows[i])
               old == conns(i - 1)
    <3> HIDE DEF c, old, Conn
    <3>5. /\ Append(old, c) \in Seq(Conn) /\ Len(Append(old, c)) = Len(old) + 1
          /\ Append(old, c)[Len(old) + 1] = c
          /\ \A k \in 1 .. Len(old) : Append(old, c)[k] = old[k]
      BY <2>5, <3>4 DEF c, old
    <3>6. conns(i) = Append(old, c)
      BY <2>2, <2>6 DEF old, c
    <3>7. ASSUME NEW j \in W(i)
          PROVE  /\ Cardinality(W(j)) \in 1 .. Len(conns(i))
                 /\ conns(i)[Cardinality(W(j))] = connectionFromRow(f, rows[j])
      <4>1. CASE j = i
        BY <2>4, <2>5, <3>2, <3>5, <3>6, <4>1 DEF old, c
      <4>2. CASE j # i
        <5>1. j \in W(i - 1)
          BY <3>1, <3>7, <4>2
        <5>2. /\ Cardinality(W(j)) \in 1 .. Len(old)
              /\ old[Cardinality(W(j))] = connectionFromRow(f, rows[j])
          BY <2>1, <5>1 DEF Lists, old
        <5>3. Len(old) \in Nat
          BY <2>4, <2>5 DEF old
        <5> HIDE DEF W
        <5> QED
          BY <3>5, <3>6, <5>2, <5>3
      <4> QED
        BY <4>1, <4>2
    <3>8. Lists(f, rows, pids, i, conns(i))
      BY <2>5, <3>2, <3>5, <3>6, <3>7 DEF Lists, Conn, old
    <3> QED
      BY <3>8
  <2>7. CASE rows[i].OwningPID \notin pids
    <3>1. W(i) = W(i - 1)
      BY <2>7 DEF Wanted
    <3>2. conns(i) = conns(i - 1)
      BY <2>2, <2>7
    <3>3. Lists(f, rows, pids, i, conns(i))
      BY <2>1, <3>1, <3>2 DEF Lists
    <3> QED
      BY <3>3
  <2> QED
    BY <2>6, <2>7
<1> HIDE DEF T
<1>4. \A i \in 0 .. n : i \in T
  BY <1>1, <1>2, <1>3, Induction
<1> QED
  BY <1>1, <1>4 DEF T

Conns(f) == {connectionFromRow(f, row) : row \in Row}

\* What one family adds to the list.
LEMMA FamilyListed ==
  ASSUME NEW f \in Families, NEW query \in Query, NEW pids,
         NEW answer, answer = ListFamily(f, query, pids)
  PROVE  /\ Visible(query) \in Seq(Row)
         /\ answer.conns \in Seq(Conns(f)) /\ answer.err \in BOOLEAN
         /\ answer.err <=> Unreadable(f, query)
         /\ answer.err => answer.conns = <<>>
         /\ ~answer.err =>
              Lists(f, Visible(query), pids, Len(Visible(query)), answer.conns)
<1> DEFINE bufs == extendedTCPTable(f, query)
           rows == IF bufs = {} THEN <<>>
                   ELSE parseTable(CHOOSE buf \in bufs : TRUE, RowSize[f])
<1>1. answer.conns = Collected(f, rows, pids)[Len(rows)] /\ answer.err = (bufs = {})
  BY DEF ListFamily
<1>2. <<>> \in Seq(Row) /\ Len(<<>>) = 0
  OBVIOUS
<1>3. Visible(query) \in Seq(Row)
  BY <1>2 DEF Query, Visible
<1>4. bufs = {} => rows = <<>>
  OBVIOUS
<1>5. query.size # 0 => (bufs = {} <=> Unreadable(f, query))
  <2> SUFFICES ASSUME query.size # 0 PROVE bufs = {} <=> Unreadable(f, query)
    OBVIOUS
  <2> HIDE DEF bufs
  <2>1. \/ bufs = {} /\ Unreadable(f, query)
        \/ /\ ~Unreadable(f, query)
           /\ \E buf : bufs = {buf} /\ parseTable(buf, RowSize[f]) = query.table
    BY TableRead DEF bufs
  <2>2. (\E buf : bufs = {buf} /\ parseTable(buf, RowSize[f]) = query.table) => bufs # {}
    OBVIOUS
  <2> QED
    BY <2>1, <2>2
<1>6. query.size # 0 /\ bufs # {} => rows = Visible(query)
  <2> SUFFICES ASSUME query.size # 0, bufs # {} PROVE rows = Visible(query)
    OBVIOUS
  <2> HIDE DEF bufs
  <2>1. PICK buf : bufs = {buf} /\ parseTable(buf, RowSize[f]) = query.table
    BY TableRead DEF bufs
  <2>2. (CHOOSE b \in bufs : TRUE) = buf
    BY <2>1
  <2> QED
    BY <2>1, <2>2 DEF Visible
<1>7. query.size = 0 => (bufs = {} <=> Unreadable(f, query))
  BY DEF extendedTCPTable, Unreadable
<1>8. query.size = 0 /\ bufs # {} => rows = Visible(query)
  <2> SUFFICES ASSUME query.size = 0, bufs # {} PROVE rows = <<>>
    BY DEF Visible
  <2> DEFINE none == [len |-> 0, count |-> 0, rows |-> <<>>]
  <2>1. bufs = {none}
    BY DEF extendedTCPTable
  <2>2. ~tableEntries(none.len, none.count, RowSize[f])
    BY DEF tableEntries
  <2> HIDE DEF none, bufs
  <2>3. (CHOOSE b \in bufs : TRUE) = none
    BY <2>1
  <2>4. parseTable(none, RowSize[f]) = <<>>
    BY <2>2 DEF parseTable
  <2> QED
    BY <2>1, <2>3, <2>4
<1> HIDE DEF rows, bufs
<1>9. rows \in Seq(Row)
  BY <1>2, <1>3, <1>4, <1>6, <1>8
<1>10. Lists(f, rows, pids, Len(rows), answer.conns)
  BY <1>1, <1>9, CollectedLists
<1>11. answer.conns \in Seq(Conns(f))
  <2> DEFINE Conn == {connectionFromRow(f, rows[j]) : j \in Wanted(rows, pids, Len(rows))}
  <2>1. Conn \subseteq Conns(f)
    <3>1. \A j \in Wanted(rows, pids, Len(rows)) : rows[j] \in Row
      BY <1>9 DEF Wanted
    <3> QED
      BY <3>1 DEF Conns
  <2>2. answer.conns \in Seq(Conn)
    BY <1>10 DEF Lists
  <2> HIDE DEF Conn
  <2> QED
    BY <2>1, <2>2
<1>12. rows = <<>> => answer.conns = <<>>
  <2>1. Collected(f, rows, pids)[0] = <<>>
    BY <1>9, CollectedTurns
  <2>2. answer.conns = Collected(f, rows, pids)[Len(rows)]
    BY <1>1
  <2>3. rows = <<>> => Len(rows) = 0
    BY <1>2
  <2> QED
    BY <2>1, <2>2, <2>3, Zenon
<1> QED
  BY <1>1, <1>3, <1>4, <1>5, <1>6, <1>7, <1>8, <1>10, <1>11, <1>12

\* Places that follow each other without a gap are ranked by their distance.
LEMMA Ranks ==
  ASSUME NEW base \in Nat, NEW len \in Nat
  PROVE  /\ Cardinality(base + 1 .. base + len) = len
         /\ \A k \in base + 1 .. base + len : Rank(k, base + 1 .. base + len) = k - base
<1>1. Cardinality(base + 1 .. base + len) = len
  <2>1. base + 1 \in Int /\ base + len \in Int
    OBVIOUS
  <2>2. Cardinality(base + 1 .. base + len) =
          IF base + 1 > base + len THEN 0 ELSE (base + len) - (base + 1) + 1
    BY <2>1, FS_Interval
  <2> QED
    BY <2>2
<1>2. ASSUME NEW k \in base + 1 .. base + len
      PROVE  Rank(k, base + 1 .. base + len) = k - base
  <2>1. {p \in base + 1 .. base + len : p <= k} = base + 1 .. k
    OBVIOUS
  <2>2. base + 1 \in Int /\ k \in Int /\ ~(base + 1 > k)
    OBVIOUS
  <2>3. Cardinality(base + 1 .. k) = k - (base + 1) + 1
    BY <2>2, FS_Interval
  <2>4. Rank(k, base + 1 .. base + len) = Cardinality(base + 1 .. k)
    BY <2>1, Zenon DEF Rank
  <2>5. k - (base + 1) + 1 = k - base
    OBVIOUS
  <2> QED
    BY <2>3, <2>4, <2>5, Zenon
<1> QED
  BY <1>1, <1>2

\* The entries of a list of one family, the rows of a table that are wanted, and
\* that the first ones show the second ones in their order.
Entries(conns, f) == {k \in DOMAIN conns : conns[k].Family = f}
OwnRows(table, procs) == {i \in DOMAIN table : table[i].OwningPID \in procs}
Shown(f, table, procs, conns) ==
  LET listed == Entries(conns, f)
      mine == OwnRows(table, procs)
  IN  /\ Cardinality(listed) = Cardinality(mine)
      /\ \A k \in listed, i \in mine : Rank(k, listed) = Rank(i, mine) =>
           conns[k] = [PID |-> table[i].OwningPID, Family |-> f,
                       RemotePort |-> PortOnWire(table[i].RemotePort)]

\* Where the entries of the two families are in the list.
InTurn(conns, four, six) ==
  /\ Entries(conns, "IPv4") = 0 + 1 .. 0 + Len(four)
  /\ Entries(conns, "IPv6") = Len(four) + 1 .. Len(four) + Len(six)
  /\ \A k \in 0 + 1 .. 0 + Len(four) : conns[k] = four[k - 0]
  /\ \A k \in Len(four) + 1 .. Len(four) + Len(six) : conns[k] = six[k - Len(four)]

\* The two lists one after the other.
LEMMA Joined ==
  ASSUME NEW four \in Seq(Conns("IPv4")), NEW six \in Seq(Conns("IPv6"))
  PROVE  InTurn(four \o six, four, six)
<1> DEFINE conns == four \o six
<1> DEFINE A == Len(four)
           B == Len(six)
<1>1. A \in Nat /\ B \in Nat
  OBVIOUS
<1>2. \A c \in Conns("IPv4") : c.Family = "IPv4"
  BY DEF Conns, connectionFromRow
<1>3. \A c \in Conns("IPv6") : c.Family = "IPv6"
  BY DEF Conns, connectionFromRow
<1>4. \A k \in 1 .. A : four[k] \in Conns("IPv4")
  OBVIOUS
<1>5. \A k \in 1 .. B : six[k] \in Conns("IPv6")
  OBVIOUS
<1>6. DOMAIN conns = 1 .. A + B
  OBVIOUS
<1>7. \A k \in 1 .. A + B : conns[k] = IF k <= A THEN four[k] ELSE six[k - A]
  OBVIOUS
<1> HIDE DEF A, B, conns
<1>8. \A k \in 1 .. A : conns[k] = four[k] /\ conns[k].Family = "IPv4"
  <2> SUFFICES ASSUME NEW k \in 1 .. A
               PROVE  conns[k] = four[k] /\ conns[k].Family = "IPv4"
    OBVIOUS
  <2>1. k \in 1 .. A + B /\ k <= A
    BY <1>1
  <2>2. conns[k] = four[k]
    BY <1>7, <2>1
  <2> QED
    BY <1>2, <1>4, <2>2
<1>9. \A k \in A + 1 .. A + B : conns[k] = six[k - A] /\ conns[k].Family = "IPv6"
  <2> SUFFICES ASSUME NEW k \in A + 1 .. A + B
               PROVE  conns[k] = six[k - A] /\ conns[k].Family = "IPv6"
    OBVIOUS
  <2>1. k \in 1 .. A + B /\ ~(k <= A) /\ k - A \in 1 .. B
    BY <1>1
  <2>2. conns[k] = six[k - A]
    BY <1>7, <2>1
  <2> QED
    BY <1>3, <1>5, <2>1, <2>2
<1>10. \A k : k \in 1 .. A + B <=> k \in 1 .. A \/ k \in A + 1 .. A + B
  BY <1>1
<1>11. "IPv4" # "IPv6"
  OBVIOUS
<1>12. {k \in DOMAIN conns : conns[k].Family = "IPv4"} = 1 .. A
  BY <1>6, <1>8, <1>9, <1>10, <1>11
<1>13. {k \in DOMAIN conns : conns[k].Family = "IPv6"} = A + 1 .. A + B
  BY <1>6, <1>8, <1>9, <1>10, <1>11
<1>14. 0 + 1 = 1 /\ 0 + A = A /\ \A k \in 1 .. A : k - 0 = k
  BY <1>1
<1>15. InTurn(conns, four, six)
  BY <1>8, <1>9, <1>12, <1>13, <1>14 DEF A, B, Entries, InTurn
<1> QED
  BY <1>15 DEF conns

\* The rank of a wanted row among all of them.
LEMMA WantedRank ==
  ASSUME NEW rows, NEW pids, NEW n \in Nat, NEW i \in Wanted(rows, pids, n)
  PROVE  Rank(i, Wanted(rows, pids, n)) = Cardinality(Wanted(rows, pids, i))
<1>1. {p \in Wanted(rows, pids, n) : p <= i} = Wanted(rows, pids, i)
  BY DEF Wanted
<1> QED
  BY <1>1, Zenon DEF Rank

\* What one family shows of its table, from a place of the list on.
LEMMA FamilyWhole ==
  ASSUME NEW f, NEW table \in Seq(Row), NEW procs, NEW part,
         Lists(f, table, procs, Len(table), part),
         NEW base \in Nat, NEW conns,
         Entries(conns, f) = base + 1 .. base + Len(part),
         \A k \in base + 1 .. base + Len(part) : conns[k] = part[k - base]
  PROVE  Shown(f, table, procs, conns)
<1> DEFINE n == Len(table)
           listed == Entries(conns, f)
           mine == OwnRows(table, procs)
<1>1. n \in Nat /\ DOMAIN table = 1 .. n
  OBVIOUS
<1>2. mine = Wanted(table, procs, n)
  BY <1>1 DEF Wanted, OwnRows
<1>3. listed = base + 1 .. base + Len(part)
  OBVIOUS
<1> HIDE DEF listed, mine
<1>4. Len(part) = Cardinality(mine)
  BY <1>2 DEF Lists
<1>5. Len(part) \in Nat
  BY <1>1, <1>2, <1>4, WantedFinite
<1>6. Cardinality(listed) = Len(part) /\ \A k \in listed : Rank(k, listed) = k - base
  BY <1>3, <1>5, Ranks
<1>7. ASSUME NEW k \in listed, NEW i \in mine, Rank(k, listed) = Rank(i, mine)
      PROVE  conns[k] = [PID |-> table[i].OwningPID, Family |-> f,
                         RemotePort |-> PortOnWire(table[i].RemotePort)]
  <2>1. Rank(i, mine) = Cardinality(Wanted(table, procs, i))
    BY <1>1, <1>2, WantedRank
  <2>2. k - base = Cardinality(Wanted(table, procs, i))
    BY <1>6, <1>7, <2>1
  <2>3. part[Cardinality(Wanted(table, procs, i))] = connectionFromRow(f, table[i])
    BY <1>2 DEF Lists
  <2>4. conns[k] = connectionFromRow(f, table[i])
    BY <1>3, <2>2, <2>3
  <2>5. i \in 1 .. n
    BY <1>2 DEF Wanted
  <2>6. table[i] \in Row
    BY <1>1, <2>5
  <2>7. table[i].RemotePort \in Nat
    BY <2>6, TablesAssumption DEF Row
  <2>8. ntohs(table[i].RemotePort % (Byte * Byte)) = PortOnWire(table[i].RemotePort)
    BY <2>7, Ports
  <2> QED
    BY <2>4, <2>8, Zenon DEF connectionFromRow
<1>8. /\ Cardinality(listed) = Cardinality(mine)
      /\ \A k \in listed, i \in mine : Rank(k, listed) = Rank(i, mine) =>
           conns[k] = [PID |-> table[i].OwningPID, Family |-> f,
                       RemotePort |-> PortOnWire(table[i].RemotePort)]
  BY <1>4, <1>6, <1>7
<1> QED
  BY <1>8, Zenon DEF Shown, listed, mine

\* A table that changes between the two calls or a call that fails costs the list
\* nothing without a warning, and no family that was read gets one.
LEMMA NothingLostSilently ==
  ASSUME NEW procs, NEW queries \in [Families -> Query]
  PROVE  NoSilentLoss(procs, queries)
<1> DEFINE answer == listConnections(procs, queries)
           four == ListFamily("IPv4", queries.IPv4, procs)
           six == ListFamily("IPv6", queries.IPv6, procs)
           Table(f) == Visible(queries[f])
           Warned(f) == procs # {} /\ Unreadable(f, queries[f])
           Lost(f) == Entries(answer.conns, f) = {}
           Whole(f) == Shown(f, Table(f), procs, answer.conns)
<1>1. Families = {"IPv4", "IPv6"}
  BY DEF Families, RowSize
<1>2. queries.IPv4 \in Query /\ queries.IPv6 \in Query
  BY <1>1
<1>3. SUFFICES ASSUME NEW f \in Families
               PROVE  /\ f \in answer.errs <=> Warned(f)
                      /\ IF f \in answer.errs THEN Lost(f) ELSE Whole(f)
  BY DEF NoSilentLoss, Entries, OwnRows, Shown
<1>4. CASE procs = {}
  <2>1. answer.conns = <<>> /\ answer.errs = {}
    BY <1>4 DEF listConnections
  <2> HIDE DEF answer
  <2>2. Entries(answer.conns, f) = {} /\ OwnRows(Table(f), procs) = {}
    BY <1>4, <2>1 DEF Entries, OwnRows
  <2>3. Whole(f)
    BY <2>2 DEF Shown
  <2>4. ~Warned(f)
    BY <1>4
  <2> QED
    BY <2>1, <2>3, <2>4
<1>5. CASE procs # {}
  <2>1. /\ Visible(queries.IPv4) \in Seq(Row)
        /\ four.conns \in Seq(Conns("IPv4")) /\ four.err \in BOOLEAN
        /\ four.err <=> Unreadable("IPv4", queries.IPv4)
        /\ four.err => four.conns = <<>>
        /\ ~four.err =>
             Lists("IPv4", Visible(queries.IPv4), procs, Len(Visible(queries.IPv4)),
                   four.conns)
    BY <1>1, <1>2, FamilyListed
  <2>2. /\ Visible(queries.IPv6) \in Seq(Row)
        /\ six.conns \in Seq(Conns("IPv6")) /\ six.err \in BOOLEAN
        /\ six.err <=> Unreadable("IPv6", queries.IPv6)
        /\ six.err => six.conns = <<>>
        /\ ~six.err =>
             Lists("IPv6", Visible(queries.IPv6), procs, Len(Visible(queries.IPv6)),
                   six.conns)
    BY <1>1, <1>2, FamilyListed
  <2>3. answer = [conns |-> four.conns \o six.conns,
                  errs |-> {g \in Families : IF g = "IPv4" THEN four.err ELSE six.err}]
    BY <1>5, Zenon DEF listConnections, ListByPIDs
  <2> HIDE DEF answer, four, six
  <2>4. /\ answer.conns = four.conns \o six.conns
        /\ answer.errs = {g \in Families : IF g = "IPv4" THEN four.err ELSE six.err}
    BY <2>3
  <2>5. InTurn(answer.conns, four.conns, six.conns)
    <3>1. InTurn(four.conns \o six.conns, four.conns, six.conns)
      BY <2>1, <2>2, Joined
    <3> QED
      BY <2>4, <3>1, Zenon
  <2>6. Len(four.conns) \in Nat /\ Len(six.conns) \in Nat
    BY <2>1, <2>2
  <2>7. CASE f = "IPv4"
    <3>1. (f \in answer.errs <=> four.err) /\ (f \in answer.errs <=> Warned(f))
      BY <1>5, <2>4, <2>1, <2>7
    <3>2. CASE four.err
      <4>1. four.conns = <<>>
        BY <2>1, <3>2
      <4>2. Entries(answer.conns, f) = {}
        BY <2>5, <2>6, <2>7, <4>1 DEF InTurn
      <4> QED
        BY <3>1, <3>2, <4>1, <4>2
    <3>3. CASE ~four.err
      <4>1. Lists(f, Table(f), procs, Len(Table(f)), four.conns)
        BY <2>1, <2>7, <3>3
      <4>2. Table(f) \in Seq(Row)
        BY <2>1, <2>7
      <4> DEFINE base == 0
      <4>3. base \in Nat
        BY <2>6
      <4>4. Entries(answer.conns, f) = base + 1 .. base + Len(four.conns)
        BY <2>5, <2>7 DEF InTurn
      <4>5. \A k \in base + 1 .. base + Len(four.conns) : answer.conns[k] = four.conns[k - base]
        BY <2>5, <2>7 DEF InTurn
      <4> HIDE DEF base, Table
      <4>6. Shown(f, Table(f), procs, answer.conns)
        BY <4>1, <4>2, <4>3, <4>4, <4>5, FamilyWhole
      <4> QED
        BY <3>1, <3>3, <4>6
    <3> QED
      BY <3>2, <3>3
  <2>8. CASE f = "IPv6"
    <3>1. (f \in answer.errs <=> six.err) /\ (f \in answer.errs <=> Warned(f))
      BY <1>5, <2>4, <2>2, <2>8
    <3>2. CASE six.err
      <4>1. six.conns = <<>>
        BY <2>2, <3>2
      <4>2. Entries(answer.conns, f) = {}
        BY <2>5, <2>6, <2>8, <4>1 DEF InTurn
      <4> QED
        BY <3>1, <3>2, <4>1, <4>2
    <3>3. CASE ~six.err
      <4>1. Lists(f, Table(f), procs, Len(Table(f)), six.conns)
        BY <2>2, <2>8, <3>3
      <4>2. Table(f) \in Seq(Row)
        BY <2>2, <2>8
      <4> DEFINE base == Len(four.conns)
      <4>3. base \in Nat
        BY <2>6
      <4>4. Entries(answer.conns, f) = base + 1 .. base + Len(six.conns)
        BY <2>5, <2>8 DEF InTurn
      <4>5. \A k \in base + 1 .. base + Len(six.conns) : answer.conns[k] = six.conns[k - base]
        BY <2>5, <2>8 DEF InTurn
      <4> HIDE DEF base, Table
      <4>6. Shown(f, Table(f), procs, answer.conns)
        BY <4>1, <4>2, <4>3, <4>4, <4>5, FamilyWhole
      <4> QED
        BY <3>1, <3>3, <4>6
    <3> QED
      BY <3>2, <3>3
  <2> QED
    BY <1>1, <2>7, <2>8
<1> QED
  BY <1>4, <1>5

-----------------------------------------------------------------------------
(* The properties of Helpers.                                               *)

\* What a helper is called with.
Called ==
  /\ helper = "table" => input.queries \in [Families -> Query]
  /\ helper = "entries" => input.len \in 0 .. Word - 1 /\ input.count \in 0 .. Word - 1
  /\ helper = "versions" => input[1] \in Tag /\ input[2] \in Tag /\ input[3] \in Tag
  /\ helper = "parse" => input \in Seq(PartOfText)
  /\ helper = "virtualKey" => input \in Key
  /\ helper = "icon" => IsFile(input.ico) /\ input.want \in Nat

\* A helper is only called with what its parameters can hold.
THEOREM HelpersCalled == HelperSpec => []Called
<1>1. HelperInit => Called
  BY DEF HelperInit, Called
<1>2. Called /\ [HelperNext]_hvars => Called'
  <2> SUFFICES ASSUME Called, [HelperNext]_hvars PROVE Called'
    OBVIOUS
  <2>1. CASE CallTable
    BY <2>1, HelpersAssumption DEF CallTable, Called
  <2>2. CASE CallEntries
    BY <2>2 DEF CallEntries, Called
  <2>3. CASE CallVersions
    BY <2>3, HelpersAssumption DEF CallVersions, Called
  <2>4. CASE CallParse
    BY <2>4, HelpersAssumption DEF CallParse, Called
  <2>5. CASE CallVirtualKey
    BY <2>5, HelpersAssumption DEF CallVirtualKey, Called
  <2>6. CASE CallIcon
    BY <2>6, HelpersAssumption DEF CallIcon, Called
  <2>7. CASE UNCHANGED hvars
    BY <2>7 DEF hvars, Called
  <2> QED
    BY <2>1, <2>2, <2>3, <2>4, <2>5, <2>6, <2>7 DEF HelperNext
<1> QED
  BY <1>1, <1>2, PTL DEF HelperSpec

\* ListByPIDs: whatever the tables hold, however long they are and however they
\* change between the two calls, -list shows every connection or warns.
THEOREM ListAlwaysWhole == HelperSpec => []ListIsWhole
<1>1. Called => ListIsWhole
  BY NothingLostSilently DEF Called, ListIsWhole
<1> QED
  BY <1>1, HelpersCalled, PTL

\* tableEntries: no count read from a buffer makes parseV4Table or parseV6Table
\* read past its end, at the width of uint32.
THEOREM RowsAlwaysInBounds == HelperSpec => []RowsInBounds
<1>1. Called => RowsInBounds
  <2>1. \A f \in Families : RowSize[f] \in Nat \ {0}
    BY DEF Families, RowSize
  <2> SUFFICES ASSUME Called, helper = "entries", NEW f \in Families
               PROVE  InBounds(input.len, input.count, RowSize[f])
    BY DEF RowsInBounds
  <2>2. input.len \in Nat /\ input.len < Word /\ input.count \in Nat
    BY TablesAssumption DEF Called
  <2> QED
    BY <2>1, <2>2, ParsedRowsInBounds
<1> QED
  BY <1>1, HelpersCalled, PTL

\* newer orders tags of any length with numbers of any size.
THEOREM VersionsAlwaysOrdered == HelperSpec => []VersionsOrdered
<1>1. Called => VersionsOrdered
  BY OrderTheorem DEF Called, VersionsOrdered
<1> QED
  BY <1>1, HelpersCalled, PTL

\* Parse of a text of any number of parts in any order.
THEOREM BindingAlwaysMeant == HelperSpec => []BindingIsMeant
<1>1. Called => BindingIsMeant
  BY ParseIsMeant DEF Called, BindingIsMeant
<1> QED
  BY <1>1, HelpersCalled, PTL

\* virtualKey over every key of a text.
THEOREM VirtualKeysAlwaysApart == HelperSpec => []VirtualKeysApart
<1>1. Called => VirtualKeysApart
  BY NoKeysMeet, HelpersAssumption DEF Called, VirtualKeysApart, KeysApart
<1> QED
  BY <1>1, HelpersCalled, PTL

\* pickIconEntry of a directory of any length.
THEOREM IconAlwaysClosest == HelperSpec => []IconIsClosest
<1>1. Called => IconIsClosest
  BY IconClosest DEF Called, IconIsClosest
<1> QED
  BY <1>1, HelpersCalled, PTL
=============================================================================
