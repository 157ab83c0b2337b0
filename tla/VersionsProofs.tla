--------------------------- MODULE VersionsProofs ---------------------------
(***************************************************************************)
(* The order of the versions, for tags with any number of fields.          *)
(***************************************************************************)
EXTENDS Versions, FiniteSetTheorems, WellFoundedInduction, TLAPS

\* A set of naturals that is not empty has a least element.
LEMMA Least ==
  ASSUME NEW D, D \subseteq Nat, D # {}
  PROVE  \E x \in D : \A y \in D : x <= y
<1> DEFINE Down == {0 .. i : i \in D}
<1>1. Down \subseteq FiniteSubsetsOf(Nat) /\ Down # {}
  <2>1. ASSUME NEW i \in D PROVE 0 .. i \in FiniteSubsetsOf(Nat)
    <3>1. IsFiniteSet(0 .. i)
      BY FS_Interval
    <3>2. 0 .. i \subseteq Nat
      OBVIOUS
    <3> QED
      BY <3>1, <3>2 DEF FiniteSubsetsOf
  <2> QED
    BY <2>1
<1>2. IsWellFoundedOn(StrictSubsetOrdering(Nat), FiniteSubsetsOf(Nat))
  BY FS_StrictSubsetOrderingWellFounded
<1> HIDE DEF Down
<1>3. PICK X \in Down : \A Y \in Down : ~(<<Y, X>> \in StrictSubsetOrdering(Nat))
  BY <1>1, <1>2, WFMin
<1>4. PICK x \in D : X = 0 .. x
  BY DEF Down
<1>5. ASSUME NEW y \in D, y < x PROVE FALSE
  <2>1. 0 .. y \subseteq 0 .. x /\ x \notin 0 .. y /\ x \in 0 .. x
    BY <1>5
  <2>2. 0 .. y \in SUBSET Nat /\ 0 .. x \in SUBSET Nat
    OBVIOUS
  <2>3. <<0 .. y, 0 .. x>> \in StrictSubsetOrdering(Nat)
    BY <2>1, <2>2 DEF StrictSubsetOrdering
  <2>4. 0 .. y \in Down
    BY DEF Down
  <2> QED
    BY <1>3, <1>4, <2>3, <2>4
<1> QED
  BY <1>5

\* The parts of a version are natural numbers that fit into an int.
LEMMA PartsType ==
  ASSUME NEW tag \in Tag
  PROVE  versionParts(tag) \in Seq(0 .. MaxInt)
<1>1. tag.fields \in Seq(Nat \cup {NotANumber})
  BY DEF Tag
<1>2. DOMAIN tag.fields = 1 .. Len(tag.fields) /\ Len(tag.fields) \in Nat
  BY <1>1
<1>3. ASSUME NEW i \in DOMAIN tag.fields PROVE Atoi(tag.fields[i]) \in 0 .. MaxInt
  BY <1>1, VersionsAssumption DEF Atoi
<1> QED
  BY <1>2, <1>3 DEF versionParts

\* What the loop of cmpVersion finds: the first place of all where the padded
\* versions differ, if there is one.
LEMMA Compare ==
  ASSUME NEW a \in Seq(0 .. MaxInt), NEW b \in Seq(0 .. MaxInt)
  PROVE  \/ /\ cmpVersion(a, b) = 0
            /\ \A i \in Nat : Part(a, i) = Part(b, i)
         \/ \E i \in Nat : /\ Part(a, i) # Part(b, i)
                           /\ \A j \in Nat : j < i => Part(a, j) = Part(b, j)
                           /\ cmpVersion(a, b) = Part(a, i) - Part(b, i)
<1>1. \A i : Part(a, i) # Part(b, i) => i \in Places(a, b)
  BY DEF Places, Part
<1>2. CASE Places(a, b) = {}
  BY <1>1, <1>2 DEF cmpVersion
<1>3. CASE Places(a, b) # {}
  <2> DEFINE i == First(Places(a, b))
  <2>1. Places(a, b) \subseteq Nat
    BY DEF Places
  <2>2. i \in Places(a, b) /\ \A j \in Places(a, b) : i <= j
    BY <1>3, <2>1, Least DEF First
  <2>3. i \in Nat /\ Part(a, i) # Part(b, i)
    BY <2>1, <2>2 DEF Places
  <2>4. cmpVersion(a, b) = Part(a, i) - Part(b, i)
    BY <1>3 DEF cmpVersion
  <2> HIDE DEF i
  <2>5. \A j \in Nat : j < i => Part(a, j) = Part(b, j)
    BY <1>1, <2>2, <2>3
  <2> QED
    BY <2>3, <2>4, <2>5
<1> QED
  BY <1>2, <1>3

LEMMA PartType ==
  ASSUME NEW a \in Seq(0 .. MaxInt)
  PROVE  \A i \in Nat : Part(a, i) \in 0 .. MaxInt
  BY VersionsAssumption DEF Part

Same(a, b) == \A i \in Nat : Part(a, i) = Part(b, i)
Above(a, b) == \E i \in Nat : /\ Part(a, i) > Part(b, i)
                              /\ \A j \in Nat : j < i => Part(a, j) = Part(b, j)

\* The sign of cmpVersion in terms of the parts, and its bounds.
LEMMA Sign ==
  ASSUME NEW a \in Seq(0 .. MaxInt), NEW b \in Seq(0 .. MaxInt)
  PROVE  /\ cmpVersion(a, b) > 0 <=> Above(a, b)
         /\ Same(a, b) \/ Above(a, b) \/ Above(b, a)
         /\ -MaxInt <= cmpVersion(a, b) /\ cmpVersion(a, b) <= MaxInt
<1>1. \A i \in Nat : Part(a, i) \in 0 .. MaxInt /\ Part(b, i) \in 0 .. MaxInt
  BY PartType
<1>2. MaxInt \in Nat
  BY VersionsAssumption
<1>3. CASE cmpVersion(a, b) = 0 /\ Same(a, b)
  BY <1>1, <1>2, <1>3 DEF Same, Above
<1>4. CASE ~Same(a, b)
  <2>1. PICK i \in Nat : /\ Part(a, i) # Part(b, i)
                         /\ \A j \in Nat : j < i => Part(a, j) = Part(b, j)
                         /\ cmpVersion(a, b) = Part(a, i) - Part(b, i)
    BY <1>4, Compare DEF Same
  <2>2. Part(a, i) \in 0 .. MaxInt /\ Part(b, i) \in 0 .. MaxInt
    BY <1>1
  <2>3. CASE Part(a, i) > Part(b, i)
    <3>1. Above(a, b)
      BY <2>1, <2>3 DEF Above
    <3> QED
      BY <1>2, <2>1, <2>2, <2>3, <3>1
  <2>4. CASE Part(a, i) < Part(b, i)
    <3>1. Above(b, a)
      BY <2>1, <2>2, <2>4 DEF Above
    <3>2. ~Above(a, b)
      <4> SUFFICES ASSUME Above(a, b) PROVE FALSE
        OBVIOUS
      <4>1. PICK k \in Nat : /\ Part(a, k) > Part(b, k)
                             /\ \A j \in Nat : j < k => Part(a, j) = Part(b, j)
        BY DEF Above
      <4>2. Part(a, k) \in 0 .. MaxInt /\ Part(b, k) \in 0 .. MaxInt
        BY <1>1
      <4>3. ~(k < i) /\ ~(i < k)
        BY <2>1, <4>1, <4>2
      <4>4. k = i
        BY <4>3
      <4> QED
        BY <2>2, <2>4, <4>1, <4>4
    <3> QED
      BY <1>2, <2>1, <2>2, <2>4, <3>1, <3>2
  <2> QED
    BY <2>1, <2>2, <2>3, <2>4
<1>5. Same(a, b) => cmpVersion(a, b) = 0
  BY Compare DEF Same
<1> QED
  BY <1>3, <1>4, <1>5

\* Two versions are not above each other.
LEMMA AboveAsymmetric ==
  ASSUME NEW a \in Seq(0 .. MaxInt), NEW b \in Seq(0 .. MaxInt),
         Above(a, b), Above(b, a) \/ Same(a, b)
  PROVE  FALSE
<1>1. \A i \in Nat : Part(a, i) \in 0 .. MaxInt /\ Part(b, i) \in 0 .. MaxInt
  BY PartType
<1>2. PICK i \in Nat : /\ Part(a, i) > Part(b, i)
                       /\ \A j \in Nat : j < i => Part(a, j) = Part(b, j)
  BY DEF Above
<1>3. Part(a, i) \in 0 .. MaxInt /\ Part(b, i) \in 0 .. MaxInt
  BY <1>1
<1>4. CASE Same(a, b)
  BY <1>2, <1>3, <1>4 DEF Same
<1>5. CASE Above(b, a)
  <2>1. PICK k \in Nat : /\ Part(b, k) > Part(a, k)
                         /\ \A j \in Nat : j < k => Part(b, j) = Part(a, j)
    BY <1>5 DEF Above
  <2>2. Part(a, k) \in 0 .. MaxInt /\ Part(b, k) \in 0 .. MaxInt
    BY <1>1
  <2>3. ~(k < i) /\ ~(i < k)
    BY <1>2, <1>3, <2>1, <2>2
  <2>4. k = i
    BY <2>3
  <2> QED
    BY <1>2, <1>3, <2>1, <2>4
<1> QED
  BY <1>4, <1>5

\* The first difference of a chain is the smaller of the two.
LEMMA AboveTransitive ==
  ASSUME NEW a \in Seq(0 .. MaxInt), NEW b \in Seq(0 .. MaxInt),
         NEW c \in Seq(0 .. MaxInt), Above(a, b), Above(b, c)
  PROVE  Above(a, c)
<1>1. \A i \in Nat : /\ Part(a, i) \in 0 .. MaxInt /\ Part(b, i) \in 0 .. MaxInt
                     /\ Part(c, i) \in 0 .. MaxInt
  BY PartType
<1>2. PICK i \in Nat : /\ Part(a, i) > Part(b, i)
                       /\ \A j \in Nat : j < i => Part(a, j) = Part(b, j)
  BY DEF Above
<1>3. PICK k \in Nat : /\ Part(b, k) > Part(c, k)
                       /\ \A j \in Nat : j < k => Part(b, j) = Part(c, j)
  BY DEF Above
<1> DEFINE n == IF i < k THEN i ELSE k
<1>4. n \in Nat /\ n <= i /\ n <= k /\ (n = i \/ n = k)
  OBVIOUS
<1>5. Part(a, n) > Part(c, n)
  <2>1. Part(a, i) \in 0 .. MaxInt /\ Part(b, i) \in 0 .. MaxInt
        /\ Part(c, i) \in 0 .. MaxInt
    BY <1>1
  <2>2. Part(a, k) \in 0 .. MaxInt /\ Part(b, k) \in 0 .. MaxInt
        /\ Part(c, k) \in 0 .. MaxInt
    BY <1>1
  <2>3. CASE i < k
    BY <1>2, <1>3, <2>1, <2>3
  <2>4. CASE k < i
    BY <1>2, <1>3, <2>2, <2>4
  <2>5. CASE i = k
    BY <1>2, <1>3, <2>1, <2>2, <2>5
  <2> QED
    BY <2>3, <2>4, <2>5
<1> HIDE DEF n
<1>6. \A j \in Nat : j < n => Part(a, j) = Part(c, j)
  <2> SUFFICES ASSUME NEW j \in Nat, j < n PROVE Part(a, j) = Part(c, j)
    OBVIOUS
  <2>1. j < i /\ j < k
    BY <1>4
  <2> QED
    BY <1>2, <1>3, <2>1
<1> QED
  BY <1>4, <1>5, <1>6 DEF Above

LEMMA AboveSame ==
  ASSUME NEW a, NEW b, NEW c
  PROVE  /\ Same(a, b) /\ Above(b, c) => Above(a, c)
         /\ Above(a, b) /\ Same(b, c) => Above(a, c)
         /\ Same(a, b) /\ Same(b, c) => Same(a, c)
         /\ Same(a, b) <=> Same(b, a)
  BY DEF Same, Above

\* A place of a version is what the tag has there, read as a number.
LEMMA PartOfField ==
  ASSUME NEW x \in Tag, NEW i \in Nat
  PROVE  Part(versionParts(x), i) = Atoi(Field(x, i))
<1>1. Atoi(0) = 0
  BY VersionsAssumption DEF Atoi
<1> QED
  BY <1>1 DEF Part, versionParts, Field

\* Tags of one release have the same parts, and so have, of the plain ones, only
\* those.
LEMMA SameRelease ==
  ASSUME NEW x \in Tag, NEW y \in Tag
  PROVE  /\ OneRelease(x, y) => Same(versionParts(x), versionParts(y))
         /\ Plain(x) /\ Plain(y) /\ Same(versionParts(x), versionParts(y)) =>
              OneRelease(x, y)
<1>1. \A i \in Nat : /\ Part(versionParts(x), i) = Atoi(Field(x, i))
                     /\ Part(versionParts(y), i) = Atoi(Field(y, i))
  BY PartOfField
<1>2. OneRelease(x, y) => \A i \in Nat : Field(x, i) = Field(y, i)
  BY DEF OneRelease, Field
<1>3. Plain(x) /\ Plain(y) =>
        \A i \in Nat : Field(x, i) \in 0 .. MaxInt /\ Field(y, i) \in 0 .. MaxInt
  BY VersionsAssumption DEF Plain, Field
<1>4. \A n \in 0 .. MaxInt : Atoi(n) = n
  BY VersionsAssumption DEF Atoi
<1>5. DOMAIN x.fields \cup DOMAIN y.fields \subseteq Nat
  BY DEF Tag
<1>6. ASSUME Plain(x), Plain(y), Same(versionParts(x), versionParts(y)), NEW i \in Nat
      PROVE  Field(x, i) = Field(y, i)
  <2>1. Atoi(Field(x, i)) = Atoi(Field(y, i))
    BY <1>1, <1>6 DEF Same
  <2> QED
    BY <1>3, <1>4, <1>6, <2>1
<1> QED
  BY <1>1, <1>2, <1>5, <1>6 DEF Same, OneRelease

\* Releases form a strict order with ties: no two tags are each newer than the
\* other, both "newer" and "not newer" are transitive, and of plain tags exactly those
\* of one release are ties.  Update may number
\* the releases, and no sequence of updates comes back to where it was.
THEOREM OrderTheorem ==
  ASSUME NEW x \in Tag, NEW y \in Tag, NEW z \in Tag
  PROVE  Ordered(x, y, z)
<1> DEFINE a == versionParts(x)
           b == versionParts(y)
           c == versionParts(z)
<1>1. a \in Seq(0 .. MaxInt) /\ b \in Seq(0 .. MaxInt) /\ c \in Seq(0 .. MaxInt)
  BY PartsType
<1>2. /\ newer(x, y) <=> cmpVersion(a, b) > 0
      /\ newer(y, x) <=> cmpVersion(b, a) > 0
      /\ newer(y, z) <=> cmpVersion(b, c) > 0
      /\ newer(x, z) <=> cmpVersion(a, c) > 0
  BY DEF newer
<1>3. /\ OneRelease(x, y) => Same(a, b)
      /\ Plain(x) /\ Plain(y) /\ Same(a, b) => OneRelease(x, y)
  BY SameRelease
<1> HIDE DEF a, b, c
<1>4. /\ newer(x, y) <=> Above(a, b)
      /\ newer(y, x) <=> Above(b, a)
      /\ newer(y, z) <=> Above(b, c)
      /\ newer(x, z) <=> Above(a, c)
  BY <1>1, <1>2, Sign
<1>5. ~(newer(x, y) /\ newer(y, x))
  BY <1>1, <1>4, AboveAsymmetric
<1>6. newer(x, y) /\ newer(y, z) => newer(x, z)
  BY <1>1, <1>4, AboveTransitive
<1>7. ASSUME ~newer(x, y), ~newer(y, z) PROVE ~newer(x, z)
  <2>1. (Same(a, b) \/ Above(b, a)) /\ (Same(b, c) \/ Above(c, b))
    BY <1>1, <1>4, <1>7, Sign
  <2>2. Same(c, a) \/ Above(c, a)
    <3>1. Above(b, a) /\ Above(c, b) => Above(c, a)
      BY <1>1, AboveTransitive
    <3> QED
      BY <2>1, <3>1, AboveSame
  <2>3. Same(a, c) \/ Above(c, a)
    BY <2>2, AboveSame
  <2> QED
    BY <1>1, <1>4, <2>3, AboveAsymmetric
<1>8. -MaxInt <= cmpVersion(a, b) /\ cmpVersion(a, b) <= MaxInt
  BY <1>1, Sign
<1>9. OneRelease(x, y) => ~newer(x, y) /\ ~newer(y, x)
  BY <1>1, <1>4, <1>3, AboveAsymmetric, AboveSame
<1>10. Plain(x) /\ Plain(y) /\ ~OneRelease(x, y) => newer(x, y) \/ newer(y, x)
  BY <1>1, <1>4, <1>3, Sign
<1> QED
  BY <1>5, <1>6, <1>7, <1>8, <1>9, <1>10 DEF Ordered, a, b

\* Releases can be numbered, whatever their tags, so that a newer one has a higher
\* number: Update, which compares the releases of GitHub as numbers, loses no
\* behaviour by it.  A tag gets the number of tags it is newer than.
THEOREM ReleasesNumbered ==
  ASSUME NEW Tags, Tags \subseteq Tag, IsFiniteSet(Tags)
  PROVE  \E number \in [Tags -> Nat] :
           \A x, y \in Tags : newer(x, y) <=> number[x] > number[y]
<1> DEFINE Below(x) == {z \in Tags : newer(x, z)}
           number == [x \in Tags |-> Cardinality(Below(x))]
<1>1. ASSUME NEW x \in Tags
      PROVE  IsFiniteSet(Below(x)) /\ Cardinality(Below(x)) \in Nat
  <2>1. Below(x) \subseteq Tags
    OBVIOUS
  <2> QED
    BY <2>1, FS_Subset, FS_CardinalityType
<1>2. ASSUME NEW x \in Tags, NEW y \in Tags, newer(x, y)
      PROVE  Cardinality(Below(x)) > Cardinality(Below(y))
  <2>1. Below(y) \subseteq Below(x)
    BY <1>2, OrderTheorem DEF Ordered
  <2>2. y \in Below(x) /\ y \notin Below(y)
    BY <1>2, OrderTheorem DEF Ordered
  <2> HIDE DEF Below
  <2>3. Cardinality(Below(y)) < Cardinality(Below(x))
    BY <1>1, <2>1, <2>2, FS_Subset
  <2> QED
    BY <1>1, <2>3
<1>3. ASSUME NEW x \in Tags, NEW y \in Tags, ~newer(x, y)
      PROVE  ~(Cardinality(Below(x)) > Cardinality(Below(y)))
  <2>1. Below(x) \subseteq Below(y)
    BY <1>3, OrderTheorem DEF Ordered
  <2> HIDE DEF Below
  <2>2. Cardinality(Below(x)) <= Cardinality(Below(y))
    BY <1>1, <2>1, FS_Subset
  <2> QED
    BY <1>1, <2>2
<1> HIDE DEF Below
<1>4. number \in [Tags -> Nat]
  BY <1>1
<1>5. \A x, y \in Tags : newer(x, y) <=> number[x] > number[y]
  BY <1>2, <1>3
<1> QED
  BY <1>4, <1>5
=============================================================================
