------------------------------ MODULE Versions ------------------------------
(***************************************************************************)
(* internal/update, update.go: how a release tag is compared with the      *)
(* version of the build.  A tag is the list of its dot-separated fields    *)
(* and whether a pre-release or build suffix follows; a field is a number, *)
(* or NotANumber for a text strconv.Atoi cannot read.                      *)
(***************************************************************************)
EXTENDS Integers, Sequences

CONSTANTS
  MaxInt,     \* the largest int of the build
  NotANumber  \* a field that is not a number

ASSUME VersionsAssumption == MaxInt \in Nat /\ NotANumber \in Int \ Nat

Tag == [fields : Seq(Nat \cup {NotANumber}), suffix : BOOLEAN]

\* A number too large is an error as well, but Atoi returns MaxInt with it.
Atoi(field) ==
  IF field = NotANumber THEN 0 ELSE IF field > MaxInt THEN MaxInt ELSE field

\* The "v" and the suffix are cut off.
versionParts(tag) == [i \in DOMAIN tag.fields |-> Atoi(tag.fields[i])]

Part(parts, i) == IF i \in DOMAIN parts THEN parts[i] ELSE 0

\* Fault: the parts beyond the shorter version are not looked at.
CommonPlaces(a, b) == {i \in DOMAIN a \cap DOMAIN b : Part(a, i) # Part(b, i)}

\* Where two versions differ, the shorter one padded with zeros.
Places(a, b) == {i \in DOMAIN a \cup DOMAIN b : Part(a, i) # Part(b, i)}

First(places) == CHOOSE i \in places : \A j \in places : i <= j

\* The loop returns the difference at the first such place.
cmpVersion(a, b) ==
  IF Places(a, b) = {} THEN 0
  ELSE Part(a, First(Places(a, b))) - Part(b, First(Places(a, b)))

newer(latest, current) ==
  cmpVersion(versionParts(latest), versionParts(current)) > 0

-----------------------------------------------------------------------------
(* Properties.                                                              *)

\* Tags of one release differ in trailing zeros and suffixes at most.
Field(tag, i) == IF i \in DOMAIN tag.fields THEN tag.fields[i] ELSE 0
OneRelease(a, b) ==
  \A i \in DOMAIN a.fields \cup DOMAIN b.fields : Field(a, i) = Field(b, i)

\* Every field is a number that fits into an int.
Plain(tag) == \A i \in DOMAIN tag.fields : tag.fields[i] \in 0 .. MaxInt

\* Tags form a strict order in which those of one release stand at one place, and
\* plain tags of different releases do not: an update chain cannot come back to
\* a version it has left, and the difference of two parts does not overflow.
Ordered(a, b, c) ==
  /\ ~(newer(a, b) /\ newer(b, a))
  /\ newer(a, b) /\ newer(b, c) => newer(a, c)
  /\ ~newer(a, b) /\ ~newer(b, c) => ~newer(a, c)
  /\ OneRelease(a, b) => ~newer(a, b) /\ ~newer(b, a)
  /\ Plain(a) /\ Plain(b) /\ ~OneRelease(a, b) => newer(a, b) \/ newer(b, a)
  /\ LET d == cmpVersion(versionParts(a), versionParts(b)) IN -MaxInt <= d /\ d <= MaxInt
=============================================================================
