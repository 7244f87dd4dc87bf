------------------------------ MODULE Versions ------------------------------
(***************************************************************************)
(* The order of versions of the CLI (cli/src/version.ts): SemVer precedence *)
(* with build metadata as a tiebreak.                                       *)
(*                                                                          *)
(* A version is [core, pre, build]: three numbers and two sequences of      *)
(* identifiers.  An identifier is [num, text]: its value, or NaN when it is *)
(* not all digits, and its place among all identifiers as JavaScript orders *)
(* strings.  Every version here is valid (isValidVersion).                  *)
(***************************************************************************)
EXTENDS Integers, Sequences

NaN == -1

Least(S) == CHOOSE i \in S : \A j \in S : i <= j

Longer(a, b) == IF Len(a) >= Len(b) THEN Len(a) ELSE Len(b)

\* The loop both comparisons of identifiers share: the first place at which the
\* sequences differ decides, and a sequence that ends there is the lower one.
CompareLists(a, b, Order(_, _)) ==
  LET differ == {i \in 1 .. Longer(a, b) :
                   i > Len(a) \/ i > Len(b) \/ a[i] # b[i]}
      i == Least(differ)
  IN IF differ = {} THEN 0
     ELSE IF i > Len(a) THEN -1
     ELSE IF i > Len(b) THEN 1
     ELSE Order(a[i], b[i])

Below(x, y) == IF x < y THEN -1 ELSE 1

\* Prerelease identifiers: numbers rank below words.
PreOrder(left, right) ==
  IF left.num # NaN /\ right.num # NaN THEN Below(left.num, right.num)
  ELSE IF left.num # NaN THEN -1
  ELSE IF right.num # NaN THEN 1
  ELSE Below(left.text, right.text)

\* Build identifiers: two numbers by value, all else by text.
BuildOrder(left, right) ==
  IF left.num # NaN /\ right.num # NaN
  THEN Below(left.num, right.num)
  ELSE Below(left.text, right.text)

CompareBuild(a, b) == CompareLists(a, b, BuildOrder)

\* Negative, 0 or positive as a is lower than, equal to or higher than b.
CompareVersions(a, b) ==
  LET core == CompareLists(a.core, b.core, Below)
      pre == CompareLists(a.pre, b.pre, PreOrder)
  IN IF core # 0 THEN core
     ELSE IF a.pre = <<>> /\ b.pre # <<>> THEN 1
     ELSE IF a.pre # <<>> /\ b.pre = <<>> THEN -1
     ELSE IF pre # 0 THEN pre
     ELSE CompareBuild(a.build, b.build)
=============================================================================
