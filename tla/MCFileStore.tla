----------------------------- MODULE MCFileStore -----------------------------
(* FileStore with interchangeable files and visits. *)
EXTENDS FileStore, TLC

Symmetry == Permutations(Files) \cup Permutations(Visits)

(***************************************************************************)
(* Fewer behaviours, to reach a long one: uploads run one after the other,  *)
(* none fails, and no record grows old.                                     *)
(***************************************************************************)
Working == {f \in Files : pc[f] \notin {"new", "stored"}}

PlainNext ==
  /\ Next
  /\ Cardinality(Working') <= 1
  /\ \A f \in Working' : pc'[f] \notin {"failed", "abort"} /\ admitted'[f] > 0
  /\ old' = {}

PlainSpec == Init /\ [][PlainNext]_vars
=============================================================================
