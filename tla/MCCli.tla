------------------------------- MODULE MCCli -------------------------------
(* The processes of the CLI: the ones that replace a file, the configuration *)
(* or the installed program, and the one that runs a batch of tool calls.    *)
(* They share no state, so a behaviour is about one of the three.            *)
EXTENDS ConfigCommands, UpdateCommands, ToolCalls, TLC

CONSTANTS d1, d2, p1, p2, x, blank

VARIABLE about

\* Versions by date; identifiers in the order of their text: 1, 10, 1a, 2, 9, rc.
Id(num, text) == [num |-> num, text |-> text]
V(day, pre, build) == [core |-> <<26, 10, day>>, pre |-> pre, build |-> build]
R(version, prerelease, asset, sums) ==
  [version |-> version, prerelease |-> prerelease, asset |-> asset, sums |-> sums]

Day3 == V(3, <<>>, <<>>)
Day4 == V(4, <<>>, <<>>)
Day4Build2 == V(4, <<>>, <<Id(2, 4)>>)
Day4Build10 == V(4, <<>>, <<Id(10, 2)>>)
Day5Rc == V(5, <<Id(NaN, 6)>>, <<>>)

SomeReleases ==
  {R(Day4Build2, FALSE, TRUE, TRUE), R(Day4Build10, FALSE, TRUE, TRUE),
   R(Day5Rc, TRUE, TRUE, TRUE), R(Day3, FALSE, TRUE, FALSE)}

Init ==
  /\ ConfigInit /\ UpdateInit /\ BatchInit
  /\ about \in {"config", "program", "batch"}
  /\ about # "program" => ~windows
  /\ about # "batch" => mode = "auto" /\ workers = 1 /\ session

Next ==
  /\ UNCHANGED about
  /\ \/ about = "config" /\ ConfigNext /\ UNCHANGED <<uvars, bvars>>
     \/ about = "program" /\ UpdateNext /\ UNCHANGED <<cvars, bvars>>
     \/ about = "batch" /\ BatchNext /\ UNCHANGED <<cvars, uvars>>

Spec == Init /\ [][Next]_<<cvars, uvars, bvars, about>>

\* The fairness of a batch; nothing else of the CLI has to go on.
FairSpec ==
  Spec /\ \A c \in Calls : /\ WF_bvars(about = "batch" /\ Take(c))
                           /\ WF_bvars(about = "batch" /\ FetchRejects(c))

\* All parts have their types.
TypeOK == ConfigTypeOK /\ UpdateTypeOK /\ BatchTypeOK

\* Every call of a batch gets an outcome: neither a failure nor a silent gateway
\* stops the pool.
BatchEnds == about = "batch" => AllSettled

\* The members of these sets stand for one another.  A behaviour about a batch
\* has none of them in a variable that changes, so BatchEnds loses nothing.
Symmetry == Permutations({d1, d2}) \cup Permutations({p1, p2})
=============================================================================
