---------------------------- MODULE AtomicConfig ----------------------------
(***************************************************************************)
(* What the users of the configuration file are promised (cli/README.md:    *)
(* "every write is atomic"): the file always holds a whole configuration,   *)
(* and it changes only in one step, to what one command makes of a          *)
(* configuration that some process read.  Processes may overlap, and one    *)
(* that gives up or dies has no effect.                                     *)
(***************************************************************************)
EXTENDS ConfigData

CONSTANTS Procs,   \* processes
          Nothing  \* a process that has not read

VARIABLES file,  \* the configuration, None while there is no file
          seen   \* per process: the configuration it read, or Nothing

Contents == IF file = None THEN EmptyConfig ELSE Parsed(file)

Init == file = None /\ seen = [p \in Procs |-> Nothing]

Read(p) ==
  /\ seen[p] = Nothing
  /\ seen' = [seen EXCEPT ![p] = Contents]
  /\ UNCHANGED file

Replace(p) ==
  /\ seen[p] # Nothing
  /\ \E c \in Commands : file' = Changed(c, seen[p])
  /\ seen' = [seen EXCEPT ![p] = Nothing]

GiveUp(p) ==
  /\ seen[p] # Nothing
  /\ seen' = [seen EXCEPT ![p] = Nothing]
  /\ UNCHANGED file

Next == \E p \in Procs : Read(p) \/ Replace(p) \/ GiveUp(p)

Spec == Init /\ [][Next]_<<file, seen>>
=============================================================================
