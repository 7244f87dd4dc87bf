--------------------------- MODULE ConfigCommands ---------------------------
(***************************************************************************)
(* Processes of the CLI that change the one configuration file:             *)
(* mcp devices connect and disconnect.  A process reads the file when it    *)
(* starts (cli/src/context.ts), changes its copy, writes a temporary file   *)
(* named after its pid and renames it over the configuration                *)
(* (cli/src/config.ts).  Inside a process nothing interleaves; processes    *)
(* interleave at their calls to the file system, may fail at any of them    *)
(* and may be killed.  Pids are reused.  Read-only commands and the probe   *)
(* after a connect do not touch the file and are left out.                  *)
(***************************************************************************)
EXTENDS ConfigData, Integers

CONSTANTS Procs,        \* pids
          MaxCommands,  \* bound: commands started
          Torn          \* a file that was opened and is not yet written

ASSUME FileAssumption ==
  Torn # None /\ Torn \notin Configs /\ None \notin Configs /\ MaxCommands \in Nat

VARIABLES config,   \* the configuration file, None while there is none
          tmp,      \* per pid: its temporary file, None when there is none
          proc,     \* per pid: the process
          overtaken,  \* history, per pid: another process renamed since it read
          commands  \* commands started so far (bound)

cvars == <<config, tmp, proc, overtaken, commands>>

Stopped == [pc |-> "stopped", command |-> None, read |-> None]
Steps == {"loaded", "writing", "written"}

\* loadConfig: no file and an empty file read as the empty configuration.
Loaded == IF config \in {None, Torn} THEN EmptyConfig ELSE Parsed(config)

-----------------------------------------------------------------------------
ConfigInit ==
  /\ config = None
  /\ tmp = [p \in Procs |-> None]
  /\ proc = [p \in Procs |-> Stopped]
  /\ overtaken = [p \in Procs |-> FALSE]
  /\ commands = 0

\* makeCtx.  A disconnect of a device that is not configured ends at once.
Load(p, c) ==
  /\ proc[p].pc = "stopped"
  /\ commands < MaxCommands
  /\ c.kind = "disconnect" => Loaded.devices[c.device] # None
  /\ proc' = [proc EXCEPT ![p] = [pc |-> "loaded", command |-> c, read |-> Loaded]]
  /\ overtaken' = [overtaken EXCEPT ![p] = FALSE]
  /\ commands' = commands + 1
  /\ UNCHANGED <<config, tmp>>

\* Mutant: the configuration is written in place.
OpenInPlace(p) ==
  /\ proc[p].pc = "loaded"
  /\ config' = Torn
  /\ proc' = [proc EXCEPT ![p].pc = "writing"]
  /\ UNCHANGED <<tmp, overtaken, commands>>

\* saveConfig: writeFileSync opens the temporary file and fills it.
OpenTmp(p) ==
  /\ proc[p].pc = "loaded"
  /\ tmp' = [tmp EXCEPT ![p] = Torn]
  /\ proc' = [proc EXCEPT ![p].pc = "writing"]
  /\ UNCHANGED <<config, overtaken, commands>>

FillTmp(p) ==
  /\ proc[p].pc = "writing"
  /\ tmp' = [tmp EXCEPT ![p] = Changed(proc[p].command, proc[p].read)]
  /\ proc' = [proc EXCEPT ![p].pc = "written"]
  /\ UNCHANGED <<config, overtaken, commands>>

\* Mutant: the rename does not wait for the write.
RenameEarly(p) ==
  /\ proc[p].pc \in {"writing", "written"}
  /\ config' = tmp[p]
  /\ tmp' = [tmp EXCEPT ![p] = None]
  /\ proc' = [proc EXCEPT ![p] = Stopped]
  /\ overtaken' = [q \in Procs |-> q # p \/ overtaken[q]]
  /\ UNCHANGED commands

\* saveConfig: renameSync.
Rename(p) ==
  /\ proc[p].pc = "written"
  /\ config' = tmp[p]
  /\ tmp' = [tmp EXCEPT ![p] = None]
  /\ proc' = [proc EXCEPT ![p] = Stopped]
  /\ overtaken' = [q \in Procs |-> q # p \/ overtaken[q]]
  /\ UNCHANGED commands

\* saveConfig: an error of one of its calls.  The temporary file is removed,
\* except when the directory could not be made.
SaveFails(p) ==
  /\ proc[p].pc \in Steps
  /\ \/ proc[p].pc = "loaded" /\ UNCHANGED tmp
     \/ tmp' = [tmp EXCEPT ![p] = None]
  /\ proc' = [proc EXCEPT ![p] = Stopped]
  /\ UNCHANGED <<config, overtaken, commands>>

\* The process is killed and leaves what it has written.
Killed(p) ==
  /\ proc[p].pc \in Steps
  /\ proc' = [proc EXCEPT ![p] = Stopped]
  /\ UNCHANGED <<config, tmp, overtaken, commands>>

ConfigStep(p) ==
  \/ \E c \in Commands : Load(p, c)
  \/ OpenTmp(p) \/ FillTmp(p) \/ Rename(p)
  \/ SaveFails(p) \/ Killed(p)

ConfigNext == \E p \in Procs : ConfigStep(p)

ConfigSpec == ConfigInit /\ [][ConfigNext]_cvars

-----------------------------------------------------------------------------
(* Properties.                                                              *)

\* Every variable has its type, and the configuration is never torn.
ConfigTypeOK ==
  /\ config \in Configs \cup {None}
  /\ tmp \in [Procs -> Configs \cup {None, Torn}]
  /\ proc \in [Procs -> {Stopped} \cup
                 [pc : Steps, command : Commands, read : Configs]]
  /\ overtaken \in [Procs -> BOOLEAN]
  /\ commands \in 0 .. MaxCommands

\* The file behaves as AtomicConfig promises: readers and crashes at any moment
\* find a whole configuration, and it changes only to what one command makes of
\* one it read (config.ts:17-18, "writes are atomic (temp file + rename) so a
\* crash cannot truncate it").
Atomic == INSTANCE AtomicConfig
  WITH file <- config,
       seen <- [p \in Procs |-> proc[p].read],
       Nothing <- None
WritesAreAtomic == Atomic!Spec

\* What the readers of two configurations find for a device and a field.
Entry(text, d) ==
  IF text = None \/ text.devices[d] = None THEN Unset ELSE Strings(text.devices[d])
DefaultsOf(text) == IF text = None THEN Unset ELSE Strings(text.defaults)

\* A rename changes only what its command was given: the fields named on the
\* command line, the entry of the device it disconnects, the defaults when asked
\* to.  All other devices, fields and defaults are kept, unless another process
\* replaced the file after this one had read it (devices.ts:54-55, "Merge rather
\* than replace: re-running connect without --token must keep the credentials
\* already stored"; config.ts:163).
OthersKept ==
  [][\A p \in Procs :
       Rename(p) /\ ~overtaken[p] =>
         LET c == proc[p].command
         IN /\ \A d \in Devices, f \in Fields :
                 Entry(config', d)[f] # Entry(config, d)[f] =>
                   d = c.device /\ (c.kind = "disconnect" \/ c.given[f] # None)
            /\ \A f \in Fields :
                 DefaultsOf(config')[f] # DefaultsOf(config)[f] =>
                   c.setDefault /\ c.given[f] # None]_cvars
=============================================================================
