----------------------------- MODULE Cli_proofs -----------------------------
(***************************************************************************)
(* Proofs about the CLI, for any number of processes, devices, commands and *)
(* releases.                                                                *)
(*                                                                          *)
(* Configuration: a process that has written its temporary file has in it   *)
(* what its command makes of the configuration it read, so the rename is    *)
(* one step of AtomicConfig; and as long as no other process renamed, what  *)
(* it read is what a reader of the file still finds.                        *)
(*                                                                          *)
(* Updates: CompareVersions is an order of versions, the loop of            *)
(* selectLatest ends at a release no other one that counts is higher than,  *)
(* and what an update has chosen, fetched and verified stays so until it    *)
(* renames.                                                                 *)
(***************************************************************************)
EXTENDS MCCli, ToolCalls_proofs, SumTheorems

\* What the temporary file and the copy in memory hold.
ProcInv(p) ==
  /\ proc[p].pc = "written" => tmp[p] = Changed(proc[p].command, proc[p].read)
  /\ proc[p].pc \in Steps /\ ~overtaken[p] => proc[p].read = Loaded

ConfigInv ==
  /\ ConfigTypeOK
  /\ \A p \in Procs : ProcInv(p)

-----------------------------------------------------------------------------
(* What the operators of ConfigData return.                                 *)

\* Sections of the configuration, read and merged, are sections.
LEMMA SectionFacts ==
  /\ Unset \in Section
  /\ \A s \in Section : Strings(s) \in Section
  /\ \A s, t \in Section : Merged(s, t) \in Section
BY ConfigAssumption DEF Unset, Section, Strings, Merged

\* What is parsed is a configuration.
LEMMA ConfigFacts ==
  /\ EmptyConfig \in Configs
  /\ \A text \in Configs : Parsed(text) \in Configs
BY SectionFacts DEF EmptyConfig, Configs, Parsed

\* The parts of a command.
LEMMA CommandFacts ==
  ASSUME NEW c \in Commands
  PROVE  /\ c.kind \in {"connect", "disconnect"}
         /\ c.device \in Devices
         /\ c.given \in Section
         /\ c.setDefault \in BOOLEAN
BY SectionFacts DEF Commands, Overrides

\* A command turns a configuration into a configuration.
LEMMA ChangedType ==
  ASSUME NEW c \in Commands, NEW cfg \in Configs
  PROVE  Changed(c, cfg) \in Configs
<1>1. c.device \in Devices /\ c.given \in Section
  BY CommandFacts
<1>2. /\ cfg.defaults \in Section
      /\ cfg.devices \in [Devices -> Section \cup {None}]
  BY DEF Configs
<1>3. Connected(c, cfg) \in Configs
  <2> DEFINE old == IF cfg.devices[c.device] = None THEN Unset ELSE cfg.devices[c.device]
  <2>1. old \in Section
    BY <1>1, <1>2, SectionFacts
  <2>2. /\ Merged(cfg.defaults, c.given) \in Section
        /\ Merged(old, c.given) \in Section
    BY <1>1, <1>2, <2>1, SectionFacts
  <2> HIDE DEF old
  <2>3. [cfg.devices EXCEPT ![c.device] = Merged(old, c.given)]
          \in [Devices -> Section \cup {None}]
    BY <1>2, <2>2
  <2>q. QED
    BY <1>2, <2>2, <2>3 DEF Connected, Configs, old
<1>4. Disconnected(c, cfg) \in Configs
  BY <1>2 DEF Disconnected, Configs
<1>q. QED
  BY <1>3, <1>4 DEF Changed

\* What a command loads is a configuration.
LEMMA LoadedType ==
  ASSUME ConfigTypeOK
  PROVE  Loaded \in Configs
BY ConfigFacts DEF ConfigTypeOK, Loaded

-----------------------------------------------------------------------------
\* At first no command is under way.
LEMMA InitInv == ConfigInit => ConfigInv
BY FileAssumption
DEF ConfigInit, ConfigInv, ConfigTypeOK, ProcInv, Stopped, Steps

\* A process that is under way.
LEMMA RunningType ==
  ASSUME ConfigTypeOK, NEW p \in Procs, proc[p].pc \in Steps
  PROVE  proc[p] \in [pc : Steps, command : Commands, read : Configs]
BY DEF ConfigTypeOK, Steps, Stopped

\* Every step keeps the types.
LEMMA TypeStep ==
  ASSUME ConfigInv, [ConfigNext]_cvars
  PROVE  ConfigTypeOK'
<1> USE DEF ConfigInv, ConfigTypeOK
<1>1. CASE UNCHANGED cvars
  BY <1>1 DEF cvars
<1>2. ASSUME NEW p \in Procs, ConfigStep(p)
      PROVE  ConfigTypeOK'
  <2>1. ASSUME NEW c \in Commands, Load(p, c)
        PROVE  ConfigTypeOK'
    <3>1. [pc |-> "loaded", command |-> c, read |-> Loaded]
            \in [pc : Steps, command : Commands, read : Configs]
      BY LoadedType DEF Steps
    <3>q. QED
      BY <2>1, <3>1, FileAssumption DEF Load
  <2>2. CASE OpenTmp(p)
    BY <2>2, RunningType DEF OpenTmp, Steps
  <2>3. CASE FillTmp(p)
    <3>1. Changed(proc[p].command, proc[p].read) \in Configs
      BY <2>3, RunningType, ChangedType DEF FillTmp, Steps
    <3>q. QED
      BY <2>3, <3>1, RunningType DEF FillTmp, Steps
  <2>4. CASE Rename(p)
    <3>1. tmp[p] \in Configs
      BY <2>4, RunningType, ChangedType DEF Rename, ProcInv, Steps
    <3>q. QED
      BY <2>4, <3>1 DEF Rename
  <2>5. CASE SaveFails(p)
    BY <2>5 DEF SaveFails
  <2>6. CASE Killed(p)
    BY <2>6 DEF Killed
  <2>q. QED
    BY <1>2, <2>1, <2>2, <2>3, <2>4, <2>5, <2>6 DEF ConfigStep
<1>q. QED
  BY <1>1, <1>2 DEF ConfigNext

\* Every step keeps what a process knows of its file and of the configuration.
LEMMA InvStep ==
  ASSUME ConfigInv, [ConfigNext]_cvars
  PROVE  ConfigInv'
<1>0. ConfigTypeOK'
  BY TypeStep
<1> SUFFICES ASSUME NEW q \in Procs
             PROVE  ProcInv(q)'
  BY <1>0 DEF ConfigInv
<1>t. ConfigTypeOK /\ ProcInv(q)
  BY DEF ConfigInv
<1>1. CASE UNCHANGED cvars
  BY <1>t, <1>1 DEF cvars, ProcInv, Loaded
<1>2. ASSUME NEW p \in Procs, ConfigStep(p)
      PROVE  ProcInv(q)'
  <2>1. CASE \E c \in Commands : Load(p, c)
    BY <1>t, <2>1 DEF Load, ProcInv, Loaded, ConfigTypeOK, Stopped, Steps
  <2>2. CASE OpenTmp(p)
    BY <1>t, <2>2, RunningType DEF OpenTmp, ProcInv, Loaded, ConfigTypeOK, Steps
  <2>3. CASE FillTmp(p)
    BY <1>t, <2>3, RunningType DEF FillTmp, ProcInv, Loaded, ConfigTypeOK, Steps
  <2>4. CASE Rename(p)
    BY <1>t, <2>4 DEF Rename, ProcInv, ConfigTypeOK, Stopped, Steps
  <2>5. CASE SaveFails(p)
    BY <1>t, <2>5 DEF SaveFails, ProcInv, Loaded, ConfigTypeOK, Stopped, Steps
  <2>6. CASE Killed(p)
    BY <1>t, <2>6 DEF Killed, ProcInv, Loaded, ConfigTypeOK, Stopped, Steps
  <2>q. QED
    BY <1>2, <2>1, <2>2, <2>3, <2>4, <2>5, <2>6 DEF ConfigStep
<1>q. QED
  BY <1>1, <1>2 DEF ConfigNext

\* The invariant holds always.
THEOREM ConfigInvariant == ConfigSpec => []ConfigInv
BY InitInv, InvStep, PTL DEF ConfigSpec

\* Every variable has its type, and the configuration is never torn, at
\* whatever call a process of the CLI fails or dies.
THEOREM ConfigTypeCorrect == ConfigSpec => []ConfigTypeOK
BY ConfigInvariant, PTL DEF ConfigInv

-----------------------------------------------------------------------------
(* The refinement.                                                          *)

\* The first states of the refinement.
LEMMA InitAtomic == ConfigInit => Atomic!Init
BY DEF ConfigInit, Atomic!Init, Stopped

\* Every step is a step of AtomicConfig or leaves its state alone.
LEMMA StepAtomic ==
  ASSUME ConfigInv, [ConfigNext]_cvars
  PROVE  [Atomic!Next]_(<<config, [p \in Procs |-> proc[p].read]>>)
<1> DEFINE read == [p \in Procs |-> proc[p].read]
<1>t. ConfigTypeOK
  BY DEF ConfigInv
<1>1. CASE UNCHANGED cvars
  BY <1>1 DEF cvars
<1>2. ASSUME NEW p \in Procs, ConfigStep(p)
      PROVE  Atomic!Next \/ UNCHANGED <<config, read>>
  <2>r. proc[p].pc \in Steps => read[p] # None /\ proc[p].read \in Configs
    BY <1>t, RunningType, FileAssumption
  <2>1. ASSUME NEW c \in Commands, Load(p, c)
        PROVE  Atomic!Read(p)
    <3>1. proc[p] = Stopped
      BY <1>t, <2>1 DEF Load, ConfigTypeOK, Steps
    <3>2. read' = [read EXCEPT ![p] = Loaded]
      BY <1>t, <2>1 DEF Load, ConfigTypeOK
    <3>3. Atomic!Contents = Loaded
      BY <1>t, FileAssumption DEF Loaded, Atomic!Contents, ConfigTypeOK,
         Atomic!EmptyConfig, EmptyConfig, Atomic!Parsed, Parsed, Atomic!Strings, Strings,
         Atomic!Fields, Fields, Atomic!Unset, Unset
    <3>q. QED
      BY <2>1, <3>1, <3>2, <3>3 DEF Load, Atomic!Read, Stopped
  <2>2. CASE OpenTmp(p) \/ FillTmp(p)
    <3>1. \A q \in Procs : proc'[q].read = proc[q].read
      BY <1>t, <2>2, RunningType DEF OpenTmp, FillTmp, ConfigTypeOK, Steps
    <3>q. QED
      BY <2>2, <3>1 DEF OpenTmp, FillTmp
  <2>3. CASE Rename(p)
    <3>1. /\ proc[p].command \in Commands
          /\ config' = Changed(proc[p].command, read[p])
      BY <2>3, RunningType DEF Rename, ConfigInv, ProcInv, Steps
    <3>2. \A c \in Commands : Atomic!Changed(c, read[p]) = Changed(c, read[p])
      BY DEF Atomic!Changed, Changed, Atomic!Connected, Connected,
             Atomic!Disconnected, Disconnected, Atomic!Merged, Merged,
             Atomic!Fields, Fields, Atomic!Unset, Unset
    <3>3. read' = [read EXCEPT ![p] = None]
      BY <1>t, <2>3 DEF Rename, ConfigTypeOK, Stopped
    <3>4. Atomic!Commands = Commands
      BY DEF Atomic!Commands, Commands, Atomic!Overrides, Overrides, Atomic!Section,
             Section, Atomic!Fields, Fields, Atomic!Unset, Unset
    <3>5. \E c \in Atomic!Commands : config' = Atomic!Changed(c, read[p])
      BY <3>1, <3>2, <3>4
    <3>6. read[p] # None
      BY <2>r, <2>3 DEF Rename, Steps
    <3>7. Atomic!Replace(p)
      BY <3>3, <3>5, <3>6 DEF Atomic!Replace
    <3>q. QED
      BY <3>7 DEF Atomic!Next
  <2>4. CASE SaveFails(p) \/ Killed(p)
    <3>1. /\ proc[p].pc \in Steps
          /\ read' = [read EXCEPT ![p] = None]
          /\ config' = config
      <4>1. proc[p].pc \in Steps /\ proc' = [proc EXCEPT ![p] = Stopped] /\ config' = config
        BY <2>4 DEF SaveFails, Killed
      <4>q. QED
        BY <1>t, <4>1 DEF ConfigTypeOK, Stopped
    <3>2. Atomic!GiveUp(p)
      BY <2>r, <3>1 DEF Atomic!GiveUp
    <3>q. QED
      BY <3>2 DEF Atomic!Next
  <2>5. (\E c \in Commands : Load(p, c)) => Atomic!Next
    BY <2>1 DEF Atomic!Next
  <2>q. QED
    BY <1>2, <2>2, <2>3, <2>4, <2>5 DEF ConfigStep
<1>q. QED
  BY <1>1, <1>2 DEF ConfigNext

\* Under the mapping in which a process has seen what it read, every behaviour
\* of the commands is one of AtomicConfig: whoever reads the file, at any moment
\* and after any crash, finds a whole configuration that one command made.
THEOREM Refinement == ConfigSpec => WritesAreAtomic
<1>1. ConfigInit => Atomic!Init
  BY InitAtomic
<1>2. ConfigInv /\ [ConfigNext]_cvars
        => [Atomic!Next]_(<<config, [p \in Procs |-> proc[p].read]>>)
  BY StepAtomic
<1>q. QED
  BY <1>1, <1>2, ConfigInvariant, PTL DEF ConfigSpec, WritesAreAtomic, Atomic!Spec

-----------------------------------------------------------------------------
(* What a rename keeps.                                                     *)

\* Reading what was read once already changes nothing.
LEMMA StringsTwice ==
  ASSUME NEW s \in Section
  PROVE  /\ Strings(Strings(s)) = Strings(s)
         /\ \A f \in Fields : Strings(s)[f] # Blank
BY ConfigAssumption DEF Strings, Section

\* The entry of a device in what a process has loaded.
EntryOf(cfg, d) == IF cfg.devices[d] = None THEN Unset ELSE cfg.devices[d]

\* What a command loads from a whole file is what a reader finds in it.
LEMMA LoadedFacts ==
  ASSUME ConfigTypeOK, config # Torn
  PROVE  /\ Loaded.defaults = DefaultsOf(config)
         /\ \A f \in Fields : Loaded.defaults[f] # Blank
         /\ \A d \in Devices :
              /\ EntryOf(Loaded, d) = Entry(config, d)
              /\ \A f \in Fields : EntryOf(Loaded, d)[f] # Blank
<1>u. \A f \in Fields : Unset[f] # Blank
  BY ConfigAssumption DEF Unset
<1>1. CASE config = None
  BY <1>1, <1>u DEF Loaded, EmptyConfig, DefaultsOf, Entry, EntryOf
<1>2. CASE config # None
  <2>1. config \in Configs /\ Loaded = Parsed(config)
    BY <1>2 DEF ConfigTypeOK, Loaded
  <2>2. config.defaults \in Section
        /\ \A d \in Devices : config.devices[d] # None => config.devices[d] \in Section
    BY <2>1 DEF Configs
  <2>3. ASSUME NEW d \in Devices
        PROVE  /\ EntryOf(Loaded, d) = Entry(config, d)
               /\ \A f \in Fields : EntryOf(Loaded, d)[f] # Blank
    <3>1. CASE config.devices[d] = None
      BY <1>2, <1>u, <2>1, <3>1 DEF Parsed, Entry, EntryOf
    <3>2. CASE config.devices[d] # None
      <4>1. Strings(config.devices[d]) \in Section
        BY <2>2, <3>2, SectionFacts
      <4>2. Strings(config.devices[d]) # None
        BY <4>1, SectionAssumption
      <4>q. QED
        BY <1>2, <2>1, <2>2, <3>2, <4>2, StringsTwice DEF Parsed, Entry, EntryOf
    <3>q. QED
      BY <3>1, <3>2
  <2>q. QED
    BY <1>2, <2>1, <2>2, <2>3, StringsTwice DEF Parsed, DefaultsOf
<1>q. QED
  BY <1>1, <1>2

\* What a merge stores reads as the old value where nothing was given.
LEMMA MergedFacts ==
  ASSUME NEW old \in Section, NEW given \in Section, NEW f \in Fields,
         given[f] = None, old[f] # Blank
  PROVE  Strings(Merged(old, given))[f] = old[f]
BY DEF Merged, Strings

\* A rename changes what its own command names and nothing else.
LEMMA RenameKeeps ==
  ASSUME ConfigInv, NEW p \in Procs, Rename(p), ~overtaken[p]
  PROVE  LET c == proc[p].command
         IN /\ \A d \in Devices, f \in Fields :
                 Entry(config', d)[f] # Entry(config, d)[f] =>
                   d = c.device /\ (c.kind = "disconnect" \/ c.given[f] # None)
            /\ \A f \in Fields :
                 DefaultsOf(config')[f] # DefaultsOf(config)[f] =>
                   c.setDefault /\ c.given[f] # None
<1> DEFINE c == proc[p].command
<1>t. ConfigTypeOK
  BY DEF ConfigInv
<1>0. config # Torn
  BY <1>t, FileAssumption DEF ConfigTypeOK
<1>1. c \in Commands /\ config' = Changed(c, Loaded) /\ Loaded \in Configs
  BY <1>t, RunningType, LoadedType DEF Rename, ConfigInv, ProcInv, Steps
<1>2. config' \in Configs /\ config' # None
  BY <1>1, ChangedType, FileAssumption
<1>c. /\ c.kind \in {"connect", "disconnect"}
      /\ c.device \in Devices /\ c.given \in Section /\ c.setDefault \in BOOLEAN
  BY <1>1, CommandFacts
<1>d. /\ c.kind = "disconnect" => ~c.setDefault
  BY <1>1 DEF Commands
<1> HIDE DEF c
<1>3. /\ Loaded.defaults \in Section
      /\ Loaded.devices \in [Devices -> Section \cup {None}]
  BY <1>1 DEF Configs
<1>4. \A d \in Devices : EntryOf(Loaded, d) \in Section
  BY <1>3, SectionFacts DEF EntryOf
<1>5. ASSUME NEW d \in Devices, d # c.device
      PROVE  Entry(config', d) = Entry(config, d)
  <2>1. config'.devices[d] = Loaded.devices[d]
    BY <1>1, <1>3, <1>5 DEF Changed, Connected, Disconnected
  <2>2. Entry(config', d) =
          IF Loaded.devices[d] = None THEN Unset ELSE Strings(Loaded.devices[d])
    BY <1>2, <2>1 DEF Entry
  <2>3. Loaded.devices[d] # None => Strings(Loaded.devices[d]) = Loaded.devices[d]
    <3> SUFFICES ASSUME Loaded.devices[d] # None
                 PROVE  Strings(Loaded.devices[d]) = Loaded.devices[d]
      OBVIOUS
    <3>1. Loaded.devices[d] \in Section
      BY <1>3
    <3>2. \A f \in Fields : Loaded.devices[d][f] # Blank
      BY <1>t, <1>0, LoadedFacts DEF EntryOf
    <3>q. QED
      BY <3>1, <3>2 DEF Strings, Section
  <2>q. QED
    BY <1>t, <1>0, <2>2, <2>3, LoadedFacts DEF EntryOf
<1>6. ASSUME NEW f \in Fields, c.kind = "connect", c.given[f] = None
      PROVE  Entry(config', c.device)[f] = Entry(config, c.device)[f]
  <2> DEFINE old == EntryOf(Loaded, c.device)
             new == Merged(old, c.given)
  <2>1. old \in Section /\ old[f] # Blank /\ old = Entry(config, c.device)
    BY <1>t, <1>0, <1>c, <1>4, LoadedFacts
  <2>2. new \in Section
    BY <1>c, <2>1, SectionFacts
  <2>3. config'.devices[c.device] = new
    BY <1>1, <1>3, <1>6, <1>c DEF Changed, Connected, EntryOf
  <2> HIDE DEF old, new
  <2>4. Entry(config', c.device) = Strings(new)
    BY <1>2, <2>2, <2>3, SectionAssumption DEF Entry
  <2>5. Strings(new)[f] = old[f]
    BY <1>6, <1>c, <2>1, MergedFacts DEF new
  <2>q. QED
    BY <2>1, <2>4, <2>5
<1>7. ASSUME NEW f \in Fields, ~c.setDefault \/ c.given[f] = None
      PROVE  DefaultsOf(config')[f] = DefaultsOf(config)[f]
  <2>1. Loaded.defaults[f] # Blank /\ Loaded.defaults = DefaultsOf(config)
    BY <1>t, <1>0, LoadedFacts
  <2>2. DefaultsOf(config') = Strings(config'.defaults)
    BY <1>2 DEF DefaultsOf
  <2>3. CASE config'.defaults = Loaded.defaults
    BY <2>1, <2>2, <2>3 DEF Strings
  <2>4. CASE config'.defaults = Merged(Loaded.defaults, c.given) /\ c.given[f] = None
    BY <1>3, <1>c, <2>1, <2>2, <2>4, MergedFacts
  <2>q. QED
    BY <1>1, <1>7, <1>d, <2>3, <2>4, <1>c DEF Changed, Connected, Disconnected
<1>q. QED
  BY <1>5, <1>6, <1>7, <1>c DEF c

\* However many processes overlap, a rename changes only the fields that its
\* command names, as long as no other process renamed after this one had read.
THEOREM OthersAreKept == ConfigSpec => OthersKept
<1>1. ConfigInv /\ [ConfigNext]_cvars =>
        [\A p \in Procs :
           Rename(p) /\ ~overtaken[p] =>
             LET c == proc[p].command
             IN /\ \A d \in Devices, f \in Fields :
                     Entry(config', d)[f] # Entry(config, d)[f] =>
                       d = c.device /\ (c.kind = "disconnect" \/ c.given[f] # None)
                /\ \A f \in Fields :
                     DefaultsOf(config')[f] # DefaultsOf(config)[f] =>
                       c.setDefault /\ c.given[f] # None]_cvars
  BY RenameKeeps
<1>q. QED
  BY <1>1, ConfigInvariant, PTL DEF ConfigSpec, OthersKept

-----------------------------------------------------------------------------
(* The order of versions.                                                   *)

\* A finite set of numbers has a least and a greatest member.
LEMMA Extremes ==
  ASSUME NEW S, IsFiniteSet(S), S # {}
  PROVE  S \subseteq Nat =>
           /\ Least(S) \in S /\ \A j \in S : Least(S) <= j
           /\ Max(S) \in S /\ \A j \in S : j <= Max(S)
<1>1. S \subseteq Nat => \E i \in S : \A j \in S : i <= j
  <2> DEFINE below(i) == {j \in S : j < i}
             F == {below(i) : i \in S}
  <2>1. PICK T \in F : \A U \in F : U \subseteq T => U = T
    <3>1. F \subseteq SUBSET S
      OBVIOUS
    <3>2. F # {}
      OBVIOUS
    <3> HIDE DEF F
    <3>q. QED
      BY <3>1, <3>2, MinimalSet
  <2>2. PICK i \in S : T = below(i)
    OBVIOUS
  <2>3. ASSUME S \subseteq Nat, NEW k \in S, k < i PROVE FALSE
    <3>1. \A j \in S : j < k => j < i
      BY <2>3
    <3>2. below(k) \subseteq T
      BY <2>2, <3>1
    <3>3. k \in T /\ k \notin below(k)
      BY <2>2, <2>3
    <3>4. below(k) \in F
      OBVIOUS
    <3>q. QED
      BY <2>1, <3>2, <3>3, <3>4
  <2>q. QED
    BY <2>3
<1>2. S \subseteq Nat => \E i \in S : \A j \in S : j <= i
  <2> DEFINE above(i) == {j \in S : j > i}
             F == {above(i) : i \in S}
  <2>1. PICK T \in F : \A U \in F : U \subseteq T => U = T
    <3>1. F \subseteq SUBSET S
      OBVIOUS
    <3>2. F # {}
      OBVIOUS
    <3> HIDE DEF F
    <3>q. QED
      BY <3>1, <3>2, MinimalSet
  <2>2. PICK i \in S : T = above(i)
    OBVIOUS
  <2>3. ASSUME S \subseteq Nat, NEW k \in S, k > i PROVE FALSE
    <3>1. \A j \in S : j > k => j > i
      BY <2>3
    <3>2. above(k) \subseteq T
      BY <2>2, <3>1
    <3>3. k \in T /\ k \notin above(k)
      BY <2>2, <2>3
    <3>4. above(k) \in F
      OBVIOUS
    <3>q. QED
      BY <2>1, <3>2, <3>3, <3>4
  <2>q. QED
    BY <2>3
<1>3. ASSUME S \subseteq Nat PROVE \A i, j \in S : (i <= j <=> j >= i)
  BY <1>3
<1>q. QED
  BY <1>1, <1>2, <1>3 DEF Least, Max

\* CompareLists, with the order of the identifiers as a function on pairs.
ListCompare(a, b, ord) ==
  LET differ == {i \in 1 .. Longer(a, b) :
                   i > Len(a) \/ i > Len(b) \/ a[i] # b[i]}
      i == Least(differ)
  IN IF differ = {} THEN 0
     ELSE IF i > Len(a) THEN -1
     ELSE IF i > Len(b) THEN 1
     ELSE ord[<<a[i], b[i]>>]

\* ord orders the members of X, each two of them one way or the other.
IsOrder(ord, X) ==
  /\ \A u, v \in X : u # v =>
       /\ ord[<<u, v>>] \in {-1, 1}
       /\ ord[<<v, u>>] = -ord[<<u, v>>]
  /\ \A u, v, w \in X :
       u # v /\ v # w /\ u # w /\ ord[<<u, v>>] = -1 /\ ord[<<v, w>>] = -1 =>
         ord[<<u, w>>] = -1

\* i is the first place at which a and b differ.
FirstAt(a, b, i) ==
  /\ i \in 1 .. Longer(a, b)
  /\ i > Len(a) \/ i > Len(b) \/ a[i] # b[i]
  /\ \A j \in 1 .. i - 1 : j <= Len(a) /\ j <= Len(b) /\ a[j] = b[j]

\* What the comparison says of lists that differ at i first.
Verdict(a, b, ord, i) ==
  IF i > Len(a) THEN -1 ELSE IF i > Len(b) THEN 1 ELSE ord[<<a[i], b[i]>>]

\* The first difference decides, and lists without one are equal.
LEMMA FirstDecides ==
  ASSUME NEW X, NEW a \in Seq(X), NEW b \in Seq(X)
  PROVE  /\ a = b => \A ord : ListCompare(a, b, ord) = 0
         /\ a # b => \E i : FirstAt(a, b, i)
         /\ \A i : FirstAt(a, b, i) =>
              \A ord : ListCompare(a, b, ord) = Verdict(a, b, ord, i)
<1> DEFINE differ == {i \in 1 .. Longer(a, b) :
                        i > Len(a) \/ i > Len(b) \/ a[i] # b[i]}
<1>1. Len(a) \in Nat /\ Len(b) \in Nat /\ Longer(a, b) \in Nat
        /\ Len(a) <= Longer(a, b) /\ Len(b) <= Longer(a, b)
        /\ (Longer(a, b) = Len(a) \/ Longer(a, b) = Len(b))
  BY DEF Longer
<1>2. a = b => differ = {}
  BY <1>1
<1>3. ASSUME differ = {} PROVE a = b
  <2>1. Len(a) = Len(b)
    <3>1. CASE Len(a) < Len(b)
      <4>1. Len(b) \in differ
        BY <1>1, <3>1
      <4>q. QED
        BY <1>3, <4>1
    <3>2. CASE Len(b) < Len(a)
      <4>1. Len(a) \in differ
        BY <1>1, <3>2
      <4>q. QED
        BY <1>3, <4>1
    <3>q. QED
      BY <1>1, <3>1, <3>2
  <2>2. \A i \in 1 .. Len(a) : a[i] = b[i]
    BY <1>1, <1>3
  <2>q. QED
    BY <2>1, <2>2
<1>4. differ \subseteq Nat /\ IsFiniteSet(differ)
  <2>1. IsFiniteSet(1 .. Longer(a, b))
    BY <1>1, FS_Interval
  <2>q. QED
    BY <1>1, <2>1, FS_Subset
<1>5. differ # {} => FirstAt(a, b, Least(differ))
  <2> SUFFICES ASSUME differ # {} PROVE FirstAt(a, b, Least(differ))
    OBVIOUS
  <2> DEFINE i == Least(differ)
  <2>1. i \in differ /\ \A j \in differ : i <= j
    <3> HIDE DEF differ
    <3>q. QED
      BY <1>4, Extremes
  <2> HIDE DEF i
  <2>2. i \in 1 .. Longer(a, b) /\ (i > Len(a) \/ i > Len(b) \/ a[i] # b[i])
    BY <2>1
  <2>3. \A j \in 1 .. i - 1 : j \in 1 .. Longer(a, b) /\ j \notin differ
    <3> HIDE DEF differ
    <3>q. QED
      BY <1>1, <2>1, <2>2
  <2>4. \A j \in 1 .. i - 1 : j <= Len(a) /\ j <= Len(b) /\ a[j] = b[j]
    BY <1>1, <2>3
  <2>q. QED
    BY <2>2, <2>4 DEF FirstAt, i
<1>6. ASSUME NEW i, FirstAt(a, b, i) PROVE differ # {} /\ i = Least(differ)
  <2>1. i \in differ
    BY <1>6 DEF FirstAt
  <2> DEFINE k == Least(differ)
  <2>2. k \in differ /\ k <= i
    <3> HIDE DEF differ
    <3>q. QED
      BY <1>4, <2>1, Extremes
  <2> HIDE DEF k
  <2>3. k \in 1 .. i
    BY <1>1, <2>1, <2>2
  <2>4. k \notin 1 .. i - 1
    BY <1>1, <1>6, <2>1, <2>2 DEF FirstAt
  <2>q. QED
    BY <1>1, <2>1, <2>3, <2>4 DEF k
<1>7. \A ord : ListCompare(a, b, ord) =
                 IF differ = {} THEN 0 ELSE Verdict(a, b, ord, Least(differ))
  BY DEF ListCompare, Verdict
<1> HIDE DEF differ
<1>q. QED
  BY <1>2, <1>3, <1>5, <1>6, <1>7

\* Lists are ordered when their members are.
LEMMA ListsOrdered ==
  ASSUME NEW X, NEW ord, IsOrder(ord, X), NEW a \in Seq(X), NEW b \in Seq(X)
  PROVE  /\ ListCompare(a, b, ord) \in {-1, 0, 1}
         /\ ListCompare(a, b, ord) = 0 <=> a = b
         /\ ListCompare(b, a, ord) = -ListCompare(a, b, ord)
<1>1. CASE a = b
  BY <1>1, FirstDecides
<1>2. CASE a # b
  <2>1. PICK i : FirstAt(a, b, i)
    BY <1>2, FirstDecides
  <2>2. Len(a) \in Nat /\ Len(b) \in Nat /\ Longer(b, a) = Longer(a, b)
          /\ Longer(a, b) \in Nat /\ (Longer(a, b) = Len(a) \/ Longer(a, b) = Len(b))
    BY DEF Longer
  <2>3. FirstAt(b, a, i)
    BY <2>1, <2>2 DEF FirstAt
  <2>4. i \in 1 .. Longer(a, b) /\ (i > Len(a) \/ i > Len(b) \/ a[i] # b[i])
    BY <2>1 DEF FirstAt
  <2>5. /\ ListCompare(a, b, ord) = Verdict(a, b, ord, i)
        /\ ListCompare(b, a, ord) = Verdict(b, a, ord, i)
    BY <2>1, <2>3, FirstDecides
  <2>6. ~(i > Len(a)) /\ ~(i > Len(b)) => a[i] \in X /\ b[i] \in X /\ a[i] # b[i]
    BY <2>2, <2>4
  <2>7. ~(i > Len(a) /\ i > Len(b))
    BY <2>2, <2>4
  <2>8. ~(i > Len(a)) /\ ~(i > Len(b)) =>
          /\ ord[<<a[i], b[i]>>] \in {-1, 1}
          /\ ord[<<b[i], a[i]>>] = -ord[<<a[i], b[i]>>]
    BY <2>6 DEF IsOrder
  <2>q. QED
    BY <1>2, <2>5, <2>7, <2>8 DEF Verdict
<1>q. QED
  BY <1>1, <1>2

\* The order of lists is transitive when the order of their members is.
LEMMA ListsTransitive ==
  ASSUME NEW X, NEW ord, IsOrder(ord, X),
         NEW a \in Seq(X), NEW b \in Seq(X), NEW c \in Seq(X),
         ListCompare(a, b, ord) = -1, ListCompare(b, c, ord) = -1
  PROVE  ListCompare(a, c, ord) = -1
<1>1. PICK i : FirstAt(a, b, i)
  <2>1. a # b
    BY ListsOrdered
  <2>q. QED
    BY <2>1, FirstDecides
<1>2. PICK j : FirstAt(b, c, j)
  <2>1. b # c
    BY ListsOrdered
  <2>q. QED
    BY <2>1, FirstDecides
<1>3. /\ Len(a) \in Nat /\ Len(b) \in Nat /\ Len(c) \in Nat
      /\ Longer(a, b) = (IF Len(a) >= Len(b) THEN Len(a) ELSE Len(b))
      /\ Longer(b, c) = (IF Len(b) >= Len(c) THEN Len(b) ELSE Len(c))
      /\ Longer(a, c) = (IF Len(a) >= Len(c) THEN Len(a) ELSE Len(c))
  BY DEF Longer
<1>4. /\ i \in Nat /\ i >= 1 /\ i <= Longer(a, b)
      /\ i > Len(a) \/ i > Len(b) \/ a[i] # b[i]
      /\ \A k \in 1 .. i - 1 : k <= Len(a) /\ k <= Len(b) /\ a[k] = b[k]
  BY <1>1, <1>3 DEF FirstAt
<1>5. /\ j \in Nat /\ j >= 1 /\ j <= Longer(b, c)
      /\ j > Len(b) \/ j > Len(c) \/ b[j] # c[j]
      /\ \A k \in 1 .. j - 1 : k <= Len(b) /\ k <= Len(c) /\ b[k] = c[k]
  BY <1>2, <1>3 DEF FirstAt
<1>6. /\ i > Len(a) \/ (i <= Len(b) /\ ord[<<a[i], b[i]>>] = -1)
      /\ i > Len(a) => i <= Len(b)
  <2>1. Verdict(a, b, ord, i) = -1
    BY <1>1, FirstDecides
  <2>q. QED
    BY <1>3, <1>4, <2>1 DEF Verdict
<1>7. /\ j > Len(b) \/ (j <= Len(c) /\ ord[<<b[j], c[j]>>] = -1)
      /\ j > Len(b) => j <= Len(c)
  <2>1. Verdict(b, c, ord, j) = -1
    BY <1>2, FirstDecides
  <2>q. QED
    BY <1>3, <1>5, <2>1 DEF Verdict
<1> DEFINE Decides(k) ==
      /\ FirstAt(a, c, k)
      /\ k > Len(a) \/ (k <= Len(a) /\ k <= Len(c) /\ ord[<<a[k], c[k]>>] = -1)
<1>8. \E k : Decides(k)
  <2>1. CASE i < j
    <3>1. i <= Len(b) /\ i <= Len(c) /\ b[i] = c[i]
      BY <1>4, <1>5, <2>1
    <3>2. \A k \in 1 .. i - 1 : k <= Len(a) /\ k <= Len(c) /\ a[k] = c[k]
      BY <1>4, <1>5, <2>1
    <3>3. i > Len(a) \/ a[i] # c[i]
      BY <1>3, <1>4, <3>1
    <3>4. FirstAt(a, c, i)
      BY <1>3, <1>4, <3>1, <3>2, <3>3 DEF FirstAt
    <3>5. Decides(i)
      BY <1>3, <1>4, <1>6, <3>1, <3>4
    <3>q. QED
      BY <3>5
  <2>2. CASE j < i
    <3>1. j <= Len(a) /\ j <= Len(b) /\ a[j] = b[j]
      BY <1>4, <1>5, <2>2
    <3>2. \A k \in 1 .. j - 1 : k <= Len(a) /\ k <= Len(c) /\ a[k] = c[k]
      BY <1>4, <1>5, <2>2
    <3>3. j <= Len(c) /\ ord[<<a[j], c[j]>>] = -1 /\ a[j] # c[j]
      BY <1>3, <1>5, <1>7, <3>1
    <3>4. FirstAt(a, c, j)
      BY <1>3, <1>5, <3>1, <3>2, <3>3 DEF FirstAt
    <3>5. Decides(j)
      BY <3>1, <3>3, <3>4
    <3>q. QED
      BY <3>5
  <2>3. CASE i = j
    <3>1. i <= Len(b)
      BY <1>3, <1>4, <1>6
    <3>2. i <= Len(c) /\ ord[<<b[i], c[i]>>] = -1 /\ b[i] # c[i]
      BY <1>3, <1>5, <1>7, <2>3, <3>1
    <3>3. \A k \in 1 .. i - 1 : k <= Len(a) /\ k <= Len(c) /\ a[k] = c[k]
      BY <1>4, <1>5, <2>3
    <3>4. CASE i > Len(a)
      <4>1. FirstAt(a, c, i)
        BY <1>3, <1>4, <3>2, <3>3, <3>4 DEF FirstAt
      <4>2. Decides(i)
        BY <3>4, <4>1
      <4>q. QED
        BY <4>2
    <3>5. CASE ~(i > Len(a))
      <4>1. /\ a[i] \in X /\ b[i] \in X /\ c[i] \in X
            /\ a[i] # b[i] /\ ord[<<a[i], b[i]>>] = -1 /\ i <= Len(a)
        BY <1>3, <1>4, <1>6, <3>1, <3>2, <3>5
      <4>2. a[i] # c[i]
        <5> SUFFICES ASSUME a[i] = c[i] PROVE FALSE
          OBVIOUS
        <5>1. ord[<<b[i], a[i]>>] = -ord[<<a[i], b[i]>>]
          BY <4>1 DEF IsOrder
        <5>2. ord[<<b[i], a[i]>>] = -1
          BY <3>2
        <5>q. QED
          BY <4>1, <5>1, <5>2
      <4>3. ord[<<a[i], c[i]>>] = -1
        BY <3>2, <4>1, <4>2 DEF IsOrder
      <4>4. FirstAt(a, c, i)
        BY <1>3, <1>4, <3>2, <3>3, <4>1, <4>2 DEF FirstAt
      <4>5. Decides(i)
        BY <3>2, <4>1, <4>3, <4>4
      <4>q. QED
        BY <4>5
    <3>q. QED
      BY <3>4, <3>5
  <2>4. i < j \/ i = j \/ j < i
    BY <1>4, <1>5
  <2> HIDE DEF Decides
  <2>q. QED
    BY <2>1, <2>2, <2>3, <2>4
<1>9. PICK k : Decides(k)
  BY <1>8
<1>10. ListCompare(a, c, ord) = Verdict(a, c, ord, k)
  BY <1>9, FirstDecides
<1>11. k \in Nat
  BY <1>3, <1>9 DEF FirstAt
<1>q. QED
  BY <1>3, <1>9, <1>10, <1>11 DEF Verdict

\* Identifiers: the text decides which one it is, and a number is written in one
\* way (isValidVersion admits no leading zeros before the build).
Identifiers(P) ==
  /\ \A u \in P : u.num \in Nat \cup {NaN} /\ u.text \in Nat
  /\ \A u, v \in P : u.text = v.text \/ (u.num = v.num /\ u.num # NaN) => u = v

VersionsOf(P, B) == [core : Seq(Nat), pre : Seq(P), build : Seq(B)]

below == [p \in Nat \X Nat |-> Below(p[1], p[2])]
preOrder(P) == [p \in P \X P |-> PreOrder(p[1], p[2])]
buildOrder(B) == [p \in B \X B |-> BuildOrder(p[1], p[2])]

\* The three orders of identifiers.
LEMMA MembersOrdered ==
  /\ IsOrder(below, Nat)
  /\ \A P : Identifiers(P) => IsOrder(preOrder(P), P)
  /\ \A B : Identifiers(B) /\ (\A u, v \in B : u.num = NaN <=> v.num = NaN) =>
       IsOrder(buildOrder(B), B)
<1>1. IsOrder(below, Nat)
  <2>1. \A u, v \in Nat : below[<<u, v>>] = IF u < v THEN -1 ELSE 1
    BY DEF below, Below
  <2>q. QED
    BY <2>1 DEF IsOrder
<1>2. ASSUME NEW P, Identifiers(P) PROVE IsOrder(preOrder(P), P)
  <2>1. \A u, v \in P : preOrder(P)[<<u, v>>] =
          IF u.num # NaN /\ v.num # NaN THEN (IF u.num < v.num THEN -1 ELSE 1)
          ELSE IF u.num # NaN THEN -1
          ELSE IF v.num # NaN THEN 1
          ELSE IF u.text < v.text THEN -1 ELSE 1
    BY DEF preOrder, PreOrder, Below
  <2>2. \A u, v \in P : u # v => u.text # v.text /\ (u.num # v.num \/ u.num = NaN)
    BY <1>2 DEF Identifiers
  <2>3. \A u \in P : u.num \in Nat \cup {NaN} /\ u.text \in Nat
    BY <1>2 DEF Identifiers
  <2>4. ASSUME NEW u \in P, NEW v \in P, u # v
        PROVE  /\ preOrder(P)[<<u, v>>] \in {-1, 1}
               /\ preOrder(P)[<<v, u>>] = -preOrder(P)[<<u, v>>]
    <3>1. u.text # v.text /\ (u.num # v.num \/ u.num = NaN)
      BY <2>2, <2>4
    <3>q. QED
      BY <2>1, <2>3, <3>1 DEF NaN
  <2>5. ASSUME NEW u \in P, NEW v \in P, NEW w \in P, u # w,
               preOrder(P)[<<u, v>>] = -1, preOrder(P)[<<v, w>>] = -1
        PROVE  preOrder(P)[<<u, w>>] = -1
    BY <2>1, <2>3, <2>5 DEF NaN
  <2>q. QED
    BY <2>4, <2>5 DEF IsOrder
<1>3. ASSUME NEW B, Identifiers(B), \A u, v \in B : u.num = NaN <=> v.num = NaN
      PROVE  IsOrder(buildOrder(B), B)
  <2>1. \A u, v \in B : buildOrder(B)[<<u, v>>] =
          IF u.num # NaN /\ v.num # NaN THEN (IF u.num < v.num THEN -1 ELSE 1)
          ELSE IF u.text < v.text THEN -1 ELSE 1
    BY DEF buildOrder, BuildOrder, Below
  <2>2. \A u, v \in B : u # v => u.text # v.text /\ (u.num # v.num \/ u.num = NaN)
    BY <1>3 DEF Identifiers
  <2>3. \A u \in B : u.num \in Nat \cup {NaN} /\ u.text \in Nat
    BY <1>3 DEF Identifiers
  <2>4. ASSUME NEW u \in B, NEW v \in B, u # v
        PROVE  /\ buildOrder(B)[<<u, v>>] \in {-1, 1}
               /\ buildOrder(B)[<<v, u>>] = -buildOrder(B)[<<u, v>>]
    <3>1. u.text # v.text /\ (u.num # v.num \/ u.num = NaN)
      BY <2>2, <2>4
    <3>q. QED
      BY <2>1, <2>3, <3>1 DEF NaN
  <2>5. ASSUME NEW u \in B, NEW v \in B, NEW w \in B, u # w,
               buildOrder(B)[<<u, v>>] = -1, buildOrder(B)[<<v, w>>] = -1
        PROVE  buildOrder(B)[<<u, w>>] = -1
    <3>1. (u.num = NaN <=> v.num = NaN) /\ (v.num = NaN <=> w.num = NaN)
      BY <1>3
    <3>q. QED
      BY <2>1, <2>3, <2>5, <3>1 DEF NaN
  <2>q. QED
    BY <2>4, <2>5 DEF IsOrder
<1>q. QED
  BY <1>1, <1>2, <1>3

\* The places at which two lists differ.
Differ(a, b) == {i \in 1 .. Longer(a, b) : i > Len(a) \/ i > Len(b) \/ a[i] # b[i]}

\* The first of them lies beyond the end of one list or has a member of each.
LEMMA PlaceOfDifference ==
  ASSUME NEW X, NEW a \in Seq(X), NEW b \in Seq(X), Differ(a, b) # {}
  PROVE  LET i == Least(Differ(a, b))
         IN i > Len(a) \/ i > Len(b) \/ (a[i] \in X /\ b[i] \in X)
<1>1. Len(a) \in Nat /\ Len(b) \in Nat /\ Longer(a, b) \in Nat
  BY DEF Longer
<1>2. Differ(a, b) \subseteq 1 .. Longer(a, b)
  BY DEF Differ
<1>3. IsFiniteSet(Differ(a, b)) /\ Differ(a, b) \subseteq Nat
  <2>1. IsFiniteSet(1 .. Longer(a, b))
    BY <1>1, FS_Interval
  <2>q. QED
    BY <1>1, <1>2, <2>1, FS_Subset
<1> DEFINE i == Least(Differ(a, b))
<1>4. i \in Differ(a, b)
  BY <1>3, Extremes
<1> HIDE DEF i
<1>5. i \in Nat /\ i >= 1
  BY <1>1, <1>2, <1>4
<1>6. ~(i > Len(a)) => a[i] \in X
  BY <1>1, <1>5
<1>7. ~(i > Len(b)) => b[i] \in X
  BY <1>1, <1>5
<1>q. QED
  BY <1>6, <1>7 DEF i

\* The orders of identifiers as functions compare lists as the orders do.
LEMMA ListsByOrder ==
  /\ \A a, b \in Seq(Nat) : CompareLists(a, b, Below) = ListCompare(a, b, below)
  /\ \A P : \A a, b \in Seq(P) :
       CompareLists(a, b, PreOrder) = ListCompare(a, b, preOrder(P))
  /\ \A B : \A a, b \in Seq(B) :
       CompareLists(a, b, BuildOrder) = ListCompare(a, b, buildOrder(B))
<1>1. ASSUME NEW a \in Seq(Nat), NEW b \in Seq(Nat)
      PROVE  CompareLists(a, b, Below) = ListCompare(a, b, below)
  <2> DEFINE i == Least(Differ(a, b))
  <2>1. CompareLists(a, b, Below) =
          IF Differ(a, b) = {} THEN 0 ELSE IF i > Len(a) THEN -1
          ELSE IF i > Len(b) THEN 1 ELSE Below(a[i], b[i])
    BY DEF CompareLists, Differ
  <2>2. ListCompare(a, b, below) =
          IF Differ(a, b) = {} THEN 0 ELSE IF i > Len(a) THEN -1
          ELSE IF i > Len(b) THEN 1 ELSE below[<<a[i], b[i]>>]
    BY DEF ListCompare, Differ
  <2>3. Differ(a, b) # {} => i > Len(a) \/ i > Len(b) \/ (a[i] \in Nat /\ b[i] \in Nat)
    BY PlaceOfDifference
  <2> HIDE DEF i
  <2>4. Differ(a, b) = {} \/ i > Len(a) \/ i > Len(b) \/ below[<<a[i], b[i]>>] = Below(a[i], b[i])
    BY <2>3 DEF below
  <2>q. QED
    BY <2>1, <2>2, <2>4
<1>2. ASSUME NEW P, NEW a \in Seq(P), NEW b \in Seq(P)
      PROVE  CompareLists(a, b, PreOrder) = ListCompare(a, b, preOrder(P))
  <2> DEFINE i == Least(Differ(a, b))
  <2>1. CompareLists(a, b, PreOrder) =
          IF Differ(a, b) = {} THEN 0 ELSE IF i > Len(a) THEN -1
          ELSE IF i > Len(b) THEN 1 ELSE PreOrder(a[i], b[i])
    BY DEF CompareLists, Differ
  <2>2. ListCompare(a, b, preOrder(P)) =
          IF Differ(a, b) = {} THEN 0 ELSE IF i > Len(a) THEN -1
          ELSE IF i > Len(b) THEN 1 ELSE preOrder(P)[<<a[i], b[i]>>]
    BY DEF ListCompare, Differ
  <2>3. Differ(a, b) # {} => i > Len(a) \/ i > Len(b) \/ (a[i] \in P /\ b[i] \in P)
    BY PlaceOfDifference
  <2> HIDE DEF i
  <2>4. \/ Differ(a, b) = {} \/ i > Len(a) \/ i > Len(b)
        \/ preOrder(P)[<<a[i], b[i]>>] = PreOrder(a[i], b[i])
    BY <2>3 DEF preOrder
  <2>q. QED
    BY <2>1, <2>2, <2>4
<1>3. ASSUME NEW B, NEW a \in Seq(B), NEW b \in Seq(B)
      PROVE  CompareLists(a, b, BuildOrder) = ListCompare(a, b, buildOrder(B))
  <2> DEFINE i == Least(Differ(a, b))
  <2>1. CompareLists(a, b, BuildOrder) =
          IF Differ(a, b) = {} THEN 0 ELSE IF i > Len(a) THEN -1
          ELSE IF i > Len(b) THEN 1 ELSE BuildOrder(a[i], b[i])
    BY DEF CompareLists, Differ
  <2>2. ListCompare(a, b, buildOrder(B)) =
          IF Differ(a, b) = {} THEN 0 ELSE IF i > Len(a) THEN -1
          ELSE IF i > Len(b) THEN 1 ELSE buildOrder(B)[<<a[i], b[i]>>]
    BY DEF ListCompare, Differ
  <2>3. Differ(a, b) # {} => i > Len(a) \/ i > Len(b) \/ (a[i] \in B /\ b[i] \in B)
    BY PlaceOfDifference
  <2> HIDE DEF i
  <2>4. \/ Differ(a, b) = {} \/ i > Len(a) \/ i > Len(b)
        \/ buildOrder(B)[<<a[i], b[i]>>] = BuildOrder(a[i], b[i])
    BY <2>3 DEF buildOrder
  <2>q. QED
    BY <2>1, <2>2, <2>4
<1>q. QED
  BY <1>1, <1>2, <1>3

\* compareVersions orders versions whose builds are all numbers, or all words:
\* what "the highest version" means to the update.
THEOREM VersionsOrdered ==
  ASSUME NEW P, NEW B, Identifiers(P), Identifiers(B),
         \A u, v \in B : u.num = NaN <=> v.num = NaN
  PROVE  /\ \A a, b \in VersionsOf(P, B) :
              /\ CompareVersions(a, b) \in {-1, 0, 1}
              /\ CompareVersions(a, b) = 0 <=> a = b
              /\ CompareVersions(b, a) = -CompareVersions(a, b)
         /\ \A a, b, c \in VersionsOf(P, B) :
              CompareVersions(a, b) = -1 /\ CompareVersions(b, c) = -1 =>
                CompareVersions(a, c) = -1
<1> DEFINE core(a, b) == ListCompare(a.core, b.core, below)
           pre(a, b) == ListCompare(a.pre, b.pre, preOrder(P))
           build(a, b) == ListCompare(a.build, b.build, buildOrder(B))
<1>1. \A a, b \in VersionsOf(P, B) :
        CompareVersions(a, b) =
          IF core(a, b) # 0 THEN core(a, b)
          ELSE IF a.pre = <<>> /\ b.pre # <<>> THEN 1
          ELSE IF a.pre # <<>> /\ b.pre = <<>> THEN -1
          ELSE IF pre(a, b) # 0 THEN pre(a, b) ELSE build(a, b)
  <2> TAKE a, b \in VersionsOf(P, B)
  <2>1. CompareLists(a.core, b.core, Below) = core(a, b)
    BY ListsByOrder DEF VersionsOf
  <2>2. CompareLists(a.pre, b.pre, PreOrder) = pre(a, b)
    BY ListsByOrder DEF VersionsOf
  <2>3. CompareLists(a.build, b.build, BuildOrder) = build(a, b)
    BY ListsByOrder DEF VersionsOf
  <2> HIDE DEF core, pre, build
  <2>q. QED
    BY <2>1, <2>2, <2>3 DEF CompareVersions, CompareBuild
<1>2. /\ IsOrder(below, Nat) /\ IsOrder(preOrder(P), P) /\ IsOrder(buildOrder(B), B)
  BY MembersOrdered
<1>3. \A a \in VersionsOf(P, B) : a.core \in Seq(Nat) /\ a.pre \in Seq(P) /\ a.build \in Seq(B)
  BY DEF VersionsOf
<1>4. ASSUME NEW a \in VersionsOf(P, B), NEW b \in VersionsOf(P, B)
      PROVE  /\ core(a, b) \in {-1, 0, 1} /\ (core(a, b) = 0 <=> a.core = b.core)
             /\ core(b, a) = -core(a, b)
             /\ pre(a, b) \in {-1, 0, 1} /\ (pre(a, b) = 0 <=> a.pre = b.pre)
             /\ pre(b, a) = -pre(a, b)
             /\ build(a, b) \in {-1, 0, 1} /\ (build(a, b) = 0 <=> a.build = b.build)
             /\ build(b, a) = -build(a, b)
  BY <1>2, <1>3, ListsOrdered
<1>5. ASSUME NEW a \in VersionsOf(P, B), NEW b \in VersionsOf(P, B), NEW c \in VersionsOf(P, B)
      PROVE  /\ core(a, b) = -1 /\ core(b, c) = -1 => core(a, c) = -1
             /\ pre(a, b) = -1 /\ pre(b, c) = -1 => pre(a, c) = -1
             /\ build(a, b) = -1 /\ build(b, c) = -1 => build(a, c) = -1
  BY <1>2, <1>3, ListsTransitive
<1>6. \A a, b \in VersionsOf(P, B) :
        a = b <=> a.core = b.core /\ a.pre = b.pre /\ a.build = b.build
  BY DEF VersionsOf
<1> HIDE DEF core, pre, build
<1>7. ASSUME NEW a \in VersionsOf(P, B), NEW b \in VersionsOf(P, B)
      PROVE  /\ CompareVersions(a, b) \in {-1, 0, 1}
             /\ CompareVersions(a, b) = 0 <=> a = b
             /\ CompareVersions(b, a) = -CompareVersions(a, b)
  BY <1>1, <1>4, <1>6
<1>8. ASSUME NEW a \in VersionsOf(P, B), NEW b \in VersionsOf(P, B), NEW c \in VersionsOf(P, B),
             CompareVersions(a, b) = -1, CompareVersions(b, c) = -1
      PROVE  CompareVersions(a, c) = -1
  <2>1. /\ core(a, b) \in {-1, 0} /\ core(b, c) \in {-1, 0}
    BY <1>1, <1>4, <1>8
  <2>2. CASE core(a, b) = -1 \/ core(b, c) = -1
    <3>1. core(a, c) = -1
      <4>1. CASE core(a, b) = 0 \/ core(b, c) = 0
        <5>1. core(a, b) = 0 => a.core = b.core
          BY <1>4
        <5>2. core(b, c) = 0 => b.core = c.core
          BY <1>4
        <5>q. QED
          BY <2>2, <4>1, <5>1, <5>2 DEF core
      <4>q. QED
        BY <1>5, <2>1, <4>1
    <3>q. QED
      BY <1>1, <3>1
  <2>3. CASE core(a, b) = 0 /\ core(b, c) = 0
    <3>1. core(a, c) = 0
      BY <1>4, <2>3
    <3>2. /\ a.pre = <<>> => b.pre = <<>>
          /\ b.pre = <<>> => c.pre = <<>>
      BY <1>1, <1>8, <2>3
    <3>3. CASE a.pre # <<>> /\ c.pre = <<>>
      BY <1>1, <3>1, <3>3
    <3>4. CASE a.pre = <<>> \/ c.pre # <<>>
      <4>1. (a.pre = <<>> <=> b.pre = <<>>) /\ (b.pre = <<>> <=> c.pre = <<>>)
        BY <3>2, <3>4
      <4>2. /\ pre(a, b) = -1 \/ (pre(a, b) = 0 /\ build(a, b) = -1)
            /\ pre(b, c) = -1 \/ (pre(b, c) = 0 /\ build(b, c) = -1)
        BY <1>1, <1>4, <1>8, <2>3, <4>1
      <4>3. pre(a, c) = -1 \/ (pre(a, c) = 0 /\ build(a, c) = -1)
        <5>1. CASE pre(a, b) = 0 /\ pre(b, c) = 0
          <6>1. pre(a, c) = 0
            BY <1>4, <5>1
          <6>q. QED
            BY <1>5, <4>2, <5>1, <6>1
        <5>2. CASE pre(a, b) = 0 /\ pre(b, c) = -1
          <6>1. a.pre = b.pre
            BY <1>4, <5>2
          <6>q. QED
            BY <5>2, <6>1 DEF pre
        <5>3. CASE pre(a, b) = -1 /\ pre(b, c) = 0
          <6>1. b.pre = c.pre
            BY <1>4, <5>3
          <6>q. QED
            BY <5>3, <6>1 DEF pre
        <5>4. CASE pre(a, b) = -1 /\ pre(b, c) = -1
          BY <1>5, <5>4
        <5>q. QED
          BY <4>2, <5>1, <5>2, <5>3, <5>4
      <4>q. QED
        BY <1>1, <3>1, <4>1, <4>3
    <3>q. QED
      BY <3>3, <3>4
  <2>q. QED
    BY <2>1, <2>2, <2>3
<1>q. QED
  BY <1>7, <1>8

-----------------------------------------------------------------------------
(* Choosing the latest release.                                             *)

Taken(list, pick, T) ==
  IF Counts(list[Max(T)], list) THEN Better(pick[T \ {Max(T)}], list[Max(T)])
  ELSE pick[T \ {Max(T)}]

\* pick is the recursive function that the fold over the list is defined by: of
\* each set of places the release that is best among them.
IsPick(pick, list, S) ==
  pick = [T \in SUBSET S |-> IF T = {} THEN NoRelease ELSE Taken(list, pick, T)]

\* selectLatest is the value of that function at all places of the list.
LEMMA SelectIs ==
  ASSUME NEW list
  PROVE  SelectLatest(list) =
           (CHOOSE pick : IsPick(pick, list, DOMAIN list))[DOMAIN list]
BY DEF SelectLatest, FoldLeft, MapThenFoldSet, IsPick, Taken

\* Two such functions agree where both are defined.
LEMMA PicksAgree ==
  ASSUME NEW list, NEW S, NEW Q, NEW f, NEW h, IsPick(f, list, S), IsPick(h, list, Q),
         NEW T, IsFiniteSet(T), T \subseteq S, T \subseteq Q
  PROVE  T \subseteq Nat => f[T] = h[T]
<1> DEFINE F == {U \in SUBSET T : f[U] # h[U]}
<1> SUFFICES ASSUME F # {} PROVE T \subseteq Nat => FALSE
  OBVIOUS
<1>1. PICK U \in F : \A W \in F : W \subseteq U => W = U
  <2>1. F \subseteq SUBSET T
    OBVIOUS
  <2> HIDE DEF F
  <2>2. QED
    BY <2>1, MinimalSet
<1> SUFFICES ASSUME T \subseteq Nat PROVE FALSE
  OBVIOUS
<1>2. U # {}
  BY <1>1 DEF IsPick
<1>3. Max(U) \in U
  <2>1. IsFiniteSet(U) /\ U \subseteq Nat
    BY FS_Subset
  <2>q. QED
    BY <1>2, <2>1, Extremes
<1>4. f[U \ {Max(U)}] = h[U \ {Max(U)}]
  BY <1>1, <1>3
<1>5. f[U] = Taken(list, f, U) /\ h[U] = Taken(list, h, U)
  BY <1>2 DEF IsPick
<1>q. QED
  BY <1>1, <1>4, <1>5 DEF Taken

\* The recursion of the fold defines a function.
LEMMA PickExists ==
  ASSUME NEW list, NEW S, IsFiniteSet(S)
  PROVE  S \subseteq Nat => \E pick : IsPick(pick, list, S)
<1> DEFINE F == {T \in SUBSET S : ~ \E pick : IsPick(pick, list, T)}
<1> SUFFICES ASSUME F # {} PROVE S \subseteq Nat => FALSE
  OBVIOUS
<1>1. PICK T \in F : \A U \in F : U \subseteq T => U = T
  <2>1. F \subseteq SUBSET S
    OBVIOUS
  <2> HIDE DEF F
  <2>2. QED
    BY <2>1, MinimalSet
<1> SUFFICES ASSUME S \subseteq Nat PROVE FALSE
  OBVIOUS
<1> DEFINE pickOf(U) == CHOOSE pick : IsPick(pick, list, U)
           less(U) == U \ {Max(U)}
           pick == [U \in SUBSET T |->
                      IF U = {} THEN NoRelease ELSE Taken(list, pickOf(less(U)), U)]
<1>2. ASSUME NEW U, U \subseteq T, U # T PROVE IsPick(pickOf(U), list, U) /\ IsFiniteSet(U)
  <2>1. \E f : IsPick(f, list, U)
    BY <1>1, <1>2
  <2>2. IsFiniteSet(U)
    BY <1>1, <1>2, FS_Subset
  <2>3. QED
    BY <2>1, <2>2
<1>3. ASSUME NEW U \in SUBSET T, U # {} PROVE less(U) \subseteq U /\ less(U) # U
  <2>1. IsFiniteSet(U) /\ U \subseteq Nat
    BY FS_Subset
  <2>2. Max(U) \in U
    BY <1>3, <2>1, Extremes
  <2>q. QED
    BY <2>2
<1>4. ASSUME NEW U \in SUBSET T, U # {} PROVE pick[less(U)] = pickOf(less(U))[less(U)]
  <2> DEFINE W == less(U)
  <2>1. W \subseteq T /\ W # T /\ W \in SUBSET T /\ W \subseteq Nat
    <3>1. W \subseteq U /\ W # U
      BY <1>3, <1>4
    <3> HIDE DEF W
    <3>q. QED
      BY <3>1
  <2>2. IsPick(pickOf(W), list, W)
    BY <2>1, <1>2
  <2>3. CASE W = {}
    BY <2>1, <2>2, <2>3 DEF IsPick
  <2>4. CASE W # {}
    <3>1. less(W) \subseteq W /\ less(W) \subseteq T /\ less(W) # T /\ less(W) \subseteq Nat
      BY <2>1, <2>4, <1>3
    <3>2. IsPick(pickOf(less(W)), list, less(W)) /\ IsFiniteSet(less(W))
      BY <3>1, <1>2
    <3>3. pickOf(W)[less(W)] = pickOf(less(W))[less(W)]
      <4> HIDE DEF pickOf, W, less
      <4> QED BY <2>2, <3>1, <3>2, PicksAgree
    <3>4. pickOf(W)[W] = Taken(list, pickOf(W), W)
      BY <2>2, <2>4 DEF IsPick
    <3>5. pick[W] = Taken(list, pickOf(less(W)), W)
      BY <2>1, <2>4
    <3>6. pick[W] = pickOf(W)[W]
      <4> HIDE DEF pickOf, W, pick
      <4> QED BY <3>3, <3>4, <3>5 DEF Taken
    <3>q. QED
      BY <3>6
  <2>5. QED
    BY <2>3, <2>4
<1>5. IsPick(pick, list, T)
  <2>1. \A U \in SUBSET T : U # {} => Taken(list, pickOf(less(U)), U) = Taken(list, pick, U)
    <3> HIDE DEF pick, pickOf
    <3>q. QED
      BY <1>4 DEF Taken
  <2>2. pick = [U \in SUBSET T |-> IF U = {} THEN NoRelease ELSE Taken(list, pick, U)]
    <3> HIDE DEF pickOf, less
    <3>q. QED
      BY <2>1
  <2>q. QED
    BY <2>2 DEF IsPick
<1>q. QED
  BY <1>1, <1>5

\* The versions of these releases have an order.
InOrder(S) ==
  /\ \A r, s \in S :
       /\ CompareVersions(r.version, s.version) \in {-1, 0, 1}
       /\ CompareVersions(r.version, s.version) = 0 <=> r.version = s.version
       /\ CompareVersions(s.version, r.version) = -CompareVersions(r.version, s.version)
  /\ \A r, s, t \in S :
       CompareVersions(r.version, s.version) = -1 /\ CompareVersions(s.version, t.version) = -1 =>
         CompareVersions(r.version, t.version) = -1

\* A release of the places T of a list that counts, whenever there is one.
IsListed(best, list, T) ==
  /\ best # NoRelease => \E i \in T : best = list[i] /\ Counts(list[i], list)
  /\ \A i \in T : Counts(list[i], list) => best # NoRelease

\* It is the best one: none that counts is higher.
IsBest(best, list, T) ==
  /\ IsListed(best, list, T)
  /\ \A i \in T : Counts(list[i], list) => CompareVersions(list[i].version, best.version) <= 0

\* What the loop keeps, whether or not the versions of the list have an order.
IsKept(best, list, T) ==
  /\ IsListed(best, list, T)
  /\ InOrder(Range(list)) => IsBest(best, list, T)

\* Two facts about an order: the highest of a set stays the highest when nothing
\* higher comes, and what comes is the highest when it is higher.
LEMMA Highest ==
  ASSUME NEW S, InOrder(S), NEW r \in S, NEW s \in S, NEW t \in S,
         CompareVersions(r.version, s.version) <= 0,
         CompareVersions(t.version, s.version) > 0
  PROVE  CompareVersions(r.version, t.version) <= 0
<1> DEFINE C(u, v) == CompareVersions(u.version, v.version)
<1>1. C(s, t) = -1
  <2>1. C(t, s) \in {-1, 0, 1} /\ C(s, t) = -C(t, s)
    BY DEF InOrder
  <2>q. QED
    BY <2>1
<1>2. CASE C(r, s) = 0
  <2>1. r.version = s.version
    BY <1>2 DEF InOrder
  <2>q. QED
    BY <1>1, <2>1
<1>3. CASE C(r, s) = -1
  <2>1. C(r, t) = -1
    BY <1>1, <1>3 DEF InOrder
  <2>q. QED
    BY <2>1
<1>4. C(r, s) \in {-1, 0, 1}
  BY DEF InOrder
<1>q. QED
  BY <1>2, <1>3, <1>4

\* Each value of the function is what the loop keeps of its places.
LEMMA PickIsKept ==
  ASSUME NEW list \in Seq(Releases), NEW pick, IsPick(pick, list, DOMAIN list)
  PROVE  IsKept(pick[DOMAIN list], list, DOMAIN list)
<1> DEFINE S == DOMAIN list
           F == {T \in SUBSET S : ~IsKept(pick[T], list, T)}
<1>0. IsFiniteSet(S)
  BY FS_Interval
<1>1. S \subseteq Nat /\ S = 1 .. Len(list)
  OBVIOUS
<1> HIDE DEF S
<1> SUFFICES ASSUME F # {} PROVE FALSE
  BY DEF S
<1>2. PICK T \in F : \A U \in F : U \subseteq T => U = T
  <2>1. F \subseteq SUBSET S
    OBVIOUS
  <2> HIDE DEF F
  <2>2. QED
    BY <1>0, <2>1, MinimalSet
<1>3. T # {}
  <2>1. pick[{}] = NoRelease
    BY DEF IsPick, S
  <2>2. IsKept(pick[{}], list, {})
    BY <2>1 DEF IsKept, IsListed, IsBest
  <2>q. QED
    BY <1>2, <2>2
<1> DEFINE m == Max(T)  U == T \ {m}
<1>4. m \in T
  <2>1. IsFiniteSet(T) /\ T \subseteq Nat
    BY <1>0, <1>1, FS_Subset
  <2>q. QED
    BY <1>3, <2>1, Extremes
<1>5. IsKept(pick[U], list, U)
  BY <1>2, <1>4
<1>6. pick[T] = IF Counts(list[m], list) THEN Better(pick[U], list[m]) ELSE pick[U]
  <2>1. pick[T] = Taken(list, pick, T)
    BY <1>3 DEF IsPick, S
  <2>q. QED
    BY <2>1 DEF Taken
<1> HIDE DEF m
<1>7. \A i \in T : list[i] \in Releases /\ list[i] \in Range(list)
  BY <1>1 DEF Range, S
<1>8. IsKept(pick[T], list, T)
  <2>1. CASE ~Counts(list[m], list)
    <3>1. pick[T] = pick[U]
      BY <1>6, <2>1
    <3>q. QED
      BY <1>5, <2>1, <3>1 DEF IsKept, IsListed, IsBest
  <2>2. CASE Counts(list[m], list) /\ pick[U] = NoRelease
    <3>1. pick[T] = list[m]
      BY <1>6, <2>2 DEF Better
    <3>2. \A i \in U : ~Counts(list[i], list)
      BY <1>5, <2>2 DEF IsKept, IsListed, IsBest
    <3>3. list[m] \in Range(list) /\ list[m] # NoRelease
      BY <1>4, <1>7, UpdateAssumption
    <3>4. InOrder(Range(list)) => CompareVersions(list[m].version, list[m].version) <= 0
      BY <3>3 DEF InOrder
    <3>q. QED
      BY <1>4, <2>2, <3>1, <3>2, <3>3, <3>4 DEF IsKept, IsListed, IsBest
  <2>3. CASE /\ Counts(list[m], list) /\ pick[U] # NoRelease
             /\ CompareVersions(list[m].version, pick[U].version) > 0
    <3>1. pick[T] = list[m]
      BY <1>6, <2>3 DEF Better
    <3>2. list[m] \in Range(list) /\ list[m] # NoRelease
      BY <1>4, <1>7, UpdateAssumption
    <3>3. pick[U] \in Range(list)
      BY <1>5, <1>7, <2>3 DEF IsKept, IsListed, IsBest
    <3>4. InOrder(Range(list)) =>
            \A i \in U : Counts(list[i], list) =>
              CompareVersions(list[i].version, list[m].version) <= 0
      <4> SUFFICES ASSUME InOrder(Range(list)), NEW i \in U, Counts(list[i], list)
                   PROVE  CompareVersions(list[i].version, list[m].version) <= 0
        OBVIOUS
      <4>1. CompareVersions(list[i].version, pick[U].version) <= 0
        BY <1>5 DEF IsKept, IsListed, IsBest
      <4>2. list[i] \in Range(list)
        BY <1>7
      <4>q. QED
        BY <2>3, <3>2, <3>3, <4>1, <4>2, Highest
    <3>5. InOrder(Range(list)) => CompareVersions(list[m].version, list[m].version) <= 0
      BY <3>2 DEF InOrder
    <3>q. QED
      BY <1>4, <2>3, <3>1, <3>2, <3>4, <3>5 DEF IsKept, IsListed, IsBest
  <2>4. CASE /\ Counts(list[m], list) /\ pick[U] # NoRelease
             /\ ~(CompareVersions(list[m].version, pick[U].version) > 0)
    <3>1. pick[T] = pick[U]
      BY <1>6, <2>4 DEF Better
    <3>2. pick[U] \in Range(list) /\ list[m] \in Range(list)
      BY <1>4, <1>5, <1>7, <2>4 DEF IsKept, IsListed, IsBest
    <3>3. InOrder(Range(list)) => CompareVersions(list[m].version, pick[U].version) <= 0
      <4>1. InOrder(Range(list)) => CompareVersions(list[m].version, pick[U].version) \in {-1, 0, 1}
        BY <3>2 DEF InOrder
      <4>q. QED
        BY <2>4, <4>1
    <3>q. QED
      BY <1>5, <2>4, <3>1, <3>3 DEF IsKept, IsListed, IsBest
  <2>q. QED
    BY <2>1, <2>2, <2>3, <2>4
<1>q. QED
  BY <1>2, <1>8

\* selectLatest returns a release of the list that counts, when there is one,
\* whatever the versions are: also when builds mix numbers and words and
\* compareVersions orders them in a cycle.
LEMMA SelectsKept ==
  ASSUME NEW list \in Seq(Releases)
  PROVE  IsKept(SelectLatest(list), list, DOMAIN list)
<1>1. DOMAIN list \subseteq Nat /\ IsFiniteSet(DOMAIN list)
  <2>1. DOMAIN list = 1 .. Len(list) /\ Len(list) \in Nat
    OBVIOUS
  <2>2. IsFiniteSet(1 .. Len(list))
    BY <2>1, FS_Interval
  <2>q. QED
    BY <2>1, <2>2
<1> DEFINE pick == CHOOSE f : IsPick(f, list, DOMAIN list)
<1>2. IsPick(pick, list, DOMAIN list)
  BY <1>1, PickExists
<1>3. SelectLatest(list) = pick[DOMAIN list]
  BY SelectIs
<1> HIDE DEF pick
<1>q. QED
  BY <1>2, <1>3, PickIsKept

\* If the versions of the list have an order (VersionsOrdered: those whose builds
\* are all numbers, or all words, have), what selectLatest returns is the
\* release that counts and that no other one that counts is higher than.
THEOREM SelectsLatest ==
  ASSUME NEW list \in Seq(Releases), InOrder(Range(list))
  PROVE  IsBest(SelectLatest(list), list, DOMAIN list)
BY SelectsKept DEF IsKept

-----------------------------------------------------------------------------
(* Updates.                                                                 *)

Installable == {Original} \cup {r.version : r \in Releases}

UpdateStates ==
  {Finished}
    \cup [pc : {"started"}, current : Installable, options : Options]
    \cup [pc : {"upToDate"}, options : Options, chosen : Releases]
    \cup [pc : {"chosen"}, options : Options, list : Seq(Releases), chosen : Releases]
    \cup [pc : {"downloaded", "writing", "ready"}, options : Options, chosen : Releases,
          bytes : Bytes]

\* What an update that has chosen a release knows of it: it is published and for
\* this machine, and newer than the program unless that was replaced meanwhile
\* or --force is given.
Candidate(u) ==
  /\ upd[u].chosen \in Range(published)
  /\ upd[u].chosen.asset
  /\ ~outdated[u] /\ ~upd[u].options.force => Newer(upd[u].chosen, program.version)

UpdaterInv(u) ==
  /\ upd[u].pc = "started" /\ ~outdated[u] => upd[u].current = program.version
  /\ upd[u].pc \in {"chosen", "downloaded", "writing", "ready"} => Candidate(u)
  /\ upd[u].pc = "chosen" /\ upd[u].options.named = NoRelease =>
       upd[u].chosen = SelectLatest(upd[u].list)
  /\ upd[u].pc \in {"writing", "ready"} =>
       upd[u].bytes = "intact" /\ upd[u].chosen.sums /\ ~windows

UpdateTypes ==
  /\ published \in Seq(Releases)
  /\ program \in [version : Installable, bytes : Bytes]
  /\ staged \in BOOLEAN /\ windows \in BOOLEAN
  /\ upd \in [Updaters -> UpdateStates]
  /\ outdated \in [Updaters -> BOOLEAN]
  /\ updates \in 0 .. MaxUpdates

UpdateInv ==
  /\ UpdateTypes
  /\ InstalledIsGenuine
  /\ \A u \in Updaters : UpdaterInv(u)

\* A state of an update has the fields that its pc says.
LEMMA StateFields ==
  ASSUME NEW s \in UpdateStates
  PROVE  /\ s.pc \in {"finished", "started", "upToDate", "chosen", "downloaded", "writing", "ready"}
         /\ s.pc = "started" =>
              s.options \in Options /\ s.current \in Installable
         /\ s.pc = "chosen" =>
              s.options \in Options /\ s.chosen \in Releases /\ s.list \in Seq(Releases)
         /\ s.pc \in {"downloaded", "writing", "ready"} =>
              /\ s \in [pc : {"downloaded", "writing", "ready"}, options : Options,
                        chosen : Releases, bytes : Bytes]
BY DEF UpdateStates, Finished

\* The release that is chosen is one of the list.
LEMMA ChosenIsListed ==
  ASSUME NEW list \in Seq(Releases), NEW options \in Options,
         Chosen(list, options) # NoRelease
  PROVE  /\ Chosen(list, options) \in Range(list)
         /\ Chosen(list, options) \in Releases
         /\ options.named = NoRelease => Chosen(list, options) = SelectLatest(list)
<1>1. Range(list) \subseteq Releases
  BY DEF Range
<1>2. options.named = NoRelease => SelectLatest(list) = NoRelease \/ SelectLatest(list) \in Range(list)
  BY SelectsKept DEF IsKept, IsListed, Range
<1>q. QED
  BY <1>1, <1>2 DEF Chosen

\* Publishing adds to the list.
LEMMA PublishFacts ==
  ASSUME published \in Seq(Releases), NEW r \in Releases, Publish(r)
  PROVE  published' \in Seq(Releases) /\ Range(published) \subseteq Range(published')
<1>1. published' = <<r>> \o published
  BY DEF Publish
<1>2. published' \in Seq(Releases) /\ Len(published') = 1 + Len(published)
        /\ \A i \in 1 .. Len(published) : published'[i + 1] = published[i]
  BY <1>1
<1>3. Len(published) \in Nat /\ DOMAIN published = 1 .. Len(published)
        /\ DOMAIN published' = 1 .. Len(published')
  BY <1>2
<1>4. \A i \in 1 .. Len(published) : i + 1 \in 1 .. Len(published')
  BY <1>2, <1>3
<1>q. QED
  BY <1>2, <1>3, <1>4 DEF Range

\* The original program is whole and no update is under way.
LEMMA UpdateInitInv == UpdateInit => UpdateInv
<1> SUFFICES ASSUME UpdateInit PROVE UpdateInv
  OBVIOUS
<1>1. UpdateTypes
  <2>1. Finished \in UpdateStates
    BY DEF UpdateStates
  <2>2. [version |-> Original, bytes |-> "intact"] \in [version : Installable, bytes : Bytes]
    BY DEF Installable, Bytes
  <2>3. 0 \in 0 .. MaxUpdates
    BY UpdateAssumption
  <2>4. <<>> \in Seq(Releases)
    OBVIOUS
  <2>5. /\ upd \in [Updaters -> UpdateStates]
        /\ outdated \in [Updaters -> BOOLEAN]
    BY <2>1 DEF UpdateInit
  <2>q. QED
    BY <2>2, <2>3, <2>4, <2>5 DEF UpdateInit, UpdateTypes
<1>2. \A u \in Updaters : upd[u].pc = "finished"
  BY DEF UpdateInit, Finished
<1>q. QED
  BY <1>1, <1>2 DEF UpdateInit, UpdateInv, InstalledIsGenuine, UpdaterInv

\* A step of one update that leaves the program alone: what is left to show is
\* that the new state of the update is a state and fits the rest.
LEMMA OneUpdate ==
  ASSUME UpdateInv, NEW u \in Updaters, NEW s \in UpdateStates,
         upd' = [upd EXCEPT ![u] = s],
         UNCHANGED <<published, program, windows>>, staged' \in BOOLEAN,
         outdated' \in [Updaters -> BOOLEAN],
         \A v \in Updaters \ {u} : outdated'[v] = outdated[v],
         updates' \in 0 .. MaxUpdates,
         UpdaterInv(u)'
  PROVE  UpdateInv'
<1>1. UpdateTypes'
  BY DEF UpdateInv, UpdateTypes
<1>2. InstalledIsGenuine'
  BY DEF UpdateInv, InstalledIsGenuine
<1>3. ASSUME NEW v \in Updaters, v # u PROVE UpdaterInv(v)'
  <2>1. upd'[v] = upd[v] /\ outdated'[v] = outdated[v]
    BY <1>3 DEF UpdateInv, UpdateTypes
  <2>2. UpdaterInv(v)
    BY DEF UpdateInv
  <2>q. QED
    BY <2>1, <2>2 DEF UpdaterInv, Candidate
<1>q. QED
  BY <1>1, <1>2, <1>3 DEF UpdateInv

\* A release more leaves what updates have chosen in the list.
LEMMA PublishKeeps ==
  ASSUME UpdateInv, NEW r \in Releases, Publish(r)
  PROVE  UpdateInv'
<1>1. published' \in Seq(Releases) /\ Range(published) \subseteq Range(published')
  BY PublishFacts DEF UpdateInv, UpdateTypes
<1>2. UNCHANGED <<program, staged, windows, upd, outdated, updates>>
  BY DEF Publish
<1>3. UpdateTypes'
  BY <1>1, <1>2 DEF UpdateInv, UpdateTypes
<1>4. InstalledIsGenuine'
  BY <1>1, <1>2 DEF UpdateInv, InstalledIsGenuine
<1>5. ASSUME NEW u \in Updaters PROVE UpdaterInv(u)'
  <2>1. UpdaterInv(u)
    BY DEF UpdateInv
  <2>q. QED
    BY <1>1, <1>2, <2>1 DEF UpdaterInv, Candidate
<1>q. QED
  BY <1>3, <1>4, <1>5 DEF UpdateInv

\* What is chosen is a release of the list, for this machine and newer.
LEMMA ListReleasesKeeps ==
  ASSUME UpdateInv, NEW u \in Updaters, ListReleases(u)
  PROVE  UpdateInv'
<1> DEFINE c == Chosen(published, upd[u].options)
           s == [pc |-> "chosen", options |-> upd[u].options, list |-> published,
                 chosen |-> c]
<1>1. /\ upd[u].pc = "started" /\ c # NoRelease /\ c.asset
      /\ Newer(c, upd[u].current) \/ upd[u].options.force
      /\ upd' = [upd EXCEPT ![u] = s]
      /\ UNCHANGED <<published, program, staged, windows, outdated, updates>>
  BY DEF ListReleases
<1>2. UpdateTypes /\ UpdaterInv(u) /\ upd[u] \in UpdateStates /\ published \in Seq(Releases)
  BY DEF UpdateInv, UpdateTypes
<1>3. upd[u].options \in Options
  BY <1>1, <1>2, StateFields
<1>4. /\ c \in Range(published) /\ c \in Releases
      /\ upd[u].options.named = NoRelease => c = SelectLatest(published)
  BY <1>1, <1>2, <1>3, ChosenIsListed
<1>5. s \in UpdateStates
  <2> HIDE DEF c
  <2>q. QED
    BY <1>2, <1>3, <1>4 DEF UpdateStates
<1>6. upd'[u] = s
  BY <1>1, <1>2 DEF UpdateTypes
<1>7. ~outdated[u] => upd[u].current = program.version
  BY <1>1, <1>2 DEF UpdaterInv
<1>8. UpdaterInv(u)'
  <2> HIDE DEF c
  <2>q. QED
    BY <1>1, <1>4, <1>6, <1>7 DEF UpdaterInv, Candidate
<1> HIDE DEF s
<1>q. QED
  BY <1>1, <1>2, <1>5, <1>8, OneUpdate DEF UpdateTypes

\* The asset arrives, damaged or not.
LEMMA DownloadKeeps ==
  ASSUME UpdateInv, NEW u \in Updaters, Download(u)
  PROVE  UpdateInv'
<1>1. PICK b \in {"intact", "damaged"} :
        upd' = [upd EXCEPT ![u] = [pc |-> "downloaded", options |-> upd[u].options,
                                   chosen |-> upd[u].chosen, bytes |-> b]]
  BY DEF Download
<1> DEFINE s == [pc |-> "downloaded", options |-> upd[u].options,
                 chosen |-> upd[u].chosen, bytes |-> b]
<1>2. upd[u].pc = "chosen" /\ UNCHANGED <<published, program, staged, windows, outdated, updates>>
  BY DEF Download
<1>3. UpdateTypes /\ UpdaterInv(u) /\ upd[u] \in UpdateStates
  BY DEF UpdateInv, UpdateTypes
<1>4. upd[u].options \in Options /\ upd[u].chosen \in Releases
  BY <1>2, <1>3, StateFields
<1>5. s \in UpdateStates
  BY <1>4 DEF UpdateStates, Bytes
<1>6. upd'[u] = s
  BY <1>1, <1>3 DEF UpdateTypes
<1>7. UpdaterInv(u)'
  BY <1>2, <1>3, <1>6 DEF UpdaterInv, Candidate
<1> HIDE DEF s
<1>q. QED
  BY <1>1, <1>2, <1>3, <1>5, <1>7, OneUpdate DEF UpdateTypes, s

\* InstallBegins and TempWritten change the pc alone.
LEMMA PcKeeps ==
  ASSUME UpdateInv, NEW u \in Updaters, NEW pc \in {"writing", "ready"},
         \/ upd[u].pc = "downloaded" /\ Verified(u) /\ ~windows
         \/ upd[u].pc = "writing",
         upd' = [upd EXCEPT ![u].pc = pc],
         UNCHANGED <<published, program, staged, windows, outdated, updates>>
  PROVE  UpdateInv'
<1> DEFINE s == [upd[u] EXCEPT !.pc = pc]
<1>1. UpdateTypes /\ UpdaterInv(u) /\ upd[u] \in UpdateStates
  BY DEF UpdateInv, UpdateTypes
<1>2. upd[u] \in [pc : {"downloaded", "writing", "ready"}, options : Options,
                  chosen : Releases, bytes : Bytes]
  BY <1>1, StateFields
<1>3. s \in UpdateStates
  BY <1>2 DEF UpdateStates
<1>4. upd' = [upd EXCEPT ![u] = s] /\ upd'[u] = s
  BY <1>1 DEF UpdateTypes
<1>5. /\ s.pc = pc /\ s.options = upd[u].options /\ s.chosen = upd[u].chosen
      /\ s.bytes = upd[u].bytes
  BY <1>2
<1>6. /\ upd[u].bytes = "intact" /\ upd[u].chosen.sums /\ ~windows
      /\ Candidate(u)
  BY <1>1 DEF UpdaterInv, Verified
<1> HIDE DEF s
<1>7. UpdaterInv(u)'
  BY <1>4, <1>5, <1>6 DEF UpdaterInv, Candidate
<1>q. QED
  BY <1>1, <1>3, <1>4, <1>7, OneUpdate DEF UpdateTypes

\* A state that says nothing of the program.
LEMMA IdleKeeps ==
  ASSUME UpdateInv, NEW u \in Updaters, NEW s \in UpdateStates,
         s.pc \in {"finished", "upToDate"},
         upd' = [upd EXCEPT ![u] = s],
         staged' \in BOOLEAN,
         UNCHANGED <<published, program, windows, outdated, updates>>
  PROVE  UpdateInv'
<1>1. UpdateTypes
  BY DEF UpdateInv
<1>2. upd'[u] = s
  BY <1>1 DEF UpdateTypes
<1>3. UpdaterInv(u)'
  BY <1>2 DEF UpdaterInv
<1>q. QED
  BY <1>1, <1>3, OneUpdate DEF UpdateTypes

\* An update starts with the version that is installed.
LEMMA StartKeeps ==
  ASSUME UpdateInv, NEW u \in Updaters, NEW options \in Options, StartUpdate(u, options)
  PROVE  UpdateInv'
<1> DEFINE s == [pc |-> "started", current |-> program.version, options |-> options]
<1>1. UpdateTypes
  BY DEF UpdateInv
<1>2. /\ upd' = [upd EXCEPT ![u] = s]
      /\ outdated' = [outdated EXCEPT ![u] = FALSE]
      /\ updates' = updates + 1 /\ updates < MaxUpdates
      /\ UNCHANGED <<published, program, staged, windows>>
  BY DEF StartUpdate
<1>3. s \in UpdateStates
  BY <1>1 DEF UpdateTypes, UpdateStates
<1>4. upd'[u] = s
  BY <1>1, <1>2 DEF UpdateTypes
<1>5. UpdaterInv(u)'
  BY <1>2, <1>4 DEF UpdaterInv
<1>6. updates' \in 0 .. MaxUpdates
  BY <1>1, <1>2, UpdateAssumption DEF UpdateTypes
<1> HIDE DEF s
<1>q. QED
  BY <1>1, <1>2, <1>3, <1>5, <1>6, OneUpdate DEF UpdateTypes

\* The rename: every other update is outdated from here.
LEMMA InstalledKeeps ==
  ASSUME UpdateInv, NEW u \in Updaters, Installed(u)
  PROVE  UpdateInv'
<1>1. /\ upd[u].pc = "ready"
      /\ program' = [version |-> upd[u].chosen.version, bytes |-> upd[u].bytes]
      /\ outdated' = [v \in Updaters |-> v # u \/ outdated[v]]
      /\ upd' = [upd EXCEPT ![u] = Finished]
      /\ UNCHANGED <<published, staged, windows, updates>>
  BY DEF Installed
<1>2. UpdateTypes /\ UpdaterInv(u) /\ upd[u] \in UpdateStates
  BY DEF UpdateInv, UpdateTypes
<1>3. upd[u].chosen \in Releases /\ upd[u].bytes \in Bytes
  BY <1>1, <1>2, StateFields
<1>4. /\ upd[u].bytes = "intact" /\ upd[u].chosen.sums /\ ~windows
      /\ upd[u].chosen \in Range(published) /\ upd[u].chosen.asset
  BY <1>1, <1>2 DEF UpdaterInv, Candidate
<1>5. UpdateTypes'
  <2>1. Finished \in UpdateStates
    BY DEF UpdateStates
  <2>2. upd' \in [Updaters -> UpdateStates]
    BY <1>1, <1>2, <2>1 DEF UpdateTypes
  <2>3. outdated' \in [Updaters -> BOOLEAN]
    BY <1>1
  <2>4. program' \in [version : Installable, bytes : Bytes]
    BY <1>1, <1>3 DEF Installable
  <2>q. QED
    BY <1>1, <1>2, <2>2, <2>3, <2>4 DEF UpdateTypes
<1>6. InstalledIsGenuine'
  BY <1>1, <1>4 DEF InstalledIsGenuine
<1>7. ASSUME NEW v \in Updaters PROVE UpdaterInv(v)'
  <2>1. CASE v = u
    <3>1. upd'[v].pc = "finished"
      BY <1>1, <1>2, <2>1 DEF UpdateTypes, Finished
    <3>q. QED
      BY <3>1 DEF UpdaterInv
  <2>2. CASE v # u
    <3>1. upd'[v] = upd[v] /\ outdated'[v]
      BY <1>1, <1>2, <2>2 DEF UpdateTypes
    <3>2. UpdaterInv(v)
      BY DEF UpdateInv
    <3>q. QED
      BY <1>1, <3>1, <3>2 DEF UpdaterInv, Candidate
  <2>q. QED
    BY <2>1, <2>2
<1>q. QED
  BY <1>5, <1>6, <1>7 DEF UpdateInv

\* Every step of every update keeps the invariant.
LEMMA UpdateInvStep == UpdateInv /\ [UpdateNext]_uvars => UpdateInv'
<1> SUFFICES ASSUME UpdateInv, [UpdateNext]_uvars PROVE UpdateInv'
  OBVIOUS
<1>t. UpdateTypes
  BY DEF UpdateInv
<1>f. Finished \in UpdateStates /\ Finished.pc = "finished"
  BY DEF UpdateStates, Finished
<1>1. CASE UNCHANGED uvars
  BY <1>1 DEF uvars, UpdateInv, UpdateTypes, InstalledIsGenuine, UpdaterInv, Candidate
<1>2. ASSUME NEW r \in Releases, Publish(r) PROVE UpdateInv'
  BY <1>2, PublishKeeps
<1>3. ASSUME NEW u \in Updaters, UpdateStep(u) PROVE UpdateInv'
  <2>1. ASSUME NEW options \in Options, StartUpdate(u, options) PROVE UpdateInv'
    BY <2>1, StartKeeps
  <2>2. CASE ListReleases(u)
    BY <2>2, ListReleasesKeeps
  <2>3. CASE UpToDate(u)
    <3> DEFINE c == Chosen(published, upd[u].options)
               s == [pc |-> "upToDate", options |-> upd[u].options, chosen |-> c]
    <3>1. /\ upd[u].pc = "started" /\ c # NoRelease
          /\ upd' = [upd EXCEPT ![u] = s]
          /\ UNCHANGED <<published, program, staged, windows, outdated, updates>>
      BY <2>3 DEF UpToDate
    <3>2. upd[u].options \in Options
      BY <1>t, <3>1, StateFields DEF UpdateTypes
    <3>3. c \in Releases
      BY <1>t, <3>1, <3>2, ChosenIsListed DEF UpdateTypes
    <3> HIDE DEF c
    <3>4. s \in UpdateStates /\ s.pc = "upToDate"
      BY <3>2, <3>3 DEF UpdateStates
    <3> HIDE DEF s
    <3>q. QED
      BY <1>t, <3>1, <3>4, IdleKeeps DEF UpdateTypes
  <2>4. CASE Download(u)
    BY <2>4, DownloadKeeps
  <2>5. CASE UpdateFails(u)
    BY <1>t, <1>f, <2>5, IdleKeeps DEF UpdateFails, UpdateTypes
  <2>6. CASE InstallBegins(u)
    BY <2>6, PcKeeps DEF InstallBegins
  <2>7. CASE TempWritten(u)
    BY <2>7, PcKeeps DEF TempWritten
  <2>8. CASE Installed(u)
    BY <2>8, InstalledKeeps
  <2>9. CASE Staged(u)
    BY <1>f, <2>9, IdleKeeps DEF Staged
  <2>10. CASE Interrupted(u)
    BY <1>t, <1>f, <2>10, IdleKeeps DEF Interrupted, UpdateTypes
  <2>q. QED
    BY <1>3, <2>1, <2>2, <2>3, <2>4, <2>5, <2>6, <2>7, <2>8, <2>9, <2>10 DEF UpdateStep
<1>q. QED
  BY <1>1, <1>2, <1>3 DEF UpdateNext

\* The facts about updates that all the theorems below come from.
THEOREM UpdateInvariant == UpdateSpec => []UpdateInv
BY UpdateInitInv, UpdateInvStep, PTL DEF UpdateSpec

\* The installed program is whole at every moment and a verified release,
\* whatever downloads are damaged and wherever updates are interrupted
\* (installBytes renames a file that was verified and written in full).
THEOREM InstalledIsGenuineHolds == UpdateSpec => []InstalledIsGenuine
BY UpdateInvariant, PTL DEF UpdateInv

\* What an update has chosen without --release-version is the highest of what
\* was listed, when the versions have an order: identifiers of prereleases and
\* builds are told apart by their text, builds are all numbers or all words.
THEOREM LatestChosenHolds ==
  ASSUME NEW P, NEW B, Identifiers(P), Identifiers(B),
         \A u, v \in B : u.num = NaN <=> v.num = NaN,
         Releases \subseteq [version : VersionsOf(P, B), prerelease : BOOLEAN,
                             asset : BOOLEAN, sums : BOOLEAN]
  PROVE  UpdateSpec => []LatestChosen
<1>1. InOrder(Releases)
  <2>1. \A r \in Releases : r.version \in VersionsOf(P, B)
    OBVIOUS
  <2>q. QED
    BY <2>1, VersionsOrdered DEF InOrder
<1>2. UpdateInv => LatestChosen
  <2> SUFFICES ASSUME UpdateInv, NEW u \in Updaters, upd[u].pc = "chosen",
                      upd[u].options.named = NoRelease
               PROVE  /\ upd[u].chosen \in Range(upd[u].list)
                      /\ \A r \in Range(upd[u].list) :
                           /\ upd[u].chosen.prerelease => r.prerelease
                           /\ r.prerelease = upd[u].chosen.prerelease =>
                                CompareVersions(r.version, upd[u].chosen.version) <= 0
    BY DEF LatestChosen
  <2> DEFINE list == upd[u].list  c == upd[u].chosen
  <2>1. list \in Seq(Releases) /\ c \in Releases
    BY StateFields DEF UpdateInv, UpdateTypes
  <2>2. c = SelectLatest(list)
    BY DEF UpdateInv, UpdaterInv
  <2> HIDE DEF list, c
  <2>3. IsBest(c, list, DOMAIN list)
    <3>1. InOrder(Range(list))
      <4>1. Range(list) \subseteq Releases
        BY <2>1 DEF Range
      <4>q. QED
        BY <1>1, <4>1 DEF InOrder
    <3>q. QED
      BY <2>1, <2>2, <3>1, SelectsLatest
  <2>4. c \in Range(list) /\ Counts(c, list)
    <3>1. c # NoRelease
      BY <2>1, UpdateAssumption
    <3>q. QED
      BY <2>3, <3>1 DEF IsBest, IsListed, Range
  <2>5. ASSUME NEW r \in Range(list)
        PROVE  /\ c.prerelease => r.prerelease
               /\ r.prerelease = c.prerelease => CompareVersions(r.version, c.version) <= 0
    <3>1. c.prerelease => r.prerelease
      BY <2>4, <2>5 DEF Counts
    <3>2. ASSUME r.prerelease = c.prerelease PROVE Counts(r, list)
      BY <2>4, <3>2 DEF Counts
    <3>3. Counts(r, list) => CompareVersions(r.version, c.version) <= 0
      BY <2>3, <2>5 DEF IsBest, Range
    <3>q. QED
      BY <3>1, <3>2, <3>3
  <2>q. QED
    BY <2>4, <2>5 DEF list, c
<1>q. QED
  BY <1>2, UpdateInvariant, PTL

\* An update without --force replaces the program by a newer one, unless another
\* update replaced it after this one had read its own version.
THEOREM OnlyNewerHolds == UpdateSpec => OnlyNewer
<1>1. UpdateInv /\ [UpdateNext]_uvars =>
        [\A u \in Updaters :
           Installed(u) /\ ~outdated[u] /\ ~upd[u].options.force =>
             CompareVersions(program'.version, program.version) > 0]_uvars
  <2> SUFFICES ASSUME UpdateInv, NEW u \in Updaters, Installed(u), ~outdated[u],
                      ~upd[u].options.force
               PROVE  CompareVersions(program'.version, program.version) > 0
    OBVIOUS
  <2>1. upd[u].pc = "ready" /\ program'.version = upd[u].chosen.version
    BY DEF Installed
  <2>2. UpdaterInv(u)
    BY DEF UpdateInv
  <2>q. QED
    BY <2>1, <2>2 DEF UpdaterInv, Candidate, Newer
<1>q. QED
  BY <1>1, UpdateInvariant, PTL DEF UpdateSpec, OnlyNewer

-----------------------------------------------------------------------------
(* The parts together.                                                      *)

\* Each part behaves in the composition as it does alone.
LEMMA Composition == Spec => ConfigSpec /\ UpdateSpec /\ BatchSpec
<1>1. Init => ConfigInit /\ UpdateInit /\ BatchInit
  BY DEF Init
<1>2. [Next]_<<cvars, uvars, bvars, about>> =>
        [ConfigNext]_cvars /\ [UpdateNext]_uvars /\ [BatchNext]_bvars
  BY DEF Next
<1>q. QED
  BY <1>1, <1>2, PTL DEF Spec, ConfigSpec, UpdateSpec, BatchSpec

\* All parts keep their types; in particular neither file is ever torn, and no
\* request of a call is attempted more than MAX_ATTEMPTS times.
THEOREM TypeCorrect == Spec => []TypeOK
<1>1. ConfigInv /\ UpdateInv /\ BatchTypeOK => TypeOK
  <2> SUFFICES ASSUME ConfigInv, UpdateInv, BatchTypeOK PROVE TypeOK
    OBVIOUS
  <2>1. Range(published) \subseteq Releases
    BY DEF UpdateInv, UpdateTypes, Range
  <2>2. \A u \in Updaters :
          upd[u].pc \in {"finished", "upToDate", "started", "chosen", "downloaded",
                        "writing", "ready"}
    BY StateFields DEF UpdateInv, UpdateTypes
  <2>3. UpdateTypeOK
    BY <2>1, <2>2 DEF UpdateInv, UpdateTypes, UpdateTypeOK
  <2>q. QED
    BY <2>3 DEF ConfigInv, TypeOK
<1>q. QED
  BY <1>1, Composition, ConfigInvariant, UpdateInvariant, BatchTypeCorrect, PTL
=============================================================================
