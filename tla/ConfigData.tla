----------------------------- MODULE ConfigData -----------------------------
(***************************************************************************)
(* The configuration of the CLI (cli/src/config.ts) and what a command      *)
(* makes of it (cli/src/devices.ts, target.ts).  The fields of a section    *)
(* stand for gateway, gateway_token and token: a gateway is never stored    *)
(* empty, the tokens may be.  The time of the connection and the notes,     *)
(* and the YAML text, are not modelled.                                     *)
(***************************************************************************)
EXTENDS FiniteSets

CONSTANTS Devices,  \* device ids
          Values,   \* what a field may be given
          Blank,    \* the empty string, one of Values
          None

ASSUME ConfigAssumption == Blank \in Values /\ None \notin Values /\ Blank # None

Fields == {"gateway", "token"}
Section == [Fields -> Values \cup {None}]
Unset == [f \in Fields |-> None]
ASSUME SectionAssumption == None \notin Section

\* What a file holds or a process has in memory.
Configs == [defaults : Section, devices : [Devices -> Section \cup {None}]]
EmptyConfig == [defaults |-> Unset, devices |-> [d \in Devices |-> None]]

\* asString: an empty string in the file reads as a field that is not there.
Strings(section) ==
  [f \in Fields |-> IF section[f] = Blank THEN None ELSE section[f]]

\* parseConfig.
Parsed(text) ==
  [defaults |-> Strings(text.defaults),
   devices |-> [d \in Devices |->
     IF text.devices[d] = None THEN None ELSE Strings(text.devices[d])]]

\* entryFromOverrides: only what was given on the command line.
Overrides == {given \in Section : given["gateway"] # Blank}

Commands ==
  [kind : {"connect"}, device : Devices, given : Overrides, setDefault : BOOLEAN]
    \cup [kind : {"disconnect"}, device : Devices, given : {Unset}, setDefault : {FALSE}]

\* Mutant: what was not given is forgotten.
Replaced(old, given) == given

Merged(old, given) ==
  [f \in Fields |-> IF given[f] # None THEN given[f] ELSE old[f]]

\* devicesConnect merges into the entry and, when asked, into the defaults.
Connected(c, cfg) ==
  LET old == IF cfg.devices[c.device] = None THEN Unset ELSE cfg.devices[c.device]
  IN [defaults |-> IF c.setDefault THEN Merged(cfg.defaults, c.given) ELSE cfg.defaults,
      devices |-> [cfg.devices EXCEPT ![c.device] = Merged(old, c.given)]]

\* devicesDisconnect deletes the entry.
Disconnected(c, cfg) == [cfg EXCEPT !.devices[c.device] = None]

Changed(c, cfg) ==
  IF c.kind = "connect" THEN Connected(c, cfg) ELSE Disconnected(c, cfg)
=============================================================================
