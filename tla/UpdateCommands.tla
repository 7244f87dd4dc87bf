--------------------------- MODULE UpdateCommands ---------------------------
(***************************************************************************)
(* Processes that run mcp update (cli/src/update.ts) on one installed       *)
(* program, while releases are published.  A process runs the version that  *)
(* was installed when it started, lists the releases, chooses one, fetches  *)
(* its asset and its checksums, and renames a temporary file over the       *)
(* program; on Windows it leaves the new program beside the old one.        *)
(*                                                                          *)
(* A release is [version, prerelease, asset, sums]; asset and sums say      *)
(* whether it has an asset for this machine and an entry in SHA256SUMS.  A  *)
(* download may be damaged, and the digest tells.  A source checkout        *)
(* refuses, and --to installs elsewhere: both are left out.                 *)
(***************************************************************************)
EXTENDS Versions, SequencesExt

CONSTANTS Updaters,    \* processes
          Releases,    \* releases that may be published
          Original,    \* the version installed at the beginning
          MaxUpdates,  \* bound: updates started
          NoRelease    \* no release

ASSUME UpdateAssumption == MaxUpdates \in Nat /\ NoRelease \notin Releases

VARIABLES published,  \* the releases, newest first as the index lists them
          program,    \* the installed program: [version, bytes]
          staged,     \* Windows: a new program lies beside the old one
          windows,    \* process.platform is win32
          upd,        \* per process
          outdated,   \* history, per process: the program was replaced since it started
          updates     \* updates started so far (bound)

uvars == <<published, program, staged, windows, upd, outdated, updates>>

\* check, force: the options.  named: --release-version, or NoRelease.
Options == [check : BOOLEAN, force : BOOLEAN, named : Releases \cup {NoRelease}]
Bytes == {"intact", "damaged"}
Finished == [pc |-> "finished"]

-----------------------------------------------------------------------------
(* Choosing a release.                                                      *)

\* Mutant: prereleases count always.
CountsAlways(release, list) == TRUE

\* The pool of selectLatest: prereleases count only when there is nothing else.
Counts(release, list) ==
  release.prerelease => \A other \in Range(list) : other.prerelease

Better(best, release) ==
  IF best = NoRelease \/ CompareVersions(release.version, best.version) > 0
  THEN release ELSE best

SelectLatest(list) ==
  LET Pick(best, release) ==
        IF Counts(release, list) THEN Better(best, release) ELSE best
  IN FoldLeft(Pick, NoRelease, list)

\* NoRelease when the named release is not in the list, or the list is empty.
Chosen(list, options) ==
  IF options.named = NoRelease THEN SelectLatest(list)
  ELSE IF options.named \in Range(list) THEN options.named
  ELSE NoRelease

\* Mutant: any other version will do.
Other(release, current) == CompareVersions(release.version, current) # 0

Newer(release, current) == CompareVersions(release.version, current) > 0

-----------------------------------------------------------------------------
(* The environment.                                                         *)

Publish(r) ==
  /\ r \notin Range(published)
  /\ published' = <<r>> \o published
  /\ UNCHANGED <<program, staged, windows, upd, outdated, updates>>

-----------------------------------------------------------------------------
(* runUpdate.                                                               *)

StartUpdate(u, options) ==
  /\ upd[u].pc \in {"finished", "upToDate"}
  /\ updates < MaxUpdates
  /\ upd' = [upd EXCEPT ![u] =
       [pc |-> "started", current |-> program.version, options |-> options]]
  /\ outdated' = [outdated EXCEPT ![u] = FALSE]
  /\ updates' = updates + 1
  /\ UNCHANGED <<published, program, staged, windows>>

\* The list arrives, a release is chosen, and there is something to install.
ListReleases(u) ==
  /\ upd[u].pc = "started"
  /\ LET chosen == Chosen(published, upd[u].options)
     IN /\ chosen # NoRelease
        /\ ~upd[u].options.check
        /\ Newer(chosen, upd[u].current) \/ upd[u].options.force
        /\ chosen.asset
        /\ upd' = [upd EXCEPT ![u] =
             [pc |-> "chosen", options |-> upd[u].options, list |-> published,
              chosen |-> chosen]]
  /\ UNCHANGED <<published, program, staged, windows, outdated, updates>>

\* The report without an installation: --check, or no newer release.
UpToDate(u) ==
  /\ upd[u].pc = "started"
  /\ LET chosen == Chosen(published, upd[u].options)
     IN /\ chosen # NoRelease
        /\ \/ upd[u].options.check
           \/ ~Newer(chosen, upd[u].current) /\ ~upd[u].options.force
        /\ upd' = [upd EXCEPT ![u] =
             [pc |-> "upToDate", options |-> upd[u].options, chosen |-> chosen]]
  /\ UNCHANGED <<published, program, staged, windows, outdated, updates>>

\* An error: the network, no such release, no asset for this machine, no
\* checksum or a wrong one.
UpdateFails(u) ==
  /\ upd[u].pc \in {"started", "chosen", "downloaded"}
  /\ upd' = [upd EXCEPT ![u] = Finished]
  /\ UNCHANGED <<published, program, staged, windows, outdated, updates>>

Download(u) ==
  /\ upd[u].pc = "chosen"
  /\ \E bytes \in {"intact", "damaged"} :
       upd' = [upd EXCEPT ![u] =
         [pc |-> "downloaded", options |-> upd[u].options,
          chosen |-> upd[u].chosen, bytes |-> bytes]]
  /\ UNCHANGED <<published, program, staged, windows, outdated, updates>>

\* Mutant: the digest is compared if there is one.
VerifiedAtBest(u) == upd[u].chosen.sums => upd[u].bytes = "intact"

\* SHA256SUMS arrives: without an entry for the asset nothing is installed.
Verified(u) == upd[u].chosen.sums /\ upd[u].bytes = "intact"

\* installBytes: the temporary file is opened.
InstallBegins(u) ==
  /\ upd[u].pc = "downloaded"
  /\ Verified(u)
  /\ ~windows
  /\ upd' = [upd EXCEPT ![u].pc = "writing"]
  /\ UNCHANGED <<published, program, staged, windows, outdated, updates>>

TempWritten(u) ==
  /\ upd[u].pc = "writing"
  /\ upd' = [upd EXCEPT ![u].pc = "ready"]
  /\ UNCHANGED <<published, program, staged, windows, outdated, updates>>

Installed(u) ==
  /\ upd[u].pc = "ready"
  /\ program' = [version |-> upd[u].chosen.version, bytes |-> upd[u].bytes]
  /\ outdated' = [v \in Updaters |-> v # u \/ outdated[v]]
  /\ upd' = [upd EXCEPT ![u] = Finished]
  /\ UNCHANGED <<published, staged, windows, updates>>

\* installBytes on Windows: the new program is staged and the command fails.
Staged(u) ==
  /\ upd[u].pc = "downloaded"
  /\ Verified(u)
  /\ windows
  /\ staged' = TRUE
  /\ upd' = [upd EXCEPT ![u] = Finished]
  /\ UNCHANGED <<published, program, windows, outdated, updates>>

\* An error of the file system, or the process is killed.
Interrupted(u) ==
  /\ upd[u].pc \in {"writing", "ready"}
  /\ upd' = [upd EXCEPT ![u] = Finished]
  /\ UNCHANGED <<published, program, staged, windows, outdated, updates>>

UpdateInit ==
  /\ published = <<>>
  /\ program = [version |-> Original, bytes |-> "intact"]
  /\ staged = FALSE
  /\ windows \in BOOLEAN
  /\ upd = [u \in Updaters |-> Finished]
  /\ outdated = [u \in Updaters |-> FALSE]
  /\ updates = 0

UpdateStep(u) ==
  \/ \E options \in Options : StartUpdate(u, options)
  \/ ListReleases(u) \/ UpToDate(u) \/ Download(u) \/ UpdateFails(u)
  \/ InstallBegins(u) \/ TempWritten(u) \/ Installed(u) \/ Staged(u)
  \/ Interrupted(u)

UpdateNext ==
  \/ \E r \in Releases : Publish(r)
  \/ \E u \in Updaters : UpdateStep(u)

UpdateSpec == UpdateInit /\ [][UpdateNext]_uvars

-----------------------------------------------------------------------------
(* Properties.                                                              *)

\* Every variable has its type.
UpdateTypeOK ==
  /\ Range(published) \subseteq Releases
  /\ program.bytes \in Bytes
  /\ staged \in BOOLEAN /\ windows \in BOOLEAN
  /\ \A u \in Updaters :
       upd[u].pc \in {"finished", "upToDate", "started", "chosen", "downloaded",
                     "writing", "ready"}
  /\ outdated \in [Updaters -> BOOLEAN]
  /\ updates \in 0 .. MaxUpdates

\* The installed program is whole at every moment, and it is the original or a
\* published release that could be verified, whatever downloads are damaged and
\* wherever an update is interrupted (cli/README.md:398, "an interrupted update
\* cannot leave a half-written executable").
InstalledIsGenuine ==
  /\ program.bytes = "intact"
  /\ \/ program.version = Original
     \/ \E r \in Range(published) : r.version = program.version /\ r.asset /\ r.sums
  /\ windows => program.version = Original

\* An update without --force replaces the program by a newer one, unless another
\* update replaced the program after this one had started (update.ts:305-318).
OnlyNewer ==
  [][\A u \in Updaters :
       Installed(u) /\ ~outdated[u] /\ ~upd[u].options.force =>
         CompareVersions(program'.version, program.version) > 0]_uvars

\* Without --release-version the release that is chosen is the highest of those
\* listed, prereleases aside while there is another (update.ts:107, "Highest
\* version among releases, ignoring prereleases unless nothing else exists").
LatestChosen ==
  \A u \in Updaters :
    upd[u].pc = "chosen" /\ upd[u].options.named = NoRelease =>
      /\ upd[u].chosen \in Range(upd[u].list)
      /\ \A r \in Range(upd[u].list) :
           /\ upd[u].chosen.prerelease => r.prerelease
           /\ r.prerelease = upd[u].chosen.prerelease =>
                CompareVersions(r.version, upd[u].chosen.version) <= 0
=============================================================================
