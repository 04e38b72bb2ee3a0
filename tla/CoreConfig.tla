------------------------------ MODULE CoreConfig ------------------------------
(***************************************************************************)
(* The core's configuration: easywall.toml, the running copy, and the      *)
(* environment laid over the file at a start.  Pages save one section and  *)
(* thereby write the whole running copy; an operator edits the file by     *)
(* hand and sends SIGHUP.  A reload reads the file before it takes the     *)
(* lock a save holds.  A setting is a small number, 0 one that a start     *)
(* puts right and -1 one it refuses; a path is the built-in "default" or   *)
(* another.                                                                *)
(***************************************************************************)
EXTENDS Integers, FiniteSets

CONSTANTS
  ConfigBounds,  \* bounds of the runs: edits, saves, reloads, boots, failing saves
  EnvPath        \* the path the environment may name

ASSUME CoreConfigAssumption ==
  /\ ConfigBounds \subseteq [edits : Nat, saves : Nat, reloads : Nat, boots : Nat, fails : Nat]
  /\ EnvPath \notin {"default", "own"}

VARIABLES
  env,        \* whether the variable is set for this process
  cfile,      \* easywall.toml
  running,    \* Config.CoreConfig
  fileConfig, \* the paths and [packet_log] as the file had them
  fresh,      \* a reload between LoadConfig and the lock, or no one
  budget,
  behind      \* history: the keys where the file is ahead of what the core has of it:
              \* edited and not reloaded, corrected at a start, or not saved

configVars == <<env, cfile, running, fileConfig, fresh, budget, behind>>

Section == {"firewall", "acceptance", "usage", "network"}  \* [ipv6], [docker] and [routing] are one here
PageSection == Section \ {"usage"}                          \* no page saves [usage]
Keys == Section \cup {"path", "packet_log"}
Refusable == {"network", "packet_log"}
Values(k) == CASE k = "path" -> {"default", "own"} [] k \in Refusable -> -1..2 [] OTHER -> 0..2
NoReload == [on |-> FALSE]
Pay(what) == budget[what] > 0 /\ budget' = [budget EXCEPT ![what] = @ - 1]

\* applyEnv: the variable fills in a path the file leaves at the default.
Overlay(file, isSet) ==
  IF isSet /\ file["path"] = "default" THEN [file EXCEPT !["path"] = EnvPath] ELSE file

\* LoadConfig and Validate: a limit, a duration, an interval or a number of entries
\* out of range is put right and an empty mode filled in; another mode, a network
\* that does not parse or an impossible nflog group refuses the file.
Loadable(file) == \A k \in Refusable : file[k] # -1
Wrong(file) == {k \in Keys \ {"path"} : file[k] = 0}
Corrected(file) == [k \in Keys |-> IF k \in Wrong(file) THEN 1 ELSE file[k]]

\* A start of the process from the file.
Started(file, isSet) ==
  /\ running' = Corrected(Overlay(file, isSet))
  /\ fileConfig' = [k \in {"path", "packet_log"} |-> file[k]]
  /\ fresh' = NoReload /\ behind' = Wrong(file) \cap Section

ConfigInit ==
  /\ env \in BOOLEAN /\ budget \in ConfigBounds
  /\ cfile = [k \in Keys |-> IF k = "path" THEN "default" ELSE 1]
  /\ running = Corrected(Overlay(cfile, env))
  /\ fileConfig = [k \in {"path", "packet_log"} |-> cfile[k]]
  /\ fresh = NoReload /\ behind = {}

Boot ==
  /\ Pay("boots") /\ Loadable(cfile) /\ env' \in BOOLEAN /\ Started(cfile, env')
  /\ UNCHANGED cfile

\* A reload under way has not seen these changes.
Missed(ks) == fresh' = (IF fresh.on THEN [fresh EXCEPT !.missed = @ \cup ks] ELSE fresh)

\* An operator's editor.
EditConfig(k, v) ==
  /\ Pay("edits") /\ cfile[k] # v /\ cfile' = [cfile EXCEPT ![k] = v]
  /\ behind' = behind \cup {k} /\ Missed({k})
  /\ UNCHANGED <<env, running, fileConfig>>

\* Reload, first half: LoadConfig and Validate; a refused file changes nothing.
ReloadReads ==
  /\ ~fresh.on /\ Pay("reloads") /\ Loadable(cfile)
  /\ fresh' = [on |-> TRUE, file |-> cfile, missed |-> {}]
  /\ UNCHANGED <<env, cfile, running, fileConfig, behind>>

\* Reload keeps the file's [packet_log] for the next save, not its paths: an edit
\* of a path is undone by the next save, whether or not a reload has seen it.
ReloadRecord(file) == fileConfig' = [fileConfig EXCEPT !["packet_log"] = file["packet_log"]]

\* Faulty: a section added later is not adopted.
BugAdopted(file) ==
  [running EXCEPT !["firewall"] = Corrected(file)["firewall"], !["acceptance"] = Corrected(file)["acceptance"]]

\* Every section is the file's.
Adopted(file) == [k \in Keys |-> IF k \in Section THEN Corrected(file)[k] ELSE running[k]]

\* Reload, second half: the sections are adopted, paths and [packet_log] are not.
ReloadAdopts ==
  /\ fresh.on
  /\ running' = Adopted(fresh.file)
  /\ ReloadRecord(fresh.file)
  /\ behind' = fresh.missed \cup (Wrong(fresh.file) \cap Section)
  /\ fresh' = NoReload
  /\ UNCHANGED <<env, cfile, budget>>

\* saveLocked writes the running sections with the file's own paths.
Snapshot(r) ==
  [r EXCEPT !["path"] = fileConfig["path"], !["packet_log"] = fileConfig["packet_log"]]

\* SaveFirewallOptions, SaveSystemSettings and SaveNetworkSettings: the section
\* is taken over first, and stays so when the write fails.
SaveSection(s, v, ok) ==
  /\ v # 0 /\ running' = [running EXCEPT ![s] = v]
  /\ IF ok
     THEN /\ Pay("saves") /\ cfile' = Snapshot(running')
          /\ behind' = {} /\ Missed(Keys)
     ELSE Pay("fails") /\ behind' = behind \cup {s} /\ Missed({s}) /\ UNCHANGED cfile
  /\ UNCHANGED <<env, fileConfig>>

ConfigNext ==
  \/ Boot \/ ReloadReads \/ ReloadAdopts
  \/ \E k \in Keys : \E v \in Values(k) : EditConfig(k, v)
  \/ \E s \in PageSection, v \in 1..2, ok \in BOOLEAN : SaveSection(s, v, ok)

ConfigSpec == ConfigInit /\ [][ConfigNext]_configVars

-----------------------------------------------------------------------------
\* EnvStaysOut: no save, in any order with reloads, failing writes and restarts,
\* writes a path of the environment into the file (saveLocked).
EnvStaysOut == cfile["path"] # EnvPath

\* NextStartAgrees: a setting the core runs with and the one the file holds are
\* the same, but for an edit that was not reloaded, a value a start corrected, a
\* save that failed, or a save between the two halves of a reload.
NextStartAgrees == \A s \in Section : running[s] # cfile[s] => s \in behind

SaveKeeps(k) == k \notin behind /\ budget'.saves # budget.saves => cfile'[k] = cfile[k]

\* LogEditKept: an edit of [packet_log] that a reload has seen is still in the
\* file after any save of a page (Reload records it for saveLocked).
LogEditKept == [][SaveKeeps("packet_log")]_configVars
=============================================================================
