------------------------------- MODULE WebConfig -------------------------------
(***************************************************************************)
(* web.toml and the web process's copy of it.  The interface maintains a   *)
(* few keys of a file an operator writes by hand: a save edits those lines *)
(* in place and keeps the rest, and rebuilds the file from the loaded      *)
(* configuration when the edit would not read back.  The environment is    *)
(* laid over the file at a start and is to stay out of it.                 *)
(*                                                                         *)
(* A file is its lines: an assignment, a comment "#", the table header     *)
(* "[tls]", or "more", the second line of a value that was left open.      *)
(* Four keys stand for the twelve managed ones: the generated key, a       *)
(* credential, the optional answer on telemetry, a notification setting.   *)
(***************************************************************************)
EXTENDS Integers, Sequences, SequencesExt, FiniteSets, FiniteSetsExt

CONSTANTS
  WebFiles,   \* the files an operator's editor leaves
  WebBounds   \* bounds of the runs: edits, saves, fails, boots

VARIABLES
  wfile,      \* web.toml
  live,       \* Config.WebConfig
  stored,     \* Config.fileConfig: the file before the environment
  webEnv,     \* the variables this process was started with
  webUp,
  inPlace,    \* the directory is not writable: the file itself is rewritten
  answer,     \* history: the answer on telemetry last read from the file or saved
  edited,     \* history: the file was edited or torn since the process last had it
  webLeft

webConfigVars == <<wfile, live, stored, webEnv, webUp, inPlace, answer, edited, webLeft>>

managedKeys == <<"session_key", "password", "telemetry", "notify_url">>
Managed == Range(managedKeys)
WebKeys == Managed \cup {"bind_addr"}
Line(k, v) == [key |-> k, val |-> v, open |-> FALSE]
Charge(what) == webLeft[what] > 0 /\ webLeft' = [webLeft EXCEPT ![what] = @ - 1]

\* The TOML decoder: the lines above the first header are the top level, a key
\* said twice or a line outside any value is an error, an absent key is empty.
Header(f) == Min({i \in DOMAIN f : f[i].key = "[tls]"} \cup {Len(f) + 1})
Stating(f, k) == {i \in 1..(Header(f) - 1) : f[i].key = k}
Parses(f) ==
  /\ \A k \in WebKeys : Cardinality(Stating(f, k)) <= 1
  /\ \A i \in 1..(Len(f) + 1) :
       (i \in DOMAIN f /\ f[i].key = "more") <=> (i > 1 /\ f[i - 1].open)
Value(f, k) == IF Stating(f, k) = {} THEN "" ELSE f[Max(Stating(f, k))].val
Decoded(f) == [k \in WebKeys |-> Value(f, k)]

\* applyEnv: a variable fills in what the file leaves unset.
WebOverlay(c, e) == [k \in WebKeys |-> IF k \in DOMAIN e /\ c[k] = "" THEN e[k] ELSE c[k]]

\* mergeConfig reads assignments above the first header only.
Above(f) == 1..(Header(f) - 1)

\* tomlValue: an answer nobody gave is no line.
removeLine(k, want) == k = "telemetry" /\ want[k] = ""

\* The lines of mergeConfig: managed values rewritten, removed or, when the file
\* does not state them, added after the last top-level line.
Merged(f, want) ==
  LET rewritten == [i \in DOMAIN f |->
        IF i \in Above(f) /\ f[i].key \in Managed THEN Line(f[i].key, want[f[i].key]) ELSE f[i]]
      lastTopLevel == Max({i \in Above(f) : f[i].key # "#"} \cup {0})
      missing == SelectSeq(managedKeys, LAMBDA k :
        ~removeLine(k, want) /\ \A i \in Above(f) : f[i].key # k)
      kept == SelectSeq(SubSeq(rewritten, 1, lastTopLevel),
        LAMBDA l : l.key \notin Managed \/ ~removeLine(l.key, want))
  IN  [ok |-> missing = <<>> \/ lastTopLevel > 0,
       lines |-> kept \o [i \in DOMAIN missing |-> Line(missing[i], want[missing[i]])]
                      \o SubSeq(rewritten, lastTopLevel + 1, Len(f))]

\* A key said twice is not merged.
SaidTwice(f) == \E i, j \in Above(f) : i < j /\ f[i].key = f[j].key /\ f[i].key \in Managed

\* sameManagedValues: the merged text is decoded and compared.
ReadsBack(f, want) == Parses(f) /\ \A k \in Managed : Value(f, k) = want[k]

mergeable(f, want) ==
  /\ f # <<>> /\ ~SaidTwice(f)
  /\ Merged(f, want).ok /\ ReadsBack(Merged(f, want).lines, want)

\* encode: the loaded file with the live values of every managed key but the
\* answer; no comment of the old file is left.
encode(l, s) ==
  LET out == [k \in WebKeys |-> IF k \in Managed \ {"telemetry"} THEN l[k] ELSE s[k]]
      keys == SelectSeq(<<"bind_addr">> \o managedKeys, LAMBDA k : ~removeLine(k, out))
  IN  <<Line("#", "")>> \o [i \in DOMAIN keys |-> Line(keys[i], out[keys[i]])]
        \o <<Line("[tls]", "")>>

\* The answer is the file's, not the environment's.
mergeSource(l, s) == [l EXCEPT !["telemetry"] = s["telemetry"]]

render(f, l, s) ==
  IF mergeable(f, mergeSource(l, s)) THEN Merged(f, mergeSource(l, s)).lines ELSE encode(l, s)

\* saveLocked's write: whole by a rename; in place it can stop part-way.
Outcomes == {"done", "failed"} \cup (IF inPlace THEN {"torn", "killed"} ELSE {})
Part(data) == \E n \in 0..(Len(data) - 1) : wfile' = SubSeq(data, 1, n)
Written(data, how) ==
  CASE how = "done" -> wfile' = data
    [] how = "failed" -> UNCHANGED wfile
    [] OTHER -> Part(data)

\* Faulty: a save that failed stays in force.
BugKeptAfter(how, new, old) == new

\* Every Save puts memory back when the write fails.
KeptAfter(how, new, old) == IF how = "done" THEN new ELSE old

\* The end of every Save: render, write, and memory as the write went.
saveLocked(l, s, a) ==
  /\ webUp
  /\ \E how \in Outcomes :
       /\ IF how = "done" THEN Charge("saves") ELSE Charge("fails")
       /\ Written(render(wfile, l, s), how)
       /\ live' = KeptAfter(how, l, live)
       /\ stored' = KeptAfter(how, s, stored)
       /\ answer' = IF how = "done" THEN a ELSE answer
       /\ edited' = (how # "done" /\ (edited \/ how # "failed"))
       /\ webUp' = (how # "killed")
  /\ UNCHANGED <<webEnv, inPlace>>

SaveCredentials(v) == saveLocked([live EXCEPT !["password"] = v], stored, answer)

SaveNotifications(v) ==
  saveLocked([live EXCEPT !["notify_url"] = v], [stored EXCEPT !["notify_url"] = v], answer)

SaveTelemetry(v) ==
  saveLocked([live EXCEPT !["telemetry"] = v], [stored EXCEPT !["telemetry"] = v], v)

\* The variable answers again once the stored answer is gone.
ResetTelemetry ==
  saveLocked([live EXCEPT !["telemetry"] = webEnv["telemetry"]], [stored EXCEPT !["telemetry"] = ""], "")

\* LoadConfig, then ensureSessionKey: a key that is missing or the shipped
\* placeholder is generated and saved, and a start that cannot save it fails.
ensureSessionKey(c) ==
  IF c["session_key"] \in {"", "CHANGE_ME"} THEN [c EXCEPT !["session_key"] = "made"] ELSE c

StartServer(e) ==
  /\ ~webUp /\ Charge("boots") /\ Parses(wfile)
  /\ LET loaded == WebOverlay(Decoded(wfile), e)
     IN  /\ live' = ensureSessionKey(loaded) /\ stored' = Decoded(wfile)
         /\ \E how \in (IF live' = loaded THEN {"unasked"} ELSE Outcomes) :
              /\ webUp' = (how \in {"unasked", "done"})
              /\ IF how = "unasked" THEN UNCHANGED wfile
                                   ELSE Written(render(wfile, live', stored'), how)
  /\ webEnv' = e /\ edited' = ~webUp'
  /\ answer' = Value(wfile, "telemetry")
  /\ UNCHANGED inPlace

StopServer ==
  /\ webUp /\ webUp' = FALSE
  /\ UNCHANGED <<wfile, live, stored, webEnv, inPlace, answer, edited, webLeft>>

Editor(f) ==
  /\ Charge("edits") /\ wfile # f /\ wfile' = f /\ edited' = TRUE
  /\ UNCHANGED <<live, stored, webEnv, webUp, inPlace, answer>>

Envs == {[telemetry |-> t, bind_addr |-> b] : t \in {"", "yes"}, b \in {"", "env"}}

WebConfigInit ==
  /\ wfile \in WebFiles /\ webEnv \in Envs /\ inPlace \in BOOLEAN /\ webLeft \in WebBounds
  /\ webUp = FALSE /\ edited = TRUE /\ answer = ""
  /\ live = [k \in WebKeys |-> ""] /\ stored = [k \in WebKeys |-> ""]

Saves ==
  \/ SaveCredentials("new") \/ SaveNotifications("hook") \/ ResetTelemetry
  \/ \E v \in {"yes", "no"} : SaveTelemetry(v)

WebConfigNext ==
  \/ \E e \in Envs : StartServer(e)
  \/ StopServer \/ Saves
  \/ \E f \in WebFiles : Editor(f)

WebConfigSpec == WebConfigInit /\ [][WebConfigNext]_webConfigVars

\* What the next start under the same environment reads from a file the process
\* wrote, through a merge or a rebuild, after a save that failed and left the file
\* as it was too, is what is in force now; a write in place that was cut short is
\* set aside with the edits by hand (edited); and the stored answer on telemetry is one an operator gave, never
\* the environment's (saveLocked, mergeConfig's final decode, mergeSource, the
\* Save functions' rollbacks).
SaveReadsBack ==
  /\ webUp /\ ~edited =>
       /\ Parses(wfile)
       /\ \A k \in Managed : WebOverlay(Decoded(wfile), webEnv)[k] = live[k]
  /\ ~edited => Value(wfile, "telemetry") = answer
================================================================================
