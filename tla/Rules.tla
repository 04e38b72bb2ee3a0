------------------------------- MODULE Rules -------------------------------
(***************************************************************************)
(* The rules file (core.RulesStore): the current, the staged and the       *)
(* backup set, the operations of the daemon that rewrite them under one    *)
(* lock, the rule ids the usage counters are keyed by                      *)
(* (shared.EnsureRuleIDs), and the preview of what an apply would change   *)
(* (shared.DiffRules).                                                     *)
(*                                                                         *)
(* A set is a record of lists.  A port rule is [id, port, sources, ssh,    *)
(* scope, desc]: ids are numbers, 0 for none and -1 for a malformed one;   *)
(* desc is a sequence of words.  A fresh id is one never used before: 2^48 *)
(* random values are taken not to collide.                                 *)
(***************************************************************************)
EXTENDS Integers, FiniteSets, Sequences, SequencesExt

CONSTANTS
    Tab,            \* browser tabs
    Bodies,         \* port rules, without the id, the ports page may submit
    Forms,          \* the other lists a page may submit: a function on OtherLists
    Foreign,        \* sets an import may bring from another host
    RuleBounds      \* a bound: how many saves, imports, edits by hand, stops

PortLists == {"tcp", "udp"}
OtherLists == {"blocklist", "allowlist", "feeds", "forwarding", "custom"}
RuleType == PortLists \cup OtherLists

ASSUME FormsAssumption == DOMAIN Forms = OtherLists

VARIABLES
    store,      \* rules.json
    up,         \* whether the daemon runs
    forms,      \* the type of the page each tab has open, and the set it was made from
    exported,   \* the file of the last export
    nextID,     \* the ids below it are taken
    remaining,  \* what is left of RuleBounds
    answered    \* history: for every type the list last answered "saved", without ids

rulesVars == <<store, up, forms, exported, nextID, remaining, answered>>

EmptySet == [t \in RuleType |-> <<>>]
NoForm == [type |-> "none", set |-> EmptySet]

-----------------------------------------------------------------------------
(* Rule ids and validation. *)

ValidRuleID(id) == id > 0

\* Mutant: each protocol is walked on its own.
BugEnsurePerProtocol(set, next) ==
    LET Needs(l, i) == ~ValidRuleID(l[i].id) \/ \E j \in 1..i-1 : l[j].id = l[i].id
        Fixed(l, n) == [i \in DOMAIN l |-> IF Needs(l, i)
                          THEN [l[i] EXCEPT !.id = n + Cardinality({j \in 1..i-1 : Needs(l, j)})] ELSE l[i]]
        tcp == Fixed(set.tcp, next)
    IN  [set EXCEPT !.tcp = tcp, !.udp = Fixed(set.udp, next + Len(set.tcp))]

\* TCP and UDP are one walk: an id is kept by the first rule that has it; a
\* missing, malformed or repeated one is replaced by a fresh one.
EnsureRuleIDs(set, next) ==
    LET all      == set.tcp \o set.udp
        Needs(i) == ~ValidRuleID(all[i].id) \/ \E j \in 1..i-1 : all[j].id = all[i].id
        Fixed(i) == IF Needs(i)
                    THEN [all[i] EXCEPT !.id = next + Cardinality({j \in 1..i-1 : Needs(j)})]
                    ELSE all[i]
    IN  [set EXCEPT !.tcp = [i \in DOMAIN set.tcp |-> Fixed(i)],
                    !.udp = [i \in DOMAIN set.udp |-> Fixed(Len(set.tcp) + i)]]

\* The ids EnsureRuleIDs may have handed out.
AfterIDs(set, next) == next + Len(set.tcp) + Len(set.udp)

IDs(set) == [i \in 1..(Len(set.tcp) + Len(set.udp)) |-> (set.tcp \o set.udp)[i].id]
Bodied(l) == [i \in DOMAIN l |-> [l[i] EXCEPT !.id = 0]]

\* A "bad" port or entry is what the parsers of a port or a network refuse.
IsListComment(e) == e = "#"
ValidPortRule(r) == r.port # "bad" /\ "bad" \notin ToSet(r.sources)
ValidateRules(set) ==
    /\ \A r \in ToSet(set.tcp \o set.udp) : ValidPortRule(r) /\ r.id >= 0
    /\ \A i, j \in DOMAIN IDs(set) : i # j /\ IDs(set)[i] # 0 => IDs(set)[i] # IDs(set)[j]
    /\ \A t \in OtherLists \ {"forwarding"} : "bad" \notin ToSet(set[t])
    /\ \A i, j \in DOMAIN set.feeds : i # j => set.feeds[i] # set.feeds[j]
    /\ \A f \in ToSet(set.forwarding) : f.dest # "bad"

-----------------------------------------------------------------------------
(* The preview. *)

\* The entries of a list, comments left out.
Entries(l) == SelectSeq(l, LAMBDA e : ~IsListComment(e))

Marks(r) == (IF r.ssh THEN <<"(ssh)">> ELSE <<>>)
            \o (IF r.scope \in {"forwarded", "both"} THEN <<r.scope>> ELSE <<>>)
\* Mutant: who may reach the port is no part of it.
BugPortDetail(r) == r.desc \o Marks(r)

PortDetail(r) ==
    r.desc \o Marks(r) \o (IF Entries(r.sources) = <<>> THEN <<>> ELSE <<"from">> \o Entries(r.sources))

\* The details of a port's rules, joined.
IndexPorts(l) ==
    [p \in {r.port : r \in ToSet(l)} |->
        LET same == SelectSeq(l, LAMBDA r : r.port = p)
        IN  [i \in DOMAIN same |-> PortDetail(same[i])]]

Row(kind, keys) == [kind: {kind}, key: keys]
\* Rows for two functions from keys to what is shown beside them.
DiffIndex(cur, next) ==
    Row("added", DOMAIN next \ DOMAIN cur)
    \cup Row("changed", {k \in DOMAIN next \cap DOMAIN cur : cur[k] # next[k]})
    \cup Row("removed", DOMAIN cur \ DOMAIN next)

DiffList(cur, next) ==
    Row("added", ToSet(Entries(next)) \ ToSet(Entries(cur)))
    \cup Row("removed", ToSet(Entries(cur)) \ ToSet(Entries(next)))

\* The first entry of a source port and protocol counts.
IndexForwards(l) ==
    [k \in {f.key : f \in ToSet(l)} |-> SelectSeq(l, LAMBDA f : f.key = k)[1].dest]

DiffPorts(cur, next) == DiffIndex(IndexPorts(cur), IndexPorts(next))
DiffForwarding(cur, next) == DiffIndex(IndexForwards(cur), IndexForwards(next))
\* A custom line is known by its place.
DiffCustom(cur, next) == DiffIndex(Entries(cur), Entries(next))

\* The rows of the preview, list by list.
DiffRules(cur, next) ==
    [t \in RuleType |->
        CASE t \in PortLists    -> DiffPorts(cur[t], next[t])
          [] t = "forwarding"   -> DiffForwarding(cur[t], next[t])
          [] t = "custom"       -> DiffCustom(cur[t], next[t])
          [] OTHER              -> DiffList(cur[t], next[t])]

HasPendingChanges(s) == \E t \in RuleType : DiffRules(s.current, s.staged)[t] # {}

-----------------------------------------------------------------------------
(* What the kernel is given for a set: the accepts of its port rules in    *)
(* the chains of their scope, the ports the SSH chain meters, the lists,   *)
(* the redirects, of which the first for a port takes effect, and the      *)
(* custom lines in their order.                                            *)

Chains(r) == {c \in {"input", "forward"} : r.scope \in (IF c = "input" THEN {"", "host", "both"}
                                                        ELSE {"forwarded", "both"})}
PortAcceptRules(r) == IF r.sources = <<>> THEN {"any"} ELSE ToSet(Entries(r.sources))
MeteredPorts(set) == {r.port : r \in {q \in ToSet(set.tcp) : q.ssh /\ "input" \in Chains(q)}}

Rendered(set) ==
    [accepts   |-> UNION {UNION {{t} \X {r.port} \X PortAcceptRules(r) \X Chains(r) : r \in ToSet(set[t])} :
                           t \in PortLists},
     metered   |-> MeteredPorts(set),
     lists     |-> [t \in {"blocklist", "allowlist", "feeds"} |-> ToSet(Entries(set[t]))],
     redirects |-> IndexForwards(set.forwarding),
     custom    |-> Entries(set.custom)]

-----------------------------------------------------------------------------
(* The operations.  Each one reads the file, changes it and writes it back *)
(* under one lock; the write goes through a temporary file and a rename,   *)
(* so that one that fails leaves the file as it was.                       *)

Within(what) == remaining[what] > 0 /\ remaining' = [remaining EXCEPT ![what] = @ - 1]

\* save, after which the caller is told so; or the write fails.
SaveFile(new, told) ==
    \/ store' = new /\ answered' = told
    \/ UNCHANGED <<store, answered>>

Plain(t, list) == IF t \in PortLists THEN Bodied(list) ELSE list

\* A page that could not be submitted any more is not opened: a bound.
OpenForm(tab, t) ==
    /\ up /\ remaining.saves > 0
    /\ forms' = [forms EXCEPT ![tab] = [type |-> t, set |-> store.staged]]
    /\ UNCHANGED <<store, up, exported, nextID, remaining, answered>>

\* What a page makes of the list it loaded: a row more, one less, one changed
\* under the id it was loaded with; or, for the other lists, any text.
Edited(t, list) ==
    IF t \in OtherLists THEN Forms[t]
    ELSE {Append(list, b) : b \in Bodies}
         \cup {RemoveAt(list, i) : i \in DOMAIN list}
         \cup {ReplaceAt(list, ib[1], [ib[2] EXCEPT !.id = list[ib[1]].id]) : ib \in (DOMAIN list) \X Bodies}

\* Mutant: the list goes into the set the page was opened on.
BugSaveStaged(opened, t, list) == [opened EXCEPT ![t] = list]

\* The staged set with one list replaced; opened is the set the page showed.
SaveStaged(opened, t, list) == [store.staged EXCEPT ![t] = list]

\* A page is submitted (handlePortsPOST and its siblings, then SAVE_RULES).
SubmitForm(tab, list) ==
    LET t   == forms[tab].type
        new == EnsureRuleIDs(SaveStaged(forms[tab].set, t, list), nextID)
    IN  /\ up /\ Within("saves")
        /\ IF ValidateRules(new)
           THEN /\ SaveFile([store EXCEPT !.staged = new], [answered EXCEPT ![t] = Plain(t, list)])
                /\ nextID' = AfterIDs(new, nextID)
           ELSE UNCHANGED <<store, answered, nextID>>
        /\ forms' = [forms EXCEPT ![tab] = NoForm]
        /\ UNCHANGED <<up, exported>>

ExportStaged == store.staged

\* As with the pages: no export that could not be imported any more.
Export ==
    /\ up /\ remaining.imports > 0
    /\ exported' = ExportStaged
    /\ UNCHANGED <<store, up, forms, nextID, remaining, answered>>

\* Duplicate and missing ids are mended before the set is validated.
ImportRules(set) ==
    LET new == EnsureRuleIDs(set, nextID)
    IN  /\ up /\ Within("imports")
        /\ IF ValidateRules(new)
           THEN /\ SaveFile([store EXCEPT !.staged = new], [t \in RuleType |-> Plain(t, set[t])])
                /\ nextID' = AfterIDs(new, nextID)
           ELSE UNCHANGED <<store, answered, nextID>>
        /\ UNCHANGED <<up, forms, exported>>

\* The three writes of an apply and of its end.
Rewrite(new) ==
    /\ up
    /\ SaveFile(new, answered)
    /\ UNCHANGED <<up, forms, exported, nextID, remaining>>

BackupCurrent == Rewrite([store EXCEPT !.backup = store.current])
PromoteStaged == Rewrite([store EXCEPT !.current = store.staged])
Rollback == Rewrite([store EXCEPT !.current = store.backup])

\* The daemon stops, and an editor may be opened on the file: a rule is
\* copied to the other list with its id, or an id is deleted or misspelt.
Stop == up /\ Within("boots") /\ up' = FALSE /\ UNCHANGED <<store, forms, exported, nextID, answered>>

EditRules(which, list) ==
    /\ ~up /\ Within("edits")
    /\ store' = [store EXCEPT ![which] = [@ EXCEPT !.udp = list]]
    /\ answered' = IF which = "staged" THEN [answered EXCEPT !.udp = Bodied(list)] ELSE answered
    /\ UNCHANGED <<up, forms, exported, nextID>>
RuleEdits(set) ==
    {Append(set.udp, r) : r \in ToSet(set.tcp)}
    \cup {[i \in DOMAIN set.udp |-> [set.udp[i] EXCEPT !.id = x]] : x \in {0, -1}}

\* backfillIDs: the three sets, each on its own.
Backfilled(s, next) ==
    [current |-> EnsureRuleIDs(s.current, next),
     staged  |-> EnsureRuleIDs(s.staged, AfterIDs(s.current, next)),
     backup  |-> EnsureRuleIDs(s.backup, AfterIDs(s.staged, AfterIDs(s.current, next)))]

\* A start whose write fails does not come up: it is tried again.
Start ==
    /\ ~up
    /\ store' = Backfilled(store, nextID)
    /\ nextID' = IF store' = store THEN nextID
                 ELSE AfterIDs(store.backup, AfterIDs(store.staged, AfterIDs(store.current, nextID)))
    /\ up' = TRUE
    /\ UNCHANGED <<forms, exported, remaining, answered>>

RulesInit ==
    /\ store = [current |-> EmptySet, staged |-> EmptySet, backup |-> EmptySet]
    /\ up = TRUE
    /\ forms = [tab \in Tab |-> NoForm]
    /\ exported = EmptySet
    /\ nextID = 1
    /\ remaining \in RuleBounds
    /\ answered = EmptySet

RulesNext ==
    \/ \E tab \in Tab, t \in PortLists \cup {x \in OtherLists : Forms[x] # {}} : OpenForm(tab, t)
    \/ \E tab \in {x \in Tab : forms[x] # NoForm} :
          \E list \in Edited(forms[tab].type, forms[tab].set[forms[tab].type]) : SubmitForm(tab, list)
    \/ Export
    \/ \E set \in Foreign : ImportRules(set)
    \/ ImportRules(exported)
    \/ BackupCurrent \/ PromoteStaged \/ Rollback
    \/ Stop
    \/ \E which \in {"current", "staged", "backup"} : \E list \in RuleEdits(store[which]) : EditRules(which, list)
    \/ Start

RulesSpec == RulesInit /\ [][RulesNext]_rulesVars

-----------------------------------------------------------------------------
(* What the file promises. *)

\* While the daemon runs, no two port rules of a set share an id and none is
\* without one, over saves from stale pages, imports, rollbacks and a file
\* edited by hand: the usage counters of two rules are never one history.
IDsNameOneRule ==
    up => \A which \in DOMAIN store : LET ids == IDs(store[which]) IN
            /\ \A i \in DOMAIN ids : ValidRuleID(ids[i])
            /\ \A i, j \in DOMAIN ids : i # j => ids[i] # ids[j]

\* What the interface said was saved is what is staged, list by list, until
\* the same list is saved again: neither another tab's save of another list
\* nor an apply, a rollback or a restart takes it away (RulesStore.mu,
\* SaveStaged, Rollback).
SavesStand == \A t \in RuleType : Plain(t, store.staged[t]) = answered[t]

\* A word of a description that reads like one of the preview's own marks, or
\* a source list of comments alone.
Misread(r) ==
    \/ ToSet(r.desc) \cap {"(ssh)", "forwarded", "both", "from"} # {}
    \/ r.sources # <<>> /\ Entries(r.sources) = <<>>
PlainRules(set) == \A r \in ToSet(set.tcp \o set.udp) : ~Misread(r)

\* An apply that changes what the kernel is given has a row in the preview
\* and is reported as pending (DiffRules, HasPendingChanges), for rules whose
\* details cannot be mistaken for one another.
PreviewSeesChange ==
    PlainRules(store.current) /\ PlainRules(store.staged) /\ ~HasPendingChanges(store) =>
        Rendered(store.current) = Rendered(store.staged)

\* The same for every rule: HasPendingChanges says "exactly when".
PendingIsExact == ~HasPendingChanges(store) => Rendered(store.current) = Rendered(store.staged)
=============================================================================
