-------------------------------- MODULE Feeds --------------------------------
(***************************************************************************)
(* The published lists easywall blocks (feeds).  The web process fetches   *)
(* a list over HTTP, conditionally where it can, and hands it to the core  *)
(* with UPDATE_FEED; the core checks it, loads it into the kernel set of a *)
(* feed that is live and stores it in feeds.json, from which every apply,  *)
(* rollback and restart loads the sets again.  One job per feed is in      *)
(* flight at a time; the operator's switches and edits, apply windows,     *)
(* panics, crashes of either process and failing writes fall between its   *)
(* steps.                                                                  *)
(*                                                                         *)
(* A list is the pair of the address it came from and its version there.   *)
(* Which feed is due when is left open (FeedMath has the arithmetic).      *)
(***************************************************************************)
EXTENDS Naturals, FiniteSets, Functions

CONSTANTS
  Feed,       \* the feeds of the instance
  OwnFeed,    \* those whose address the operator enters
  CountryFeed,\* those exempt from the shrink guard
  SplitFeed,  \* those published as two files
  Url,        \* the addresses lists are published at
  Home,       \* the address of each feed at the start
  Dated,      \* the addresses whose server compares dates alone
  MaxVersion, \* bound: versions published at one address
  Entries,    \* how many entries each list has
  Starts,     \* bounds: how often each feed is switched or edited, versions
              \* are published, applies and panics begin, and things fail
  None

List == Url \X (1..MaxVersion)

ASSUME FeedAssumption ==
  /\ OwnFeed \cup CountryFeed \cup SplitFeed \subseteq Feed
  /\ Home \in [Feed -> Url] /\ Dated \subseteq Url
  /\ MaxVersion \in Nat \ {0} /\ Entries \in [List -> Nat]
  /\ Starts \subseteq [edits : [Feed -> Nat], publishes : Nat, applies : Nat, faults : Nat]
  /\ None \notin List \cup Url /\ {"free", "apply"} \cap Feed = {}

VARIABLES
  remote,   \* what each server publishes
  rules,    \* the feeds switched on in Current, Staged and Backup
  slot,     \* who holds the apply slot: nobody, an apply, or a feed's update
  panic,    \* the panic marker
  kernel,   \* the list in each live feed's set (None: empty), or NoTable
  store,    \* feeds.json: the stored copy of each feed that has one
  watch,    \* Firewall.shrink: refusals in a row, and whether a day passed
  own,      \* the address saved for each own feed, None for an empty slot
  fetch,    \* the web process's fetch state of each feed
  saved,    \* the fetch states and addresses its state file holds
  pending,  \* updates held back until an apply window closes
  asked,    \* switched-on feeds whose first refresh has not started
  job,      \* the refresh in flight for each feed
  left,     \* what is left of the bounds
  history   \* for the properties only

core == <<rules, slot, panic, kernel, store, watch>>
web == <<own, fetch, saved, pending, asked>>
vars == <<remote, core, web, job, left, history>>

NoTable == [none |-> TRUE]
NoWatch == [seen |-> 0, day |-> FALSE]
NoFetch == [failed |-> FALSE, err |-> "", val |-> None]
\* A refresh: where it is, how it was asked for, what coreCopy answered, the
\* validators in hand, whether the server said 304, its list, the copies Put is
\* to keep, and the core's answer.
Idle == [pc |-> "idle", only |-> FALSE, url |-> None, stored |-> FALSE, val |-> None,
         same |-> FALSE, list |-> None, keep |-> {}, answer |-> ""]

Address(id) == IF id \in OwnFeed THEN own[id] ELSE Home[id]
On == rules.current \cup rules.staged
Fault == left.faults > 0 /\ left' = [left EXCEPT !.faults = @ - 1]
Round == left.applies > 0 /\ left' = [left EXCEPT !.applies = @ - 1]

Init ==
  /\ remote = [u \in Url |-> 1]
  /\ rules = [current |-> {}, staged |-> {}, backup |-> {}]
  /\ slot = "free" /\ panic = FALSE
  /\ kernel = [id \in {} |-> None] /\ store = [id \in {} |-> None]
  /\ watch = [id \in Feed |-> NoWatch]
  /\ own = [id \in OwnFeed |-> Home[id]]
  /\ fetch = [id \in Feed |-> NoFetch] /\ saved = [fetch |-> fetch, own |-> own]
  /\ pending = [id \in {} |-> None] /\ asked = {}
  /\ job = [id \in Feed |-> Idle]
  /\ left \in Starts
  /\ history = [crossed |-> {}, unstored |-> {}, small |-> [id \in Feed |-> 0]]

-----------------------------------------------------------------------------
(* The world: publishers, the operator, applies, panics, crashes.          *)

Publish(u) ==
  /\ remote[u] < MaxVersion /\ left.publishes > 0
  /\ remote' = [remote EXCEPT ![u] = @ + 1]
  /\ left' = [left EXCEPT !.publishes = @ - 1]
  /\ UNCHANGED <<core, web, job, history>>

\* A day goes by for every shrink watch that is running.
DayPasses ==
  /\ \E id \in Feed : watch[id].seen > 0 /\ ~watch[id].day
  /\ watch' = [id \in Feed |-> [watch[id] EXCEPT !.day = watch[id].seen > 0]]
  /\ UNCHANGED <<remote, rules, slot, panic, kernel, store, web, job, left, history>>

\* handleFeedsPOST: the switches are saved, then a feed newly on is asked for.
SwitchFeed(id) ==
  /\ left.edits[id] > 0 /\ left' = [left EXCEPT !.edits[id] = @ - 1]
  /\ \/ id \in rules.staged /\ asked' = asked
        /\ rules' = [rules EXCEPT !.staged = @ \ {id}]
     \/ /\ id \notin rules.staged /\ Address(id) # None
        /\ rules' = [rules EXCEPT !.staged = @ \cup {id}]
        /\ asked' = asked \cup {id}
  /\ UNCHANGED <<remote, slot, panic, kernel, store, watch, own, fetch, saved, pending, job,
                 history>>

\* setFetchState and saveOwnFeed write the file; a failed write is only logged.
SaveState ==
  \/ saved' = [fetch |-> fetch', own |-> own'] /\ UNCHANGED left
  \/ Fault /\ UNCHANGED saved

\* Faulty: the validators of the old list stay.
BugKeepValidators(id) ==
  /\ pending' = Restrict(pending, DOMAIN pending \ {id}) /\ UNCHANGED fetch

\* A slot that changes its list forgets the validators and the held update.
ForgetList(id) ==
  /\ fetch' = [fetch EXCEPT ![id] = NoFetch]
  /\ pending' = Restrict(pending, DOMAIN pending \ {id})

\* handleOwnFeedPOST and saveOwnFeed: a slot in use is not emptied.
SaveOwnFeed(id, u) ==
  /\ left.edits[id] > 0 /\ u # own[id] /\ (u = None => id \notin On)
  /\ own' = [own EXCEPT ![id] = u]
  /\ ForgetList(id)
  /\ \E failed \in {0, 1} \cap (0..left.faults) :
       /\ left' = [left EXCEPT !.edits[id] = @ - 1, !.faults = @ - failed]
       /\ saved' = IF failed = 1 THEN saved ELSE [fetch |-> fetch', own |-> own']
       /\ history' = [history EXCEPT !.crossed =
                        IF job[id] = Idle /\ failed = 0 THEN @ ELSE @ \cup {id}]
  /\ UNCHANGED <<remote, core, asked, job>>

\* feedContents: the stored copies of the feeds a ruleset switches on.
FeedContents(ids) == [id \in ids |-> IF id \in DOMAIN store THEN store[id] ELSE None]

Loaded == history' = [history EXCEPT !.unstored = {}]

\* An apply takes the slot for its whole acceptance window.
ApplyStart ==
  /\ slot = "free" /\ ~panic /\ Round
  /\ slot' = "apply"
  /\ rules' = [rules EXCEPT !.current = rules.staged, !.backup = rules.current]
  /\ kernel' = FeedContents(rules.staged) /\ Loaded
  /\ UNCHANGED <<remote, panic, store, watch, web, job>>

\* Accepted, or rolled back; under panic the records go back, the table stays down.
ApplyEnd ==
  /\ slot = "apply" /\ slot' = "free"
  /\ \/ ~panic /\ UNCHANGED <<rules, kernel, history>>
     \/ /\ rules' = [rules EXCEPT !.current = rules.backup]
        /\ IF panic THEN UNCHANGED <<kernel, history>>
           ELSE kernel' = FeedContents(rules.backup) /\ Loaded
  /\ UNCHANGED <<remote, panic, store, watch, web, job, left>>

Panic ==
  /\ ~panic /\ Round
  /\ panic' = TRUE /\ kernel' = NoTable
  /\ UNCHANGED <<remote, rules, slot, store, watch, web, job, history>>

Resume ==
  /\ panic /\ slot = "free" /\ panic' = FALSE
  /\ kernel' = FeedContents(rules.current) /\ Loaded
  /\ UNCHANGED <<remote, rules, slot, store, watch, web, job, left>>

\* The core dies and its next start loads Current again (Backup, after an
\* unconfirmed window); a feeds.json that cannot be parsed counts as empty.
CoreRestart ==
  /\ Fault /\ slot' = "free" /\ watch' = [id \in Feed |-> NoWatch]
  /\ \E kept \in {store, [id \in {} |-> None]} :
       LET now == IF slot = "apply" THEN rules.backup ELSE rules.current IN
         /\ store' = kept
         /\ rules' = [rules EXCEPT !.current = now]
         /\ kernel' = IF panic THEN NoTable
                      ELSE [id \in now |-> IF id \in DOMAIN kept THEN kept[id] ELSE None]
  /\ job' = [id \in Feed |-> IF job[id].pc \in {"kernel", "put"}
                             THEN [job[id] EXCEPT !.pc = "reply", !.answer = "unreachable"]
                             ELSE job[id]]
  /\ Loaded
  /\ UNCHANGED <<remote, panic, web>>

\* The web process dies: what it held in memory is gone.
WebRestart ==
  /\ Fault
  /\ \A id \in Feed : job[id].pc \notin {"kernel", "put"}   \* bound: the core answers first
  /\ fetch' = saved.fetch /\ own' = saved.own /\ pending' = [id \in {} |-> None] /\ asked' = {}
  /\ job' = [id \in Feed |-> Idle]
  /\ UNCHANGED <<remote, core, saved, history>>

-----------------------------------------------------------------------------
(* The web process: one refresh.                                           *)

\* claim, then an update held for the window, else the source (refresh).
Refresh(id, only) ==
  /\ job[id] = Idle
  /\ \/ /\ id \in DOMAIN pending
        /\ job' = [job EXCEPT ![id] = pending[id]]
        /\ pending' = Restrict(pending, DOMAIN pending \ {id})
     \/ /\ id \notin DOMAIN pending /\ UNCHANGED pending
        /\ job' = IF Address(id) = None THEN job
                  ELSE [job EXCEPT ![id] = [Idle EXCEPT !.pc = "copy", !.only = only,
                                                        !.url = Address(id)]]

\* pass: what is held for a feed switched off is dropped, then a due feed refreshed.
Pass(id) ==
  /\ id \in On /\ DOMAIN pending \subseteq On
  /\ Refresh(id, FALSE)
  /\ UNCHANGED <<remote, core, own, fetch, saved, asked, left, history>>

DropSwitchedOff ==
  /\ ~(DOMAIN pending \subseteq On)
  /\ pending' = Restrict(pending, DOMAIN pending \cap On)
  /\ UNCHANGED <<remote, core, own, fetch, saved, asked, job, left, history>>

\* refreshNow, in a goroutine of its own; a refresh in flight makes it nothing.
RefreshNow(id) ==
  /\ id \in asked /\ asked' = asked \ {id}
  /\ \/ Refresh(id, TRUE)
     \/ job[id] # Idle /\ UNCHANGED <<job, pending>>
  /\ UNCHANGED <<remote, core, own, fetch, saved, left, history>>

\* coreCopy: whether the core holds a copy; an error reads as none.
ReadCopy(id) ==
  /\ job[id].pc = "copy"
  /\ \E answered \in BOOLEAN :
       /\ job' = [job EXCEPT ![id].stored = answered /\ id \in DOMAIN store, ![id].pc = "state"]
       /\ IF answered THEN UNCHANGED left ELSE Fault
  /\ UNCHANGED <<remote, core, web, history>>

\* Faulty: the scheduled refresh, too, stops at a copy the core holds.
BugCopyIsEnough(id) ==
  /\ job[id].pc = "state"
  /\ job' = IF job[id].stored THEN [job EXCEPT ![id] = Idle]
            ELSE [job EXCEPT ![id].pc = "fetch", ![id].val = fetch[id].val]
  /\ UNCHANGED <<remote, core, web, left, history>>

\* The fetch state; a switch-on stops here when there is a copy, or inside a
\* running backoff, unless the last version was refused as a shrink.
ReadState(id) ==
  LET st == fetch[id]
      skips == job[id].only /\ st.err # "shrank" IN
  /\ job[id].pc = "state"
  /\ \/ skips /\ (job[id].stored \/ st.failed) /\ job' = [job EXCEPT ![id] = Idle]
     \/ /\ ~(skips /\ job[id].stored)
        /\ job' = [job EXCEPT ![id].pc = "fetch", ![id].val = st.val]
  /\ UNCHANGED <<remote, core, web, left, history>>

\* Only for a copy the core holds, and only for a feed of one file.
Conditional(id) == job[id].stored /\ id \notin SplitFeed /\ job[id].val # None

\* What a server makes of validators from an earlier answer (external).
Matches(u, val) ==
  IF u \in Dated THEN remote[u] <= val[2] ELSE val = <<u, remote[u]>>

\* setFetchState after fail: panic is no failure of the source.
Fail(id, st, reason) ==
  /\ fetch' = [fetch EXCEPT ![id] = [st EXCEPT !.err = reason,
                                               !.failed = @ \/ reason # "panic"]]
  /\ SaveState

\* fetch and parseFeed: 304, a list, or an answer that is none.
Fetch(id) ==
  LET j == job[id]
      list == <<j.url, remote[j.url]>> IN
  /\ j.pc = "fetch"
  /\ \/ /\ Conditional(id) /\ Matches(j.url, j.val)
        /\ job' = [job EXCEPT ![id].pc = "deliver", ![id].same = TRUE, ![id].list = list]
        /\ UNCHANGED <<fetch, saved, left>>
     \/ /\ ~(Conditional(id) /\ Matches(j.url, j.val))
        /\ job' = [job EXCEPT ![id].pc = "deliver", ![id].list = list,
                              ![id].val = IF id \in SplitFeed THEN None ELSE list]
        /\ UNCHANGED <<fetch, saved, left>>
     \/ /\ Fault
        /\ fetch' = [fetch EXCEPT ![id] = [failed |-> TRUE, err |-> "fetch", val |-> j.val]]
        /\ saved' = [fetch |-> fetch', own |-> own]
        /\ job' = [job EXCEPT ![id] = Idle]
  /\ UNCHANGED <<remote, core, own, pending, asked, history>>

-----------------------------------------------------------------------------
(* The core: UPDATE_FEED under the apply slot.                             *)

Answer(id, a) == job' = [job EXCEPT ![id].pc = "reply", ![id].answer = a]

\* feedIDs: the copies feeds.json keeps.
FeedIDs == rules.current \cup rules.staged \cup rules.backup

\* Put: the record set and the others pruned, in one atomic write.
Put(id, list, keep) ==
  store' = [k \in ((DOMAIN store \cap keep) \cup {id}) |-> IF k = id THEN list ELSE store[k]]

Shrinks(before, after) == after * 100 < before * 70

\* Faulty: a confirmed or a full-sized version does not end the run of refusals.
BugWatchRunsOn(id) == UNCHANGED watch

EndWatch(id) == watch' = [watch EXCEPT ![id] = NoWatch]

ShrinkAccepted(w) == w.seen >= 3 /\ w.day

\* UpdateFeed up to its first write.
UpdateFeed(id) ==
  LET j == job[id]
      had == id \in DOMAIN store
      live == id \in rules.current
      shrank == had /\ live /\ id \notin CountryFeed /\ Shrinks(Entries[store[id]], Entries[j.list])
      w == [watch[id] EXCEPT !.seen = IF @ < 3 THEN @ + 1 ELSE 3] IN
  /\ j.pc = "deliver"
  /\ \/ panic /\ Answer(id, "panic") /\ UNCHANGED <<core, left, history>>
     \/ ~panic /\ slot # "free" /\ Answer(id, "busy") /\ UNCHANGED <<core, left, history>>
     \/ Fault /\ (\E a \in {"unreachable", "refused"} : Answer(id, a))
        /\ UNCHANGED <<core, history>>
     \/ /\ ~panic /\ slot = "free" /\ (id \notin On \/ (j.same /\ ~had))
        /\ Answer(id, "refused") /\ UNCHANGED <<core, left, history>>
     \/ /\ ~panic /\ slot = "free" /\ id \in On /\ j.same /\ had
        /\ EndWatch(id) /\ Put(id, store[id], FeedIDs)
        /\ history' = [history EXCEPT !.small[id] = 0]
        /\ Answer(id, "ok") /\ UNCHANGED <<rules, slot, panic, kernel, left>>
     \/ /\ ~panic /\ slot = "free" /\ id \in On /\ ~j.same /\ shrank /\ ~ShrinkAccepted(w)
        /\ watch' = [watch EXCEPT ![id] = w]
        /\ history' = [history EXCEPT !.small[id] = IF @ < 3 THEN @ + 1 ELSE 3]
        /\ Answer(id, "shrank") /\ UNCHANGED <<rules, slot, panic, kernel, store, left>>
     \/ /\ ~panic /\ slot = "free" /\ id \in On /\ ~j.same /\ (shrank => ShrinkAccepted(w))
        /\ slot' = id /\ job' = [job EXCEPT ![id].pc = IF live THEN "kernel" ELSE "put",
                                            ![id].keep = FeedIDs]
        /\ UNCHANGED <<rules, panic, kernel, store, watch, left, history>>
  /\ UNCHANGED <<remote, web>>

\* Faulty: a copy the kernel refused is stored all the same.
BugStoreAnyway(id) ==
  /\ job[id].pc = "kernel"
  /\ \/ Fault /\ UNCHANGED <<kernel, history>>
     \/ /\ ~panic /\ kernel' = [kernel EXCEPT ![id] = job[id].list]
        /\ history' = [history EXCEPT !.unstored = @ \cup {id}] /\ UNCHANGED left
  /\ job' = [job EXCEPT ![id].pc = "put"]
  /\ UNCHANGED <<remote, rules, slot, panic, store, watch, web>>

\* ReplaceFeedSet: one batch, refused when a panic took the table away.
ReplaceFeedSet(id) ==
  /\ job[id].pc = "kernel"
  /\ \/ /\ panic /\ Answer(id, "panic") /\ slot' = "free" /\ UNCHANGED <<kernel, left, history>>
     \/ /\ ~panic /\ Fault /\ Answer(id, "refused") /\ slot' = "free"
        /\ UNCHANGED <<kernel, history>>
     \/ /\ ~panic /\ kernel' = [kernel EXCEPT ![id] = job[id].list]
        /\ job' = [job EXCEPT ![id].pc = "put"]
        /\ history' = [history EXCEPT !.unstored = @ \cup {id}]
        /\ UNCHANGED <<slot, left>>
  /\ UNCHANGED <<remote, rules, panic, store, watch, web>>

\* The file after the kernel; only a stored copy ends the shrink watch.
StoreFeed(id) ==
  /\ job[id].pc = "put" /\ slot' = "free"
  /\ \/ /\ Put(id, job[id].list, job[id].keep) /\ EndWatch(id) /\ Answer(id, "ok")
        /\ history' = [history EXCEPT !.unstored = @ \ {id}, !.small[id] = 0]
        /\ UNCHANGED left
     \/ Fault /\ Answer(id, "refused") /\ UNCHANGED <<store, watch, history>>
  /\ UNCHANGED <<remote, rules, panic, kernel, web>>

-----------------------------------------------------------------------------
\* deliver's switch on the core's answer.
Delivered(id) ==
  \/ /\ job[id].answer = "ok"
     /\ fetch' = [fetch EXCEPT ![id] = [failed |-> FALSE, err |-> "", val |-> job[id].val]]
     /\ SaveState /\ UNCHANGED pending
  \/ /\ job[id].answer = "busy"
     /\ pending' = [k \in DOMAIN pending \cup {id} |->
                      IF k = id THEN [job[id] EXCEPT !.pc = "deliver", !.answer = ""]
                      ELSE pending[k]]
     /\ UNCHANGED <<fetch, saved, left>>
  \/ /\ job[id].answer \notin {"ok", "busy"}
     /\ Fail(id, fetch[id], job[id].answer) /\ UNCHANGED pending

Reply(id) ==
  /\ job[id].pc = "reply"
  /\ UNCHANGED <<remote, core, own, asked, history>>
  /\ Delivered(id)
  /\ job' = [job EXCEPT ![id] = Idle]

\* The core's answer is lost: the connection or its deadline.
LoseReply(id) ==
  /\ job[id].pc = "reply" /\ job[id].answer # "unreachable" /\ Fault
  /\ Answer(id, "unreachable")
  /\ UNCHANGED <<remote, core, web, history>>

Step(id) ==
  \/ ReadCopy(id) \/ ReadState(id) \/ Fetch(id) \/ UpdateFeed(id)
  \/ ReplaceFeedSet(id) \/ StoreFeed(id) \/ Reply(id)

Next ==
  \/ \E u \in Url : Publish(u)
  \/ DayPasses \/ ApplyStart \/ ApplyEnd \/ Panic \/ Resume \/ CoreRestart \/ WebRestart
  \/ \E id \in Feed : SwitchFeed(id) \/ Pass(id) \/ RefreshNow(id) \/ LoseReply(id) \/ Step(id)
  \/ \E id \in OwnFeed : \E u \in Url \cup {None} : SaveOwnFeed(id, u)
  \/ DropSwitchedOff

\* A feed on comes due within its interval, a step under way goes on, a window
\* closes and a day passes; nothing else has to happen.
Fairness ==
  /\ WF_vars(ApplyEnd) /\ WF_vars(DayPasses) /\ WF_vars(DropSwitchedOff)
  /\ \A id \in Feed : WF_vars(Pass(id)) /\ WF_vars(Step(id))

Spec == Init /\ [][Next]_vars /\ Fairness

-----------------------------------------------------------------------------
(* Properties.                                                             *)

Copy(id) == IF id \in DOMAIN store THEN store[id] ELSE None

\* NotModifiedTrue: when the core takes a 304 (UpdateFeed with NotModified),
\* the copy it confirms is the list the server held when it answered, unless
\* the feed's address was edited while a refresh of it was in flight: the
\* validators sent are never those of a version the core did not take.
NotModifiedTrue ==
  [][\A id \in Feed :
       job[id].pc = "deliver" /\ job[id].same /\ job'[id].answer = "ok"
         => id \in history.crossed \/ Copy(id) = job[id].list]_vars

\* KernelIsStored: outside an update, a live feed's set holds the stored copy,
\* so the next apply, rollback or restart changes nothing; the only exception
\* is a copy the kernel took and feeds.json did not (UpdateFeed, step 7).
KernelIsStored ==
  kernel # NoTable =>
    /\ DOMAIN kernel = rules.current
    /\ \A id \in rules.current : id \in history.unstored \/ kernel[id] = Copy(id)

\* ShrinkEarned: a live set is replaced by a list under 70 % of the stored one
\* only after two refusals in a row with no confirmed or stored version in
\* between, and a day after the first of a run (UpdateFeed, step 6).
ShrinkEarned ==
  [][\A id \in Feed \ CountryFeed :
       /\ slot = "free" /\ slot' = id /\ id \in rules.current /\ id \in DOMAIN store
       /\ Shrinks(Entries[store[id]], Entries[job[id].list])
       => history.small[id] >= 2 /\ watch[id].day]_vars

\* StaysCurrent: a feed that stays on, with no panic in force, comes to hold
\* what its server publishes, whatever was lost, refused, held back or crashed
\* before; a feed whose address was edited in flight is left out.
StaysCurrent ==
  \A id \in Feed :
    <>[](id \in On /\ ~panic /\ id \notin history.crossed)
      => []<>(\E u \in Url : u = Address(id) /\ Copy(id) = <<u, remote[u]>>)
=============================================================================
