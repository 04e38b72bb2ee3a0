---------------------------- MODULE FeedsProofs -------------------------------
(***************************************************************************)
(* The published lists, from the server to the kernel set, for any number  *)
(* of feeds, addresses and versions, and whatever fails or is restarted.   *)
(* Three invariants: what the apply slot, the table and feeds.json promise *)
(* each other between the steps of an update (StoredInv), what the shrink  *)
(* watch counts (WatchInv), and what the validators the web process keeps  *)
(* say about the copy the core has (ValidInv).                             *)
(***************************************************************************)
EXTENDS Feeds, TLAPS

\* The records the steps update have the fields they are made with.
JobFields == {"pc", "only", "url", "stored", "val", "same", "list", "keep", "answer"}
JobShape(j) == j = [f \in JobFields |-> j[f]]
JobsOK == job = [id \in Feed |-> job[id]] /\ \A id \in Feed : JobShape(job[id])

HeldOK ==
  \A id \in DOMAIN pending : JobShape(pending[id]) /\ pending[id].pc = "deliver" /\ pending[id].answer # "ok"
HistoryOK == history = [f \in {"crossed", "unstored", "small"} |-> history[f]]
RulesOK == rules = [f \in {"current", "staged", "backup"} |-> rules[f]]

\* An update that is past its checks holds the slot, so the rules in force are
\* those it read, and every copy they need is among those Put keeps.
SlotInv ==
  \A id \in Feed :
    job[id].pc \in {"kernel", "put"} =>
      /\ slot = id /\ rules.current \subseteq job[id].keep
      /\ job[id].pc = "kernel" => id \in rules.current

\* Without a panic there is a table, and the list on its way to feeds.json is in it.
TableInv ==
  /\ panic => kernel = NoTable
  /\ ~panic => /\ DOMAIN kernel = rules.current
               /\ \A id \in rules.current : id \in history.unstored \/ kernel[id] = Copy(id)
  /\ \A id \in Feed :
       job[id].pc = "put" /\ id \in rules.current /\ ~panic => kernel[id] = job[id].list

StoredInv == JobsOK /\ HeldOK /\ RulesOK /\ HistoryOK /\ SlotInv /\ TableInv

\* The run of refusals the core counts is not longer than the one there was.
WatchInv ==
  /\ HistoryOK
  /\ history.small = [id \in Feed |-> history.small[id]]
  /\ watch = [id \in Feed |-> watch[id]]
  /\ \A id \in Feed : /\ watch[id] = [f \in {"seen", "day"} |-> watch[id][f]]
                      /\ watch[id].seen \in Nat /\ history.small[id] \in Nat
                      /\ watch[id].seen <= history.small[id]

\* The view of one feed: what is published, r, its address a, the copy c of the core,
\* the validators f in memory and s in the file, its refresh j and the one held, p.
\* Every list in it was published, validators are those of the address and not newer
\* than the copy, and a list on its way is not older than any validators.
Published(l, r) == l \in List /\ l[2] <= r[l[1]]
NotNewer(v, l) == v[1] = l[1] /\ v[2] <= l[2]

Valid(v, r, a, c) ==
  v # None => Published(v, r) /\ v[1] = a /\ (c # None => NotNewer(v, c))

Carries(j, r, a, c, f, s) ==
  /\ Published(j.list, r) /\ j.list[1] = a
  /\ j.val \in {None, j.list}
  /\ f # None => NotNewer(f, j.list)
  /\ s # None => NotNewer(s, j.list)
  /\ j.same \/ j.answer = "ok" => c \in {None, j.list}

View(r, a, c, f, s, j, p) ==
  /\ a \in Url \cup {None}
  /\ c # None => Published(c, r)
  /\ Valid(f, r, a, c) /\ Valid(s, r, a, c)
  /\ j.pc \in {"copy", "state", "fetch"} =>
       j.url = a /\ a # None /\ ~j.same /\ Valid(j.val, r, a, c)
  /\ j.pc \in {"deliver", "kernel", "put", "reply"} => Carries(j, r, a, c, f, s)
  /\ j.pc # "reply" => j.answer # "ok"
  /\ p.pc = "deliver" => j.pc = "idle" /\ p.answer # "ok" /\ Carries(p, r, a, c, f, s)

Held(id) == IF id \in DOMAIN pending THEN pending[id] ELSE Idle

RefreshInv(id) ==
  /\ id \in OwnFeed => saved.own[id] = own[id]
  /\ id \in DOMAIN store => store[id] # None
  /\ View(remote, Address(id), Copy(id), fetch[id].val, saved.fetch[id].val, job[id], Held(id))

\* What the steps update is a function of the feeds, or of the addresses.
StateShape(m) == m = [f \in {"failed", "err", "val"} |-> m[f]]
WebOK ==
  /\ remote = [u \in Url |-> remote[u]] /\ \A u \in Url : remote[u] \in 1..MaxVersion
  /\ own = [id \in OwnFeed |-> own[id]] /\ saved.own = [id \in OwnFeed |-> saved.own[id]]
  /\ fetch = [id \in Feed |-> fetch[id]] /\ saved.fetch = [id \in Feed |-> saved.fetch[id]]
  /\ \A id \in Feed : StateShape(fetch[id]) /\ StateShape(saved.fetch[id])

ValidInv == WebOK /\ \A id \in Feed \ history.crossed : RefreshInv(id)

\* A step of one refresh leaves the others alone.
Moved(id) ==
  /\ job' = [k \in Feed |-> job'[k]] /\ JobShape(job'[id])
  /\ \A k \in Feed : k # id => job'[k] = job[k]

\* A refresh that is replaced.
LEMMA JobSet ==
  ASSUME JobsOK, NEW id \in Feed, NEW j, JobShape(j), job' = [job EXCEPT ![id] = j]
  PROVE  Moved(id) /\ job'[id] = j
BY Zenon DEF JobsOK, Moved

\* The answer of the core.
LEMMA JobAnswers ==
  ASSUME JobsOK, NEW id \in Feed, NEW a, Answer(id, a)
  PROVE  /\ Moved(id) /\ job'[id].pc = "reply" /\ job'[id].answer = a
         /\ job'[id].url = job[id].url /\ job'[id].val = job[id].val
         /\ job'[id].same = job[id].same /\ job'[id].list = job[id].list
<1> DEFINE j == [job[id] EXCEPT !.pc = "reply", !.answer = a]
<1>1. job' = [job EXCEPT ![id] = j]
  BY Zenon DEF Answer
<1>2. JobShape(job[id])
  BY Zenon DEF JobsOK
<1>3. /\ JobShape(j) /\ j.pc = "reply" /\ j.answer = a
      /\ j.url = job[id].url /\ j.val = job[id].val /\ j.same = job[id].same /\ j.list = job[id].list
  BY <1>2, Zenon DEF JobShape, JobFields
<1> HIDE DEF j
<1> QED
  BY <1>1, <1>3, JobSet, Zenon

\* Idle is a refresh too.
LEMMA IdleShape == JobShape(Idle) /\ Idle.pc = "idle" /\ Idle.answer = "" /\ Idle.same = FALSE /\ Idle.val = None
BY Zenon DEF JobShape, JobFields, Idle

\* What stays of a refresh while it goes on.
Keeps(id) ==
  /\ job'[id].url = job[id].url /\ job'[id].same = job[id].same /\ job'[id].answer = job[id].answer

\* coreCopy.
LEMMA ReadCopyDoes ==
  ASSUME JobsOK, NEW id \in Feed, ReadCopy(id)
  PROVE  /\ Moved(id) /\ job[id].pc = "copy" /\ job'[id].pc = "state"
         /\ Keeps(id) /\ job'[id].val = job[id].val
<1>1. PICK s : job' = [job EXCEPT ![id].stored = s, ![id].pc = "state"]
  BY Zenon DEF ReadCopy
<1> DEFINE j == [job[id] EXCEPT !.stored = s, !.pc = "state"]
<1>2. job' = [job EXCEPT ![id] = j] /\ JobShape(job[id])
  BY <1>1, Zenon DEF JobsOK
<1>3. /\ JobShape(j) /\ j.pc = "state"
      /\ j.url = job[id].url /\ j.same = job[id].same /\ j.answer = job[id].answer /\ j.val = job[id].val
  BY <1>2, Zenon DEF JobShape, JobFields
<1> HIDE DEF j
<1> QED
  BY <1>2, <1>3, JobSet, Zenon DEF ReadCopy, Keeps

\* fetchState, and where a switch-on stops.
LEMMA ReadStateDoes ==
  ASSUME JobsOK, NEW id \in Feed, ReadState(id)
  PROVE  /\ Moved(id) /\ job[id].pc = "state"
         /\ \/ job'[id] = Idle
            \/ job'[id].pc = "fetch" /\ Keeps(id) /\ job'[id].val = fetch[id].val
<1>1. CASE job' = [job EXCEPT ![id] = Idle]
  BY <1>1, IdleShape, JobSet, Zenon DEF ReadState
<1>2. CASE job' = [job EXCEPT ![id].pc = "fetch", ![id].val = fetch[id].val]
  <2> DEFINE j == [job[id] EXCEPT !.pc = "fetch", !.val = fetch[id].val]
  <2>1. job' = [job EXCEPT ![id] = j] /\ JobShape(job[id])
    BY <1>2, Zenon DEF JobsOK
  <2>2. /\ JobShape(j) /\ j.pc = "fetch" /\ j.val = fetch[id].val
        /\ j.url = job[id].url /\ j.same = job[id].same /\ j.answer = job[id].answer
    BY <2>1, Zenon DEF JobShape, JobFields
  <2> HIDE DEF j
  <2> QED
    BY <2>1, <2>2, JobSet, Zenon DEF ReadState, Keeps
<1> QED
  BY <1>1, <1>2, Zenon DEF ReadState

\* The answer of the server.
LEMMA FetchDoes ==
  ASSUME JobsOK, NEW id \in Feed, Fetch(id)
  PROVE  /\ Moved(id) /\ job[id].pc = "fetch"
         /\ \/ /\ job'[id].pc = "deliver" /\ job'[id].url = job[id].url /\ job'[id].answer = job[id].answer
               /\ job'[id].list = <<job[id].url, remote[job[id].url]>>
               /\ UNCHANGED <<fetch, saved>>
               /\ \/ /\ job'[id].val = job[id].val /\ job[id].val # None
                     /\ Matches(job[id].url, job[id].val)
                  \/ job'[id].same = job[id].same /\ job'[id].val \in {None, job'[id].list}
            \/ /\ job'[id] = Idle
               /\ fetch' = [fetch EXCEPT ![id] = [failed |-> TRUE, err |-> "fetch", val |-> job[id].val]]
               /\ saved' = [fetch |-> fetch', own |-> own]
<1> DEFINE list == <<job[id].url, remote[job[id].url]>>
<1>0. JobShape(job[id]) /\ job[id].pc = "fetch"
  BY Zenon DEF JobsOK, Fetch
<1>1. CASE job' = [job EXCEPT ![id].pc = "deliver", ![id].same = TRUE, ![id].list = list]
           /\ Conditional(id) /\ Matches(job[id].url, job[id].val) /\ UNCHANGED <<fetch, saved>>
  <2> DEFINE j == [job[id] EXCEPT !.pc = "deliver", !.same = TRUE, !.list = list]
  <2>1. job' = [job EXCEPT ![id] = j]
    BY <1>1, Zenon
  <2>2. /\ JobShape(j) /\ j.pc = "deliver" /\ j.list = list
        /\ j.url = job[id].url /\ j.val = job[id].val /\ j.answer = job[id].answer
    BY <1>0, Zenon DEF JobShape, JobFields
  <2> HIDE DEF j
  <2> QED
    BY <1>0, <1>1, <2>1, <2>2, JobSet, Zenon DEF Conditional
<1>2. CASE /\ UNCHANGED <<fetch, saved>>
           /\ job' = [job EXCEPT ![id].pc = "deliver", ![id].list = list,
                                 ![id].val = IF id \in SplitFeed THEN None ELSE list]
  <2> DEFINE v == IF id \in SplitFeed THEN None ELSE list
             j == [job[id] EXCEPT !.pc = "deliver", !.list = list, !.val = v]
  <2>1. job' = [job EXCEPT ![id] = j] /\ v \in {None, list}
    BY <1>2, Zenon
  <2> HIDE DEF v
  <2>2. /\ JobShape(j) /\ j.pc = "deliver" /\ j.list = list /\ j.val = v
        /\ j.url = job[id].url /\ j.same = job[id].same /\ j.answer = job[id].answer
    BY <1>0, Zenon DEF JobShape, JobFields
  <2> HIDE DEF j
  <2> QED
    BY <1>0, <1>2, <2>1, <2>2, JobSet, Zenon
<1>3. CASE /\ job' = [job EXCEPT ![id] = Idle]
           /\ fetch' = [fetch EXCEPT ![id] = [failed |-> TRUE, err |-> "fetch", val |-> job[id].val]]
           /\ saved' = [fetch |-> fetch', own |-> own]
  BY <1>0, <1>3, IdleShape, JobSet, Zenon
<1> QED
  BY <1>1, <1>2, <1>3, Zenon DEF Fetch

\* UpdateFeed answers, or takes the slot.
LEMMA UpdateFeedDoes ==
  ASSUME JobsOK, NEW id \in Feed, UpdateFeed(id), HistoryOK
  PROVE  /\ Moved(id) /\ job[id].pc = "deliver"
         /\ job'[id].url = job[id].url /\ job'[id].val = job[id].val
         /\ job'[id].same = job[id].same /\ job'[id].list = job[id].list
         /\ UNCHANGED <<remote, rules, panic, kernel, web>>
         /\ history'.unstored = history.unstored /\ history'.crossed = history.crossed
         /\ \/ job'[id].pc = "reply" /\ job'[id].answer # "ok" /\ UNCHANGED <<slot, store>>
            \/ /\ job'[id].pc = "reply" /\ job'[id].answer = "ok" /\ job[id].same /\ id \in DOMAIN store
               /\ Put(id, store[id], FeedIDs) /\ UNCHANGED slot
            \/ /\ slot = "free" /\ slot' = id /\ UNCHANGED store /\ ~job[id].same
               /\ job'[id].answer = job[id].answer /\ job'[id].keep = FeedIDs
               /\ job'[id].pc = IF id \in rules.current THEN "kernel" ELSE "put"
<1>1. job[id].pc = "deliver" /\ UNCHANGED <<remote, rules, panic, kernel, web>>
  BY Zenon DEF UpdateFeed, core
<1>2. history'.unstored = history.unstored /\ history'.crossed = history.crossed
  BY Zenon DEF UpdateFeed, HistoryOK
<1>3. \/ \E a : a # "ok" /\ Answer(id, a) /\ UNCHANGED <<slot, store>>
      \/ /\ Answer(id, "ok") /\ job[id].same /\ id \in DOMAIN store
         /\ Put(id, store[id], FeedIDs) /\ UNCHANGED slot
      \/ /\ job' = [job EXCEPT ![id].pc = IF id \in rules.current THEN "kernel" ELSE "put",
                               ![id].keep = FeedIDs]
         /\ slot = "free" /\ slot' = id /\ UNCHANGED store /\ ~job[id].same
  BY Zenon DEF UpdateFeed, core
<1>4. CASE \E a : a # "ok" /\ Answer(id, a) /\ UNCHANGED <<slot, store>>
  BY <1>1, <1>2, <1>4, JobAnswers, Zenon
<1>5. CASE /\ Answer(id, "ok") /\ job[id].same /\ id \in DOMAIN store
           /\ Put(id, store[id], FeedIDs) /\ UNCHANGED slot
  BY <1>1, <1>2, <1>5, JobAnswers, Zenon
<1>6. CASE /\ job' = [job EXCEPT ![id].pc = IF id \in rules.current THEN "kernel" ELSE "put",
                                 ![id].keep = FeedIDs]
           /\ slot = "free" /\ slot' = id /\ UNCHANGED store /\ ~job[id].same
  <2> DEFINE to == IF id \in rules.current THEN "kernel" ELSE "put"
             j == [job[id] EXCEPT !.pc = to, !.keep = FeedIDs]
  <2>1. job' = [job EXCEPT ![id] = j] /\ JobShape(job[id])
    BY <1>6, Zenon DEF JobsOK
  <2>2. /\ JobShape(j) /\ j.pc = to /\ j.keep = FeedIDs
        /\ j.url = job[id].url /\ j.val = job[id].val /\ j.same = job[id].same /\ j.list = job[id].list /\ j.answer = job[id].answer
    BY <2>1, Zenon DEF JobShape, JobFields
  <2> HIDE DEF j
  <2> QED
    BY <1>1, <1>2, <1>6, <2>1, <2>2, JobSet, Zenon
<1> QED
  BY <1>3, <1>4, <1>5, <1>6, Zenon

\* The kernel takes the list, or the update ends.
LEMMA ReplaceFeedSetDoes ==
  ASSUME JobsOK, NEW id \in Feed, ReplaceFeedSet(id), HistoryOK
  PROVE  /\ Moved(id) /\ job[id].pc = "kernel" /\ UNCHANGED <<remote, rules, panic, store, web>>
         /\ job'[id].url = job[id].url /\ job'[id].val = job[id].val
         /\ job'[id].same = job[id].same /\ job'[id].list = job[id].list
         /\ history'.crossed = history.crossed
         /\ \/ /\ job'[id].pc = "reply" /\ job'[id].answer # "ok" /\ slot' = "free"
               /\ UNCHANGED <<kernel, history>>
            \/ /\ job'[id].pc = "put" /\ job'[id].keep = job[id].keep /\ job'[id].answer = job[id].answer
               /\ ~panic /\ kernel' = [kernel EXCEPT ![id] = job[id].list] /\ slot' = slot
               /\ history'.unstored = history.unstored \cup {id}
<1>1. job[id].pc = "kernel" /\ UNCHANGED <<remote, rules, panic, store, web>>
  BY Zenon DEF ReplaceFeedSet
<1>2. history'.crossed = history.crossed
  BY Zenon DEF ReplaceFeedSet, HistoryOK
<1>3. CASE \E a : a # "ok" /\ Answer(id, a) /\ slot' = "free" /\ UNCHANGED <<kernel, history>>
  <2>1. PICK a : a # "ok" /\ Answer(id, a)
    BY <1>3, Zenon
  <2>2. /\ Moved(id) /\ job'[id].pc = "reply" /\ job'[id].answer = a
        /\ job'[id].url = job[id].url /\ job'[id].val = job[id].val
        /\ job'[id].same = job[id].same /\ job'[id].list = job[id].list
    BY <2>1, JobAnswers, Zenon
  <2> QED
    BY <1>1, <1>2, <1>3, <2>1, <2>2, Zenon
<1>4. CASE /\ job' = [job EXCEPT ![id].pc = "put"] /\ ~panic
           /\ kernel' = [kernel EXCEPT ![id] = job[id].list] /\ slot' = slot
           /\ history' = [history EXCEPT !.unstored = @ \cup {id}]
  <2> DEFINE j == [job[id] EXCEPT !.pc = "put"]
  <2>1. job' = [job EXCEPT ![id] = j] /\ JobShape(job[id])
    BY <1>4, Zenon DEF JobsOK
  <2>2. /\ JobShape(j) /\ j.pc = "put" /\ j.keep = job[id].keep
        /\ j.url = job[id].url /\ j.val = job[id].val /\ j.same = job[id].same /\ j.list = job[id].list
        /\ j.answer = job[id].answer
    BY <2>1, Zenon DEF JobShape, JobFields
  <2>3. history'.unstored = history.unstored \cup {id}
    BY <1>4, Zenon DEF HistoryOK
  <2> HIDE DEF j
  <2> QED
    BY <1>1, <1>2, <1>4, <2>1, <2>2, <2>3, JobSet, Zenon
<1> QED
  BY <1>3, <1>4, Zenon DEF ReplaceFeedSet

\* The file takes the list, or the update ends without it.
LEMMA StoreFeedDoes ==
  ASSUME JobsOK, NEW id \in Feed, StoreFeed(id), HistoryOK
  PROVE  /\ Moved(id) /\ job[id].pc = "put" /\ slot' = "free"
         /\ UNCHANGED <<remote, rules, panic, kernel, web>>
         /\ job'[id].pc = "reply" /\ job'[id].url = job[id].url /\ job'[id].val = job[id].val
         /\ job'[id].same = job[id].same /\ job'[id].list = job[id].list
         /\ history'.crossed = history.crossed
         /\ \/ /\ Put(id, job[id].list, job[id].keep)
               /\ history'.unstored = history.unstored \ {id}
            \/ job'[id].answer # "ok" /\ UNCHANGED <<store, history>>
<1>1. job[id].pc = "put" /\ slot' = "free" /\ UNCHANGED <<remote, rules, panic, kernel, web>>
  BY Zenon DEF StoreFeed
<1>2. history'.crossed = history.crossed
  BY Zenon DEF StoreFeed, HistoryOK
<1>3. CASE /\ Put(id, job[id].list, job[id].keep) /\ Answer(id, "ok")
           /\ history' = [history EXCEPT !.unstored = @ \ {id}, !.small[id] = 0]
  <2>1. history'.unstored = history.unstored \ {id}
    BY <1>3, Zenon DEF HistoryOK
  <2> QED
    BY <1>1, <1>2, <1>3, <2>1, JobAnswers, Zenon
<1>4. CASE Answer(id, "refused") /\ UNCHANGED <<store, history>>
  <2>1. /\ Moved(id) /\ job'[id].pc = "reply" /\ job'[id].answer = "refused"
        /\ job'[id].url = job[id].url /\ job'[id].val = job[id].val
        /\ job'[id].same = job[id].same /\ job'[id].list = job[id].list
    BY <1>4, JobAnswers, Zenon
  <2> QED
    BY <1>1, <1>2, <1>4, <2>1, Zenon
<1> QED
  BY <1>3, <1>4, Zenon DEF StoreFeed

\* refresh takes the update that was held, or begins one.
LEMMA RefreshDoes ==
  ASSUME JobsOK, NEW id \in Feed, NEW only, Refresh(id, only),
         HeldOK
  PROVE  /\ job[id] = Idle
         /\ \/ /\ Moved(id) /\ id \in DOMAIN pending /\ job'[id] = pending[id]
               /\ pending' = Restrict(pending, DOMAIN pending \ {id})
            \/ UNCHANGED <<job, pending>>
            \/ /\ Moved(id) /\ job'[id].pc = "copy" /\ job'[id].url = Address(id) /\ Address(id) # None
               /\ job'[id].same = FALSE /\ job'[id].val = None /\ job'[id].answer = ""
               /\ UNCHANGED pending /\ id \notin DOMAIN pending
<1>1. CASE /\ id \in DOMAIN pending /\ job' = [job EXCEPT ![id] = pending[id]]
           /\ pending' = Restrict(pending, DOMAIN pending \ {id})
  BY <1>1, JobSet, Zenon DEF Refresh, HeldOK
<1>2. CASE UNCHANGED <<job, pending>>
  BY <1>2, Zenon DEF Refresh
<1>3. CASE /\ id \notin DOMAIN pending /\ UNCHANGED pending /\ Address(id) # None
           /\ job' = [job EXCEPT ![id] = [Idle EXCEPT !.pc = "copy", !.only = only, !.url = Address(id)]]
  <2> DEFINE j == [Idle EXCEPT !.pc = "copy", !.only = only, !.url = Address(id)]
  <2>1. /\ JobShape(j) /\ j.pc = "copy" /\ j.url = Address(id)
        /\ j.same = Idle.same /\ j.val = Idle.val /\ j.answer = Idle.answer
    BY IdleShape, Zenon DEF JobShape, JobFields
  <2> HIDE DEF j
  <2>2. Moved(id) /\ job'[id] = j /\ job[id] = Idle
    BY <1>3, <2>1, JobSet, Zenon DEF Refresh, j
  <2> QED
    BY <1>3, <2>1, <2>2, IdleShape, Zenon
<1> QED
  BY <1>1, <1>2, <1>3, Zenon DEF Refresh

\* The core's own death answers for the updates it was at.
LEMMA CoreRestartDoes ==
  ASSUME JobsOK, CoreRestart
  PROVE  /\ job' = [k \in Feed |-> job'[k]]
         /\ \A k \in Feed :
              IF job[k].pc \in {"kernel", "put"}
              THEN /\ JobShape(job'[k]) /\ job'[k].pc = "reply" /\ job'[k].answer = "unreachable"
                   /\ job'[k].url = job[k].url /\ job'[k].val = job[k].val
                   /\ job'[k].same = job[k].same /\ job'[k].list = job[k].list
              ELSE job'[k] = job[k]
<1>1. job' = [k \in Feed |-> IF job[k].pc \in {"kernel", "put"}
                            THEN [job[k] EXCEPT !.pc = "reply", !.answer = "unreachable"]
                            ELSE job[k]]
  BY Zenon DEF CoreRestart
<1>2. ASSUME NEW k \in Feed
      PROVE  /\ JobShape([job[k] EXCEPT !.pc = "reply", !.answer = "unreachable"])
             /\ [job[k] EXCEPT !.pc = "reply", !.answer = "unreachable"].pc = "reply"
             /\ [job[k] EXCEPT !.pc = "reply", !.answer = "unreachable"].answer = "unreachable"
             /\ [job[k] EXCEPT !.pc = "reply", !.answer = "unreachable"].url = job[k].url
             /\ [job[k] EXCEPT !.pc = "reply", !.answer = "unreachable"].val = job[k].val
             /\ [job[k] EXCEPT !.pc = "reply", !.answer = "unreachable"].same = job[k].same
             /\ [job[k] EXCEPT !.pc = "reply", !.answer = "unreachable"].list = job[k].list
  BY Zenon DEF JobsOK, JobShape, JobFields
<1> QED
  BY <1>1, <1>2, Zenon

\* The steps of one feed, of an own feed, and of everything else.
FeedSteps(id) == SwitchFeed(id) \/ Pass(id) \/ RefreshNow(id) \/ LoseReply(id) \/ Step(id)
CoreSteps == ApplyStart \/ ApplyEnd \/ Panic \/ Resume \/ CoreRestart
OtherSteps == DayPasses \/ WebRestart \/ DropSwitchedOff \/ \E u \in Url : Publish(u)

\* Next by kind of step.
LEMMA FeedStepKinds ==
  Next => \/ CoreSteps \/ OtherSteps
          \/ \E id \in Feed : FeedSteps(id)
          \/ \E id \in OwnFeed : \E u \in Url \cup {None} : SaveOwnFeed(id, u)
BY Zenon DEF Next, FeedSteps, CoreSteps, OtherSteps

\* Every step moves one refresh, or none, or all of them.
LEMMA FeedJobs == ASSUME JobsOK, HeldOK, HistoryOK, Next PROVE JobsOK'
<1>1. ASSUME NEW id \in Feed, Moved(id) PROVE JobsOK'
  BY <1>1, Zenon DEF JobsOK, Moved
<1>2. ASSUME UNCHANGED job PROVE JobsOK'
  BY <1>2, Zenon DEF JobsOK
<1>3. CASE CoreRestart
  BY <1>3, CoreRestartDoes, Zenon DEF JobsOK
<1>4. CASE WebRestart
  BY <1>4, IdleShape, Zenon DEF WebRestart, JobsOK
<1>5. ASSUME NEW id \in Feed, FeedSteps(id) PROVE JobsOK'
  <2>1. CASE SwitchFeed(id)
    BY <1>2, <2>1, Zenon DEF SwitchFeed
  <2>2. CASE Pass(id) \/ RefreshNow(id)
    BY <1>1, <1>2, <2>2, RefreshDoes, Zenon DEF Pass, RefreshNow
  <2>3. CASE LoseReply(id)
    BY <1>1, <2>3, JobAnswers, Zenon DEF LoseReply
  <2>4. CASE ReadCopy(id) \/ ReadState(id) \/ Fetch(id)
    BY <1>1, <2>4, ReadCopyDoes, ReadStateDoes, FetchDoes, Zenon
  <2>5. CASE UpdateFeed(id) \/ ReplaceFeedSet(id) \/ StoreFeed(id)
    BY <1>1, <2>5, UpdateFeedDoes, ReplaceFeedSetDoes, StoreFeedDoes, Zenon
  <2>6. CASE Reply(id)
    BY <1>1, <2>6, IdleShape, JobSet, Zenon DEF Reply
  <2> QED
    BY <1>5, <2>1, <2>2, <2>3, <2>4, <2>5, <2>6, Zenon DEF FeedSteps, Step
<1>6. CASE \E id \in OwnFeed : \E u \in Url \cup {None} : SaveOwnFeed(id, u)
  BY <1>2, <1>6, Zenon DEF SaveOwnFeed
<1>7. CASE ApplyStart \/ ApplyEnd \/ Panic \/ Resume \/ DayPasses \/ DropSwitchedOff \/ \E u \in Url : Publish(u)
  BY <1>2, <1>7, Zenon DEF ApplyStart, ApplyEnd, Panic, Resume, DayPasses, DropSwitchedOff, Publish
<1> QED
  BY <1>3, <1>4, <1>5, <1>6, <1>7, FeedStepKinds, Zenon DEF CoreSteps, OtherSteps

\* What is held is what deliver held back.
LEMMA FeedHeld == ASSUME JobsOK, HeldOK, Next PROVE HeldOK'
<1>1. ASSUME UNCHANGED pending PROVE HeldOK'
  BY <1>1, Zenon DEF HeldOK
<1>2. ASSUME NEW S, S \subseteq DOMAIN pending, pending' = Restrict(pending, S) PROVE HeldOK'
  BY <1>2, Zenon DEF HeldOK, Restrict
<1>3. ASSUME NEW id \in Feed, Reply(id) PROVE HeldOK'
  <2>1. CASE UNCHANGED pending
    BY <1>1, <2>1
  <2>2. CASE pending' = [k \in DOMAIN pending \cup {id} |->
                           IF k = id THEN [job[id] EXCEPT !.pc = "deliver", !.answer = ""] ELSE pending[k]]
    <3> DEFINE j == [job[id] EXCEPT !.pc = "deliver", !.answer = ""]
    <3>1. JobShape(j) /\ j.pc = "deliver" /\ j.answer # "ok"
      BY Zenon DEF JobsOK, JobShape, JobFields
    <3> HIDE DEF j
    <3>2. pending' = [k \in DOMAIN pending \cup {id} |-> IF k = id THEN j ELSE pending[k]]
      BY <2>2, Zenon DEF j
    <3> QED
      BY <3>1, <3>2, Zenon DEF HeldOK
  <2> QED
    BY <1>3, <2>1, <2>2, Zenon DEF Reply, Delivered, Fail
<1>4. ASSUME NEW id \in Feed, FeedSteps(id), ~Reply(id) PROVE HeldOK'
  <2>1. CASE SwitchFeed(id) \/ LoseReply(id)
    BY <1>1, <2>1, Zenon DEF SwitchFeed, LoseReply, web
  <2>2. CASE Pass(id) \/ RefreshNow(id)
    BY <1>1, <1>2, <2>2, Zenon DEF Pass, RefreshNow, Refresh
  <2>3. CASE ReadCopy(id) \/ ReadState(id) \/ Fetch(id) \/ UpdateFeed(id) \/ ReplaceFeedSet(id) \/ StoreFeed(id)
    BY <1>1, <2>3, Zenon DEF ReadCopy, ReadState, Fetch, UpdateFeed, ReplaceFeedSet, StoreFeed, web
  <2> QED
    BY <1>4, <2>1, <2>2, <2>3, Zenon DEF FeedSteps, Step
<1>5. CASE \E id \in OwnFeed : \E u \in Url \cup {None} : SaveOwnFeed(id, u)
  <2>1. PICK id : pending' = Restrict(pending, DOMAIN pending \ {id})
    BY <1>5, Zenon DEF SaveOwnFeed, ForgetList
  <2>2. DOMAIN pending \ {id} \subseteq DOMAIN pending
    BY Zenon
  <2> QED
    BY <1>2, <2>1, <2>2, Zenon
<1>6. CASE CoreSteps
  BY <1>1, <1>6, Zenon DEF CoreSteps, ApplyStart, ApplyEnd, Panic, Resume, CoreRestart, web
<1>7. CASE OtherSteps
  <2>1. CASE WebRestart
    BY <2>1, Zenon DEF WebRestart, HeldOK
  <2>2. CASE DropSwitchedOff
    BY <1>2, <2>2, Zenon DEF DropSwitchedOff
  <2>3. CASE DayPasses \/ \E u \in Url : Publish(u)
    BY <1>1, <2>3, Zenon DEF DayPasses, Publish, web
  <2> QED
    BY <1>7, <2>1, <2>2, <2>3, Zenon DEF OtherSteps
<1> QED
  BY <1>3, <1>4, <1>5, <1>6, <1>7, FeedStepKinds, Zenon

\* The rules and the history keep their fields.
LEMMA FeedRecords == ASSUME RulesOK, HistoryOK, Next PROVE RulesOK' /\ HistoryOK'
<1>1. CASE CoreSteps
  BY <1>1, Zenon DEF CoreSteps, ApplyStart, ApplyEnd, Panic, Resume, CoreRestart, Loaded, RulesOK, HistoryOK
<1>2. CASE OtherSteps
  BY <1>2, Zenon DEF OtherSteps, DayPasses, WebRestart, DropSwitchedOff, Publish, core, RulesOK, HistoryOK
<1>3. CASE \E id \in Feed : FeedSteps(id)
  <2> PICK id \in Feed : FeedSteps(id)
    BY <1>3
  <2>1. CASE SwitchFeed(id)
    BY <2>1, Zenon DEF SwitchFeed, RulesOK, HistoryOK
  <2>2. CASE Pass(id) \/ RefreshNow(id) \/ LoseReply(id) \/ ReadCopy(id) \/ ReadState(id) \/ Fetch(id) \/ Reply(id)
    BY <2>2, Zenon DEF Pass, RefreshNow, LoseReply, ReadCopy, ReadState, Fetch, Reply, core, RulesOK, HistoryOK
  <2>3. CASE UpdateFeed(id)
    BY <2>3, Zenon DEF UpdateFeed, core, RulesOK, HistoryOK
  <2>4. CASE ReplaceFeedSet(id) \/ StoreFeed(id)
    BY <2>4, Zenon DEF ReplaceFeedSet, StoreFeed, RulesOK, HistoryOK
  <2> QED
    BY <2>1, <2>2, <2>3, <2>4, Zenon DEF FeedSteps, Step
<1>4. CASE \E id \in OwnFeed : \E u \in Url \cup {None} : SaveOwnFeed(id, u)
  BY <1>4, Zenon DEF SaveOwnFeed, core, RulesOK, HistoryOK
<1> QED
  BY <1>1, <1>2, <1>3, <1>4, FeedStepKinds, Zenon

\* A step that takes no slot and touches neither table nor file.
Aside ==
  /\ UNCHANGED <<slot, panic, kernel, store>>
  /\ rules'.current = rules.current /\ history'.unstored = history.unstored
  /\ \A k \in Feed : job'[k].pc \in {"kernel", "put"} => job'[k] = job[k]

\* Such a step keeps what the slot and the table promise.
LEMMA AsideKeeps == ASSUME SlotInv, TableInv, Aside PROVE SlotInv' /\ TableInv'
<1>1. SlotInv'
  BY Zenon DEF Aside, SlotInv
<1>2. TableInv'
  BY Zenon DEF Aside, TableInv, Copy
<1> QED
  BY <1>1, <1>2

\* The steps of the web process, of the publishers and of the operator are aside, and
\* so are the answers of UpdateFeed that store nothing.
LEMMA AsideSteps ==
  ASSUME JobsOK, HeldOK, RulesOK, HistoryOK, Next, ~CoreSteps,
         ~\E id \in Feed : UpdateFeed(id) \/ ReplaceFeedSet(id) \/ StoreFeed(id)
  PROVE  Aside
<1>1. CASE OtherSteps
  <2>1. CASE WebRestart
    BY <2>1, IdleShape, Zenon DEF WebRestart, Aside, core
  <2> QED
    BY <1>1, <2>1, Zenon DEF OtherSteps, DayPasses, DropSwitchedOff, Publish, core, Aside
<1>2. CASE \E id \in Feed : FeedSteps(id)
  <2> PICK id \in Feed : FeedSteps(id)
    BY <1>2
  <2>0. ASSUME Moved(id), job'[id].pc \notin {"kernel", "put"}
        PROVE  \A k \in Feed : job'[k].pc \in {"kernel", "put"} => job'[k] = job[k]
    BY <2>0, Zenon DEF Moved
  <2>1. CASE SwitchFeed(id)
    BY <2>1, Zenon DEF SwitchFeed, RulesOK, Aside
  <2>2. CASE Pass(id) \/ RefreshNow(id)
    <3>1. UNCHANGED <<core, history>>
      BY <2>2, Zenon DEF Pass, RefreshNow
    <3>2. \A k \in Feed : job'[k].pc \in {"kernel", "put"} => job'[k] = job[k]
      BY <2>0, <2>2, RefreshDoes, Zenon DEF Pass, RefreshNow, HeldOK
    <3> QED
      BY <3>1, <3>2, Zenon DEF core, Aside
  <2>3. CASE LoseReply(id) \/ ReadCopy(id) \/ ReadState(id) \/ Fetch(id) \/ Reply(id)
    <3>1. UNCHANGED <<core, history>>
      BY <2>3, Zenon DEF LoseReply, ReadCopy, ReadState, Fetch, Reply
    <3>2. Moved(id) /\ job'[id].pc \notin {"kernel", "put"}
      <4>1. CASE LoseReply(id)
        BY <4>1, JobAnswers, Zenon DEF LoseReply
      <4>2. CASE Reply(id)
        BY <4>2, IdleShape, JobSet, Zenon DEF Reply
      <4>3. CASE ReadCopy(id)
        BY <4>3, ReadCopyDoes, Zenon
      <4>4. CASE ReadState(id)
        BY <4>4, ReadStateDoes, IdleShape, Zenon
      <4>5. CASE Fetch(id)
        BY <4>5, FetchDoes, IdleShape, Zenon
      <4> QED
        BY <2>3, <4>1, <4>2, <4>3, <4>4, <4>5, Zenon
    <3> QED
      BY <2>0, <3>1, <3>2, Zenon DEF core, Aside
  <2> QED
    BY <2>1, <2>2, <2>3, Zenon DEF FeedSteps, Step
<1>3. CASE \E id \in OwnFeed : \E u \in Url \cup {None} : SaveOwnFeed(id, u)
  BY <1>3, Zenon DEF SaveOwnFeed, core, HistoryOK, Aside
<1> QED
  BY <1>1, <1>2, <1>3, FeedStepKinds, Zenon

\* While the slot is nobody's, or an apply's, no update is past its checks.
LEMMA NoneAtWork ==
  ASSUME SlotInv, slot \in {"free", "apply"}
  PROVE  \A k \in Feed : job[k].pc \notin {"kernel", "put"}
BY FeedAssumption, Zenon DEF SlotInv

\* A rule set that is put in force is loaded from the file (feedContents).
LEMMA LoadedIsStored ==
  ASSUME NEW ids, rules'.current = ids, kernel' = FeedContents(ids), UNCHANGED store
  PROVE  DOMAIN kernel' = rules'.current /\ \A k \in rules'.current : kernel'[k] = Copy(k)'
BY Zenon DEF FeedContents, Copy

\* Between updates the table promises only that it is loaded.
LEMMA TableLoads ==
  ASSUME \A k \in Feed : job'[k].pc \notin {"kernel", "put"}, ~panic',
         DOMAIN kernel' = rules'.current, \A k \in rules'.current : kernel'[k] = Copy(k)'
  PROVE  TableInv'
BY Zenon DEF TableInv, Copy

\* A step that touches neither the table nor what it was loaded from.
LEMMA TableStays ==
  ASSUME TableInv, \A k \in Feed : job'[k].pc \notin {"kernel", "put"},
         UNCHANGED <<kernel, store, history, panic>>, panic \/ UNCHANGED rules
  PROVE  TableInv'
<1>1. CASE panic
  BY <1>1, Zenon DEF TableInv
<1>2. CASE ~panic
  BY <1>2, Zenon DEF TableInv, Copy
<1> QED
  BY <1>1, <1>2

\* An apply, its end, a panic, a resume and a start keep what slot and table promise.
LEMMA CoreKeeps ==
  ASSUME StoredInv, CoreSteps PROVE SlotInv' /\ TableInv'
<1> USE DEF StoredInv
<1>1. CASE ApplyStart \/ ApplyEnd \/ Resume
  <2>1. slot \in {"free", "apply"} /\ UNCHANGED <<job, store>>
    BY <1>1, Zenon DEF ApplyStart, ApplyEnd, Resume
  <2>2. \A k \in Feed : job'[k].pc \notin {"kernel", "put"}
    BY <2>1, NoneAtWork, Zenon
  <2>3. \/ panic' = panic /\ UNCHANGED <<kernel, history>> /\ (panic \/ UNCHANGED rules)
        \/ /\ ~panic' /\ DOMAIN kernel' = rules'.current
           /\ \A k \in rules'.current : kernel'[k] = Copy(k)'
    <3>1. CASE ApplyStart
      <4>1. rules'.current = rules.staged /\ kernel' = FeedContents(rules.staged) /\ ~panic'
        BY <3>1, Zenon DEF ApplyStart, RulesOK
      <4> QED
        BY <2>1, <4>1, LoadedIsStored, Zenon
    <3>2. CASE ApplyEnd
      <4>1. CASE UNCHANGED <<rules, kernel, history>>
        BY <3>2, <4>1, Zenon DEF ApplyEnd
      <4>2. CASE panic /\ UNCHANGED <<kernel, history>>
        BY <3>2, <4>2, Zenon DEF ApplyEnd
      <4>3. CASE ~panic /\ kernel' = FeedContents(rules.backup) /\ rules' = [rules EXCEPT !.current = rules.backup]
        <5>1. rules'.current = rules.backup /\ ~panic'
          BY <3>2, <4>3, Zenon DEF ApplyEnd, RulesOK
        <5> QED
          BY <2>1, <4>3, <5>1, LoadedIsStored, Zenon
      <4> QED
        BY <3>2, <4>1, <4>2, <4>3, Zenon DEF ApplyEnd
    <3>3. CASE Resume
      <4>1. rules'.current = rules.current /\ kernel' = FeedContents(rules.current) /\ ~panic'
        BY <3>3, Zenon DEF Resume
      <4> QED
        BY <2>1, <4>1, LoadedIsStored, Zenon
    <3> QED
      BY <1>1, <3>1, <3>2, <3>3, Zenon
  <2>4. SlotInv'
    BY <2>2, Zenon DEF SlotInv
  <2>8. TableInv'
    <3>1. CASE panic' = panic /\ UNCHANGED <<kernel, history>> /\ (panic \/ UNCHANGED rules)
      BY <2>1, <2>2, <3>1, TableStays, Zenon
    <3>2. CASE /\ ~panic' /\ DOMAIN kernel' = rules'.current
               /\ \A k \in rules'.current : kernel'[k] = Copy(k)'
      BY <2>2, <3>2, TableLoads, Zenon DEF Copy
    <3> QED
      BY <2>3, <3>1, <3>2, Zenon DEF Copy
  <2> QED
    BY <2>4, <2>8
<1>2. CASE Panic
  BY <1>2, Zenon DEF Panic, SlotInv, TableInv
<1>3. CASE CoreRestart
  <2>1. \A k \in Feed : job'[k].pc \notin {"kernel", "put"}
    BY <1>3, CoreRestartDoes, Zenon
  <2> DEFINE now == IF slot = "apply" THEN rules.backup ELSE rules.current
  <2>2. /\ rules' = [rules EXCEPT !.current = now] /\ panic' = panic
        /\ kernel' = IF panic THEN NoTable
                     ELSE [id \in now |-> IF id \in DOMAIN store' THEN store'[id] ELSE None]
    BY <1>3, Zenon DEF CoreRestart
  <2> HIDE DEF now
  <2>3. rules'.current = now
    BY <2>2, Zenon DEF RulesOK
  <2>4. ~panic => DOMAIN kernel' = rules'.current /\ \A k \in rules'.current : kernel'[k] = Copy(k)'
    BY <2>2, <2>3, Zenon DEF Copy
  <2>5. SlotInv'
    BY <2>1, Zenon DEF SlotInv
  <2>6. TableInv'
    BY <2>1, <2>2, <2>4, Zenon DEF TableInv
  <2> QED
    BY <2>5, <2>6
<1> QED
  BY <1>1, <1>2, <1>3, Zenon DEF CoreSteps

\* Put keeps the copies it was told to, and changes no other.
LEMMA PutKeeps ==
  ASSUME NEW id, NEW list, NEW keep, Put(id, list, keep)
  PROVE  /\ id \in DOMAIN store' /\ store'[id] = list
         /\ DOMAIN store' \subseteq DOMAIN store \cup {id}
         /\ \A k \in DOMAIN store' : k # id => store'[k] = store[k]
         /\ \A k \in keep : k # id => Copy(k)' = Copy(k)
BY Zenon DEF Put, Copy

\* The list the kernel holds is stored.
LEMMA TableStored ==
  ASSUME NEW id \in Feed, TableInv, \A k \in Feed : job'[k].pc \notin {"kernel", "put"},
         job[id].pc = "put", rules.current \subseteq job[id].keep, UNCHANGED <<rules, panic, kernel>>,
         Put(id, job[id].list, job[id].keep), history'.unstored = history.unstored \ {id}
  PROVE  TableInv'
<1>0. /\ DOMAIN store' = (DOMAIN store \cap job[id].keep) \cup {id} /\ store'[id] = job[id].list
      /\ \A k \in DOMAIN store \cap job[id].keep : k # id => store'[k] = store[k]
  BY Zenon DEF Put
<1>1. \A k \in rules.current : k # id => Copy(k)' = Copy(k)
  BY <1>0, Zenon DEF Copy
<1>2. Copy(id)' = job[id].list
  BY <1>0, Zenon DEF Copy
<1>3. CASE panic
  BY <1>3, Zenon DEF TableInv
<1>4. CASE ~panic
  <2>1. ~panic' /\ DOMAIN kernel' = rules'.current
    BY <1>4, Zenon DEF TableInv
  <2>2. ASSUME NEW k \in rules'.current PROVE k \in history'.unstored \/ kernel'[k] = Copy(k)'
    <3>1. CASE k = id
      BY <1>2, <1>4, <3>1, Zenon DEF TableInv
    <3>2. CASE k # id
      BY <1>1, <1>4, <3>2, Zenon DEF TableInv
    <3> QED
      BY <3>1, <3>2
  <2> QED
    BY <2>1, <2>2, Zenon DEF TableInv
<1> QED
  BY <1>3, <1>4

\* UPDATE_FEED claims the slot, loads the kernel's set and stores the list in this
\* order; every interruption leaves what slot and table promise.
LEMMA UpdateKeeps ==
  ASSUME StoredInv, NEW id \in Feed, UpdateFeed(id) \/ ReplaceFeedSet(id) \/ StoreFeed(id)
  PROVE  SlotInv' /\ TableInv'
<1> USE DEF StoredInv
<1>1. CASE UpdateFeed(id)
  <2>1. CASE job'[id].pc = "reply" /\ UNCHANGED <<slot, store>>
    <3>1. Aside
      BY <1>1, <2>1, UpdateFeedDoes, Zenon DEF Aside, Moved
    <3> QED
      BY <3>1, AsideKeeps, Zenon
  <2>2. CASE job'[id].pc = "reply" /\ id \in DOMAIN store /\ Put(id, store[id], FeedIDs) /\ UNCHANGED slot
    <3>1. \A k \in Feed : job'[k].pc \in {"kernel", "put"} => job'[k] = job[k]
      BY <1>1, <2>2, UpdateFeedDoes, Zenon DEF Moved
    <3>2. UNCHANGED <<rules, panic, kernel>> /\ history'.unstored = history.unstored
      BY <1>1, UpdateFeedDoes, Zenon
    <3>3. \A k \in rules.current : Copy(k)' = Copy(k)
      <4>1. Copy(id)' = Copy(id)
        BY <2>2, PutKeeps, Zenon DEF Copy
      <4>2. \A k \in FeedIDs : k # id => Copy(k)' = Copy(k)
        BY <2>2, PutKeeps, Zenon
      <4>3. rules.current \subseteq FeedIDs
        BY Zenon DEF FeedIDs
      <4> QED
        BY <4>1, <4>2, <4>3, Zenon
    <3>4. SlotInv'
      BY <2>2, <3>1, <3>2, Zenon DEF SlotInv
    <3>5. TableInv'
      BY <3>1, <3>2, <3>3, Zenon DEF TableInv
    <3> QED
      BY <3>4, <3>5
  <2>3. CASE /\ slot = "free" /\ slot' = id /\ UNCHANGED store /\ job'[id].keep = FeedIDs
             /\ job'[id].pc = IF id \in rules.current THEN "kernel" ELSE "put"
    <3>1. \A k \in Feed : k # id => job'[k].pc \notin {"kernel", "put"}
      BY <1>1, <2>3, NoneAtWork, UpdateFeedDoes, Zenon DEF Moved
    <3>2. UNCHANGED <<rules, panic, kernel>> /\ history'.unstored = history.unstored
      BY <1>1, UpdateFeedDoes, Zenon
    <3>3. SlotInv'
      BY <2>3, <3>1, <3>2, Zenon DEF SlotInv, FeedIDs
    <3>4. TableInv'
      BY <2>3, <3>1, <3>2, Zenon DEF TableInv, Copy
    <3> QED
      BY <3>3, <3>4
  <2> QED
    BY <1>1, <2>1, <2>2, <2>3, UpdateFeedDoes, Zenon
<1>2. CASE ReplaceFeedSet(id)
  <2>0. /\ slot = id /\ id \in rules.current /\ UNCHANGED <<rules, panic, store>>
        /\ rules.current \subseteq job[id].keep
    BY <1>2, ReplaceFeedSetDoes, Zenon DEF SlotInv
  <2>1. \A k \in Feed : k # id => job'[k] = job[k] /\ job[k].pc \notin {"kernel", "put"}
    BY <1>2, <2>0, ReplaceFeedSetDoes, Zenon DEF Moved, SlotInv
  <2>2. CASE job'[id].pc = "reply" /\ UNCHANGED <<kernel, history>>
    <3>1. SlotInv'
      BY <2>1, <2>2, Zenon DEF SlotInv
    <3>2. TableInv'
      BY <2>0, <2>1, <2>2, Zenon DEF TableInv, Copy
    <3> QED
      BY <3>1, <3>2
  <2>3. CASE /\ job'[id].pc = "put" /\ job'[id].keep = job[id].keep /\ job'[id].list = job[id].list
             /\ ~panic /\ kernel' = [kernel EXCEPT ![id] = job[id].list] /\ slot' = slot
             /\ history'.unstored = history.unstored \cup {id}
    <3>1. SlotInv'
      BY <2>0, <2>1, <2>3, Zenon DEF SlotInv
    <3>2. /\ DOMAIN kernel' = rules.current /\ kernel'[id] = job[id].list
          /\ \A k \in rules.current : k # id => kernel'[k] = kernel[k]
      BY <2>0, <2>3, Zenon DEF TableInv
    <3>3. TableInv'
      BY <2>0, <2>1, <2>3, <3>2, Zenon DEF TableInv, Copy
    <3> QED
      BY <3>1, <3>3
  <2> QED
    BY <1>2, <2>2, <2>3, ReplaceFeedSetDoes, Zenon
<1>3. CASE StoreFeed(id)
  <2>0. /\ slot = id /\ UNCHANGED <<rules, panic, kernel>> /\ rules.current \subseteq job[id].keep
        /\ job[id].pc = "put" /\ job'[id].pc = "reply"
    BY <1>3, StoreFeedDoes, Zenon DEF SlotInv
  <2>1. \A k \in Feed : job'[k].pc \notin {"kernel", "put"}
    BY <1>3, <2>0, StoreFeedDoes, Zenon DEF Moved, SlotInv
  <2>2. SlotInv'
    BY <2>1, Zenon DEF SlotInv
  <2>3. CASE UNCHANGED <<store, history>>
    BY <2>0, <2>1, <2>2, <2>3, TableStays, Zenon
  <2>4. CASE Put(id, job[id].list, job[id].keep) /\ history'.unstored = history.unstored \ {id}
    <3>1. TableInv'
      BY <2>0, <2>1, <2>4, TableStored, Zenon
    <3> QED
      BY <2>2, <3>1
  <2> QED
    BY <1>3, <2>3, <2>4, StoreFeedDoes, Zenon
<1> QED
  BY <1>1, <1>2, <1>3

\* What slot, table and file promise each other holds in every state.
LEMMA StoredAlways == Spec => []StoredInv
<1>1. Init => StoredInv
  <2> SUFFICES ASSUME Init PROVE StoredInv
    OBVIOUS
  <2>1. JobsOK /\ \A id \in Feed : job[id].pc = "idle"
    BY IdleShape, Zenon DEF Init, JobsOK
  <2>2. HeldOK
    BY Zenon DEF Init, HeldOK
  <2>3. RulesOK /\ HistoryOK /\ rules.current = {}
    BY Zenon DEF Init, RulesOK, HistoryOK
  <2>4. SlotInv
    BY <2>1, Zenon DEF SlotInv
  <2>5. TableInv
    BY <2>1, <2>3, Zenon DEF Init, TableInv
  <2> QED
    BY <2>1, <2>2, <2>3, <2>4, <2>5, Zenon DEF StoredInv
<1>2. StoredInv /\ [Next]_vars => StoredInv'
  <2> SUFFICES ASSUME StoredInv, [Next]_vars PROVE StoredInv'
    OBVIOUS
  <2>1. CASE Next
    <3>1. SlotInv' /\ TableInv'
      BY <2>1, AsideSteps, AsideKeeps, CoreKeeps, UpdateKeeps, Zenon DEF StoredInv
    <3> QED
      BY <2>1, <3>1, FeedJobs, FeedHeld, FeedRecords, Zenon DEF StoredInv
  <2>2. CASE UNCHANGED vars
    BY <2>2, Zenon DEF StoredInv, vars, core, web, JobsOK, HeldOK, RulesOK, HistoryOK, SlotInv, TableInv, Copy
  <2> QED
    BY <2>1, <2>2
<1> QED
  BY <1>1, <1>2, PTL DEF Spec

\* KernelIsStored for any number of feeds, applies, panics, restarts and failures of
\* the core and of the web process: outside an update a live feed's set holds its
\* stored copy, but for a copy the kernel took and feeds.json did not (UpdateFeed).
THEOREM FeedsStored == Spec => []KernelIsStored
<1>1. StoredInv => KernelIsStored
  BY Zenon DEF StoredInv, TableInv, KernelIsStored
<1> QED
  BY <1>1, StoredAlways, PTL

\* The watch of a feed and the count of its refusals, before and after a step.
Counted(id) ==
  IF history.small[id] < 3 THEN history.small[id] + 1 ELSE 3
Watched(id) ==
  [watch[id] EXCEPT !.seen = IF watch[id].seen < 3 THEN watch[id].seen + 1 ELSE 3]

\* Who changes a watch: a day, a start, a version confirmed or stored, a refusal.
LEMMA WatchSteps ==
  ASSUME HistoryOK, Next
  PROVE  \/ watch' = watch /\ history'.small = history.small
         \/ DayPasses /\ history'.small = history.small
         \/ watch' = [id \in Feed |-> NoWatch] /\ history'.small = history.small
         \/ \E id \in Feed : EndWatch(id) /\ history'.small = [history.small EXCEPT ![id] = 0]
         \/ \E id \in Feed : /\ watch' = [watch EXCEPT ![id] = Watched(id)]
                             /\ history'.small = [history.small EXCEPT ![id] = Counted(id)]
<1> DEFINE Still == watch' = watch /\ history'.small = history.small
<1>1. ASSUME NEW id \in Feed, SwitchFeed(id) \/ Pass(id) \/ RefreshNow(id) \/ LoseReply(id) PROVE Still
  BY <1>1, Zenon DEF SwitchFeed, Pass, RefreshNow, LoseReply, core
<1>2. ASSUME NEW id \in Feed, ReadCopy(id) \/ ReadState(id) \/ Fetch(id) \/ Reply(id) PROVE Still
  BY <1>2, Zenon DEF ReadCopy, ReadState, Fetch, Reply, core
<1>3. ASSUME NEW id \in Feed, ReplaceFeedSet(id) PROVE Still
  <2>1. \/ UNCHANGED history
        \/ history' = [history EXCEPT !.unstored = @ \cup {id}]
    BY <1>3, Zenon DEF ReplaceFeedSet
  <2>2. history'.small = history.small
    BY <2>1, Zenon DEF HistoryOK
  <2> QED
    BY <1>3, <2>2, Zenon DEF ReplaceFeedSet
<1>4. ASSUME NEW id \in Feed, StoreFeed(id)
      PROVE  \/ Still
             \/ EndWatch(id) /\ history'.small = [history.small EXCEPT ![id] = 0]
  <2>1. \/ UNCHANGED <<watch, history>>
        \/ EndWatch(id) /\ history' = [history EXCEPT !.unstored = @ \ {id}, !.small[id] = 0]
    BY <1>4, Zenon DEF StoreFeed
  <2>2. ASSUME history' = [history EXCEPT !.unstored = @ \ {id}, !.small[id] = 0]
        PROVE  history'.small = [history.small EXCEPT ![id] = 0]
    BY <2>2, Zenon DEF HistoryOK
  <2> QED
    BY <2>1, <2>2, Zenon
<1>5. ASSUME NEW id \in Feed, UpdateFeed(id)
      PROVE  \/ Still
             \/ EndWatch(id) /\ history'.small = [history.small EXCEPT ![id] = 0]
             \/ /\ watch' = [watch EXCEPT ![id] = Watched(id)]
                /\ history'.small = [history.small EXCEPT ![id] = Counted(id)]
  <2>1. \/ UNCHANGED <<watch, history>>
        \/ EndWatch(id) /\ history' = [history EXCEPT !.small[id] = 0]
        \/ /\ watch' = [watch EXCEPT ![id] = Watched(id)]
           /\ history' = [history EXCEPT !.small[id] = IF @ < 3 THEN @ + 1 ELSE 3]
    BY <1>5, Zenon DEF UpdateFeed, Watched, core
  <2>2. ASSUME history' = [history EXCEPT !.small[id] = 0]
        PROVE  history'.small = [history.small EXCEPT ![id] = 0]
    BY <2>2, Zenon DEF HistoryOK
  <2>3. ASSUME history' = [history EXCEPT !.small[id] = IF @ < 3 THEN @ + 1 ELSE 3]
        PROVE  history'.small = [history.small EXCEPT ![id] = Counted(id)]
    BY <2>3, Zenon DEF HistoryOK, Counted
  <2> QED
    BY <2>1, <2>2, <2>3, Zenon
<1>6. ASSUME NEW id, NEW u, SaveOwnFeed(id, u) PROVE Still
  <2>1. watch' = watch /\ \E x : history' = [history EXCEPT !.crossed = x]
    BY <1>6, Zenon DEF SaveOwnFeed, core
  <2> QED
    BY <2>1, Zenon DEF HistoryOK
<1>7. ASSUME Loaded PROVE history'.small = history.small
  BY <1>7, Zenon DEF Loaded, HistoryOK
<1>8. ASSUME ApplyStart \/ ApplyEnd \/ Panic \/ Resume PROVE Still
  <2>1. watch' = watch /\ (Loaded \/ UNCHANGED history)
    BY <1>8, Zenon DEF ApplyStart, ApplyEnd, Panic, Resume
  <2> QED
    BY <2>1, <1>7, Zenon
<1>9. ASSUME CoreRestart PROVE watch' = [id \in Feed |-> NoWatch] /\ history'.small = history.small
  <2>1. watch' = [id \in Feed |-> NoWatch] /\ Loaded
    BY <1>9, Zenon DEF CoreRestart
  <2> QED
    BY <2>1, <1>7, Zenon
<1>10. ASSUME OtherSteps PROVE Still \/ (DayPasses /\ history'.small = history.small)
  BY <1>10, Zenon DEF OtherSteps, DayPasses, WebRestart, DropSwitchedOff, Publish, core
<1> HIDE DEF Still
<1>11. ASSUME NEW id \in Feed, FeedSteps(id)
       PROVE  \/ Still
              \/ EndWatch(id) /\ history'.small = [history.small EXCEPT ![id] = 0]
              \/ /\ watch' = [watch EXCEPT ![id] = Watched(id)]
                 /\ history'.small = [history.small EXCEPT ![id] = Counted(id)]
  BY <1>11, <1>1, <1>2, <1>3, <1>4, <1>5, Zenon DEF FeedSteps, Step
<1>12. CASE CoreSteps
  BY <1>12, <1>8, <1>9, Zenon DEF CoreSteps, Still
<1>13. CASE OtherSteps
  BY <1>13, <1>10, Zenon DEF Still
<1>14. CASE \E id \in Feed : FeedSteps(id)
  BY <1>14, <1>11, Zenon DEF Still
<1>15. CASE \E id \in OwnFeed : \E u \in Url \cup {None} : SaveOwnFeed(id, u)
  BY <1>15, <1>6, Zenon DEF Still
<1> QED
  BY <1>12, <1>13, <1>14, <1>15, FeedStepKinds, Zenon

\* ShrinkEarned for any number of feeds, restarts of the core, days and edits between
\* the refusals: the count UpdateFeed goes by never runs ahead of the refusals there
\* were, so the third small version in a row is the first that can be taken.
THEOREM FeedsShrinkEarned == Spec => ShrinkEarned
<1>1. Init => WatchInv
  <2> SUFFICES ASSUME Init PROVE WatchInv
    OBVIOUS
  <2>1. HistoryOK /\ history.small = [id \in Feed |-> 0] /\ watch = [id \in Feed |-> NoWatch]
    BY Zenon DEF Init, HistoryOK
  <2>2. NoWatch = [f \in {"seen", "day"} |-> NoWatch[f]] /\ NoWatch.seen = 0
    BY Zenon DEF NoWatch
  <2>3. 0 \in Nat /\ 0 <= 0
    OBVIOUS
  <2> QED
    BY <2>1, <2>2, <2>3, Zenon DEF WatchInv
<1>2. StoredInv /\ StoredInv' /\ WatchInv /\ [Next]_vars => WatchInv'
  <2> SUFFICES ASSUME StoredInv, StoredInv', WatchInv, [Next]_vars PROVE WatchInv'
    OBVIOUS
  <2>1. HistoryOK /\ HistoryOK'
    BY Zenon DEF StoredInv
  <2>2. ASSUME watch' = watch, history'.small = history.small PROVE WatchInv'
    BY <2>1, <2>2, Zenon DEF WatchInv
  <2>3. ASSUME NEW id \in Feed, NEW w, NEW n, w = [f \in {"seen", "day"} |-> w[f]],
               w.seen \in Nat, n \in Nat, w.seen <= n, watch' = [watch EXCEPT ![id] = w],
               history'.small = [history.small EXCEPT ![id] = n]
        PROVE  WatchInv'
    BY <2>1, <2>3, Zenon DEF WatchInv
  <2>4. ASSUME NEW id \in Feed
        PROVE  /\ NoWatch = [f \in {"seen", "day"} |-> NoWatch[f]] /\ NoWatch.seen = 0
               /\ 0 \in Nat /\ 0 <= 0
               /\ Watched(id) = [f \in {"seen", "day"} |-> Watched(id)[f]]
               /\ Watched(id).seen \in Nat /\ Counted(id) \in Nat /\ Watched(id).seen <= Counted(id)
    <3>1. /\ watch[id] = [f \in {"seen", "day"} |-> watch[id][f]]
          /\ watch[id].seen \in Nat /\ history.small[id] \in Nat /\ watch[id].seen <= history.small[id]
      BY Zenon DEF WatchInv
    <3>2. NoWatch = [f \in {"seen", "day"} |-> NoWatch[f]] /\ NoWatch.seen = 0
      BY Zenon DEF NoWatch
    <3>3. /\ Watched(id) = [f \in {"seen", "day"} |-> Watched(id)[f]]
          /\ Watched(id).seen = IF watch[id].seen < 3 THEN watch[id].seen + 1 ELSE 3
      BY <3>1, Zenon DEF Watched
    <3> DEFINE m == watch[id].seen
               n == history.small[id]
               v == Watched(id).seen
    <3>4. m \in Nat /\ n \in Nat /\ m <= n /\ v = IF m < 3 THEN m + 1 ELSE 3
      BY <3>1, <3>3, Zenon
    <3>5. Counted(id) = IF n < 3 THEN n + 1 ELSE 3
      BY Zenon DEF Counted
    <3> HIDE DEF m, n, v
    <3>6. v \in Nat /\ Counted(id) \in Nat /\ v <= Counted(id) /\ 0 \in Nat /\ 0 <= 0
      BY <3>4, <3>5, SMT
    <3> QED
      BY <3>2, <3>3, <3>6, Zenon DEF v
  <2>5. CASE UNCHANGED vars
    BY <2>2, <2>5, Zenon DEF vars, core
  <2>6. CASE DayPasses /\ history'.small = history.small
    <3>1. watch' = [id \in Feed |-> [watch[id] EXCEPT !.day = watch[id].seen > 0]]
      BY <2>6, Zenon DEF DayPasses
    <3>2. \A id \in Feed : /\ watch'[id] = [f \in {"seen", "day"} |-> watch'[id][f]]
                           /\ watch'[id].seen = watch[id].seen
      BY <3>1, Zenon DEF WatchInv
    <3>3. watch' = [id \in Feed |-> watch'[id]]
      BY <3>1, Zenon
    <3> QED
      BY <2>1, <2>6, <3>2, <3>3, Zenon DEF WatchInv
  <2>7. CASE watch' = [id \in Feed |-> NoWatch] /\ history'.small = history.small
    <3>1. \A id \in Feed : /\ watch'[id] = [f \in {"seen", "day"} |-> watch'[id][f]]
                           /\ watch'[id].seen = 0 /\ watch'[id].seen \in Nat
      BY <2>4, <2>7, Zenon
    <3>2. \A id \in Feed : 0 <= history.small[id]
      <4>1. \A id \in Feed : history.small[id] \in Nat
        BY Zenon DEF WatchInv
      <4> QED
        BY <4>1, SMT
    <3>3. watch' = [id \in Feed |-> watch'[id]]
      BY <2>7, Zenon
    <3> QED
      BY <2>1, <2>7, <3>1, <3>2, <3>3, Zenon DEF WatchInv
  <2>8. CASE \E id \in Feed : EndWatch(id) /\ history'.small = [history.small EXCEPT ![id] = 0]
    <3>1. PICK id \in Feed : /\ watch' = [watch EXCEPT ![id] = NoWatch]
                             /\ history'.small = [history.small EXCEPT ![id] = 0]
      BY <2>8, Zenon DEF EndWatch
    <3>2. NoWatch.seen \in Nat /\ 0 \in Nat /\ NoWatch.seen <= 0
      BY <2>4, <3>1, Zenon
    <3>3. NoWatch = [f \in {"seen", "day"} |-> NoWatch[f]]
      BY <2>4, <3>1, Zenon
    <3> QED
      BY <2>3, <3>1, <3>2, <3>3, Zenon
  <2>9. CASE \E id \in Feed : /\ watch' = [watch EXCEPT ![id] = Watched(id)]
                              /\ history'.small = [history.small EXCEPT ![id] = Counted(id)]
    BY <2>3, <2>4, <2>9, Zenon
  <2> QED
    BY <2>1, <2>2, <2>5, <2>6, <2>7, <2>8, <2>9, WatchSteps, Zenon
<1>3. ASSUME StoredInv, WatchInv, [Next]_vars, NEW id \in Feed \ CountryFeed,
             slot = "free", slot' = id, id \in rules.current, id \in DOMAIN store,
             Shrinks(Entries[store[id]], Entries[job[id].list])
      PROVE  history.small[id] >= 2 /\ watch[id].day
  <2>1. id # "free" /\ id # "apply" /\ slot' # slot
    BY <1>3, FeedAssumption, Zenon
  <2>2. UpdateFeed(id)
    <3>1. Next
      BY <1>3, <2>1, Zenon DEF vars, core
    <3>2. ~CoreSteps
      BY <1>3, <2>1, Zenon DEF CoreSteps, ApplyStart, ApplyEnd, Panic, Resume, CoreRestart
    <3>3. ~OtherSteps
      BY <2>1, Zenon DEF OtherSteps, DayPasses, WebRestart, DropSwitchedOff, Publish, core
    <3>4. \A k, u : ~SaveOwnFeed(k, u)
      BY <2>1, Zenon DEF SaveOwnFeed, core
    <3>5. \A k : ~(SwitchFeed(k) \/ Pass(k) \/ RefreshNow(k) \/ LoseReply(k))
      BY <2>1, Zenon DEF SwitchFeed, Pass, RefreshNow, LoseReply, core
    <3>6. \A k : ~(ReadCopy(k) \/ ReadState(k) \/ Fetch(k) \/ Reply(k))
      BY <2>1, Zenon DEF ReadCopy, ReadState, Fetch, Reply, core
    <3>7. \A k : ~(ReplaceFeedSet(k) \/ StoreFeed(k))
      BY <1>3, <2>1, Zenon DEF ReplaceFeedSet, StoreFeed
    <3>8. PICK k \in Feed : UpdateFeed(k)
      BY <3>1, <3>2, <3>3, <3>4, <3>5, <3>6, <3>7, FeedStepKinds, Zenon DEF FeedSteps, Step
    <3>9. slot' \in {slot, k}
      BY <3>8, Zenon DEF UpdateFeed, core
    <3> QED
      BY <1>3, <2>1, <3>8, <3>9, Zenon
  <2>3. ShrinkAccepted(Watched(id))
    BY <1>3, <2>1, <2>2, Zenon DEF UpdateFeed, core, Watched
  <2>4. /\ watch[id] = [f \in {"seen", "day"} |-> watch[id][f]]
        /\ watch[id].seen \in Nat /\ history.small[id] \in Nat /\ watch[id].seen <= history.small[id]
    BY <1>3, Zenon DEF WatchInv
  <2>5. /\ Watched(id).seen = IF watch[id].seen < 3 THEN watch[id].seen + 1 ELSE 3
        /\ Watched(id).day = watch[id].day
    BY <2>4, Zenon DEF Watched
  <2>6. watch[id].day /\ (IF watch[id].seen < 3 THEN watch[id].seen + 1 ELSE 3) >= 3
    BY <2>3, <2>5, Zenon DEF ShrinkAccepted
  <2> DEFINE m == watch[id].seen
             n == history.small[id]
  <2>7. m \in Nat /\ n \in Nat /\ m <= n /\ (IF m < 3 THEN m + 1 ELSE 3) >= 3
    BY <2>4, <2>6, Zenon
  <2> HIDE DEF m, n
  <2>8. n >= 2
    BY <2>7, SMT
  <2> QED
    BY <2>6, <2>8, Zenon DEF n
<1>4. StoredInv /\ WatchInv /\ [Next]_vars =>
        [\A id \in Feed \ CountryFeed :
           /\ slot = "free" /\ slot' = id /\ id \in rules.current /\ id \in DOMAIN store
           /\ Shrinks(Entries[store[id]], Entries[job[id].list])
           => history.small[id] >= 2 /\ watch[id].day]_vars
  BY <1>3, Zenon
<1> QED
  BY <1>1, <1>2, <1>4, StoredAlways, PTL DEF Spec, ShrinkEarned

\* The addresses publish newer versions only.
Grows(r, q) == \A u \in Url : r[u] \in Nat /\ q[u] \in Nat /\ r[u] <= q[u]

\* What was published stays so.
LEMMA PublishedGrows ==
  ASSUME NEW r, NEW q, Grows(r, q), NEW l, Published(l, r) PROVE Published(l, q)
<1>1. PICK u \in Url, n \in 1..MaxVersion : l = <<u, n>>
  BY SMT DEF Published, List
<1>2. r[u] \in Nat /\ q[u] \in Nat /\ r[u] <= q[u] /\ n <= r[u] /\ MaxVersion \in Nat
  BY <1>1, FeedAssumption, SMT DEF Grows, Published
<1>3. n <= q[u]
  BY <1>2, SMT
<1> QED
  BY <1>1, <1>3, SMT DEF Published

\* A list is not None, and is the pair of its address and its version.
LEMMA ListFacts ==
  ASSUME NEW l \in List
  PROVE  l # None /\ l[1] \in Url /\ l[2] \in Nat /\ l = <<l[1], l[2]>>
<1>1. l # None
  BY FeedAssumption, Zenon
<1>2. PICK u \in Url, n \in 1..MaxVersion : l = <<u, n>>
  BY SMT DEF List
<1>3. n \in Nat
  BY <1>2, FeedAssumption, SMT
<1> QED
  BY <1>1, <1>2, <1>3, SMT

\* What a server publishes now, against what was read from it before: a 304 says
\* that the version the validators are of is still the one published.
LEMMA Latest ==
  ASSUME NEW r, NEW u \in Url, r[u] \in 1..MaxVersion
  PROVE  /\ Published(<<u, r[u]>>, r)
         /\ \A v : Published(v, r) /\ v[1] = u => NotNewer(v, <<u, r[u]>>)
         /\ \A v, c : /\ Published(v, r) /\ v[1] = u /\ Published(c, r) /\ NotNewer(v, c)
                      /\ (r[u] <= v[2] \/ v = <<u, r[u]>>)
                      => v = <<u, r[u]>> /\ c = <<u, r[u]>>
<1>1. Published(<<u, r[u]>>, r)
  <2>1. <<u, r[u]>> \in List
    BY Zenon DEF List
  <2>2. r[u] <= r[u]
    BY SMT
  <2> QED
    BY <2>1, <2>2, SMT DEF Published
<1>2. ASSUME NEW v, Published(v, r), v[1] = u PROVE NotNewer(v, <<u, r[u]>>)
  BY <1>2, SMT DEF Published, NotNewer
<1>3. ASSUME NEW v, NEW c, Published(v, r), v[1] = u, Published(c, r), NotNewer(v, c),
             r[u] <= v[2] \/ v = <<u, r[u]>>
      PROVE  v = <<u, r[u]>> /\ c = <<u, r[u]>>
  <2>1. /\ v[2] \in Nat /\ c[2] \in Nat /\ v = <<v[1], v[2]>> /\ c = <<c[1], c[2]>>
        /\ v[2] <= r[u] /\ c[1] = u /\ v[2] <= c[2] /\ c[2] <= r[u]
    BY <1>3, ListFacts, Zenon DEF Published, NotNewer
  <2>2. r[u] \in Nat
    BY FeedAssumption, SMT
  <2>3. r[u] <= v[2]
    BY <1>3, <2>1, <2>2, SMT
  <2>4. v[2] = r[u] /\ c[2] = r[u]
    BY <2>1, <2>2, <2>3, SMT
  <2> QED
    BY <1>3, <2>1, <2>4, Zenon
<1> QED
  BY <1>1, <1>2, <1>3, Zenon

\* Nothing of the feed itself happens: a list is published, a copy dropped, or the
\* state file written.
LEMMA ViewKept ==
  ASSUME NEW r, NEW q, NEW a, NEW c, NEW d, NEW f, NEW s, NEW t, NEW j, NEW p,
         View(r, a, c, f, s, j, p), Grows(r, q), d \in {c, None}, t \in {s, f}
  PROVE  View(q, a, d, f, t, j, p)
<1>1. \A l : Published(l, r) => Published(l, q)
  BY PublishedGrows, Zenon
<1>2. \A v : Valid(v, r, a, c) => Valid(v, q, a, d)
  BY <1>1, Zenon DEF Valid
<1>3. \A x : Carries(x, r, a, c, f, s) => Carries(x, q, a, d, f, t)
  BY <1>1, Zenon DEF Carries
<1>4. Valid(f, r, a, c) /\ Valid(s, r, a, c) /\ a \in Url \cup {None} /\ (c # None => Published(c, r))
  BY Zenon DEF View
<1>5. Valid(f, q, a, d) /\ Valid(t, q, a, d) /\ (d # None => Published(d, q))
  BY <1>1, <1>2, <1>4, Zenon
<1> QED
  BY <1>2, <1>3, <1>4, <1>5, Zenon DEF View

\* The refresh ends.
LEMMA ViewIdle ==
  ASSUME NEW r, NEW a, NEW c, NEW f, NEW s, NEW j, NEW p, NEW i, View(r, a, c, f, s, j, p),
         i.pc = "idle", i.answer # "ok"
  PROVE  View(r, a, c, f, s, i, p)
BY Zenon DEF View

\* Before the fetch: the copy is looked up, then the validators.
LEMMA ViewBefore ==
  ASSUME NEW r, NEW a, NEW c, NEW f, NEW s, NEW j, NEW p, NEW i, View(r, a, c, f, s, j, p),
         j.pc \in {"copy", "state"}, i.pc \in {"state", "fetch"}, i.url = j.url, i.same = j.same,
         i.answer = j.answer, i.val \in {j.val, f}
  PROVE  View(r, a, c, f, s, i, p)
<1>1. Valid(j.val, r, a, c) /\ Valid(f, r, a, c) /\ ~i.same /\ i.url = a /\ a # None /\ i.answer # "ok"
  BY Zenon DEF View
<1>2. Valid(i.val, r, a, c)
  BY <1>1, Zenon
<1>3. p.pc # "deliver"
  BY Zenon DEF View
<1> QED
  BY <1>1, <1>2, <1>3, Zenon DEF View

\* The source answers: 304 to the validators sent, or a list.
LEMMA ViewFetch ==
  ASSUME NEW r, NEW a, NEW c, NEW f, NEW s, NEW j, NEW p, NEW i, View(r, a, c, f, s, j, p),
         \A u \in Url : r[u] \in 1..MaxVersion,
         j.pc = "fetch", i.pc = "deliver", i.answer = j.answer, i.list = <<j.url, r[j.url]>>,
         \/ /\ i.val = j.val /\ j.val # None
            /\ r[j.url] <= j.val[2] \/ j.val = <<j.url, r[j.url]>>
         \/ i.same = j.same /\ i.val \in {None, i.list}
  PROVE  View(r, a, c, f, s, i, p)
<1>1. /\ Valid(f, r, a, c) /\ Valid(s, r, a, c) /\ Valid(j.val, r, a, c) /\ (c # None => Published(c, r))
      /\ a \in Url /\ j.url = a /\ ~j.same /\ i.answer # "ok" /\ p.pc # "deliver"
  BY Zenon DEF View
<1> DEFINE l == <<a, r[a]>>
<1>2. Published(l, r) /\ i.list = l
  BY <1>1, Latest, Zenon
<1>10. \A v : Published(v, r) /\ v[1] = a => NotNewer(v, l)
  BY <1>1, Latest, Zenon
<1>11. ASSUME NEW v, NEW w, Published(v, r), v[1] = a, Published(w, r), NotNewer(v, w),
              r[a] <= v[2] \/ v = l
       PROVE  v = l /\ w = l
  BY <1>1, <1>11, Latest, Zenon
<1>3. l[1] = a
  BY SMT
<1> HIDE DEF l
<1>4. \A v : v # None /\ Valid(v, r, a, c) => NotNewer(v, l)
  BY <1>10, Zenon DEF Valid
<1>5. i.val \in {None, i.list} /\ (i.same => c \in {None, i.list})
  <2>1. CASE i.val = j.val /\ j.val # None /\ (r[a] <= j.val[2] \/ j.val = l)
    <3>1. Published(j.val, r) /\ j.val[1] = a /\ (c # None => NotNewer(j.val, c))
      BY <1>1, <2>1, Zenon DEF Valid
    <3>2. j.val = i.list
      <4>1. NotNewer(j.val, j.val)
        <5>1. j.val[2] \in Nat
          BY <3>1, ListFacts, Zenon DEF Published
        <5> QED
          BY <5>1, SMT DEF NotNewer
      <4> QED
        BY <1>2, <1>11, <2>1, <3>1, <4>1, Zenon
    <3>3. c # None => c = i.list
      BY <1>1, <1>2, <1>11, <2>1, <3>1, Zenon
    <3> QED
      BY <2>1, <3>2, <3>3, Zenon
  <2>2. CASE i.same = j.same /\ i.val \in {None, i.list}
    BY <1>1, <2>2, Zenon
  <2> QED
    BY <1>1, <2>1, <2>2, Zenon DEF l
<1>6. Carries(i, r, a, c, f, s)
  BY <1>1, <1>2, <1>3, <1>4, <1>5, Zenon DEF Carries
<1> QED
  BY <1>1, <1>6, Zenon DEF View

\* The core answers, or goes on; it confirms only a copy a 304 was about.
LEMMA ViewAnswer ==
  ASSUME NEW r, NEW a, NEW c, NEW f, NEW s, NEW j, NEW p, NEW i, View(r, a, c, f, s, j, p),
         j.pc \in {"deliver", "kernel", "put", "reply"}, i.pc \in {"kernel", "put", "reply"},
         i.val = j.val, i.same = j.same, i.list = j.list,
         i.answer = "ok" => i.pc = "reply" /\ j.same
  PROVE  View(r, a, c, f, s, i, p)
<1>1. Carries(j, r, a, c, f, s) /\ p.pc # "deliver"
  BY Zenon DEF View
<1>2. Carries(i, r, a, c, f, s)
  BY <1>1, Zenon DEF Carries
<1> QED
  BY <1>1, <1>2, Zenon DEF View

\* The file takes the list.
LEMMA ViewPut ==
  ASSUME NEW r, NEW a, NEW c, NEW f, NEW s, NEW j, NEW p, NEW i, View(r, a, c, f, s, j, p),
         j.pc = "put", i.pc = "reply", i.val = j.val, i.same = j.same, i.list = j.list
  PROVE  View(r, a, j.list, f, s, i, p)
<1>1. Carries(j, r, a, c, f, s) /\ p.pc # "deliver"
  BY Zenon DEF View
<1>2. Carries(i, r, a, j.list, f, s) /\ Published(j.list, r)
  BY <1>1, Zenon DEF Carries
<1>3. Valid(f, r, a, c) /\ Valid(s, r, a, c)
  BY Zenon DEF View
<1>4. Valid(f, r, a, j.list) /\ Valid(s, r, a, j.list)
  BY <1>1, <1>3, Zenon DEF Valid, Carries
<1> QED
  BY <1>1, <1>2, <1>4, Zenon DEF View

\* The validators of a version the core took replace the older ones.
LEMMA ViewDelivered ==
  ASSUME NEW r, NEW a, NEW c, NEW f, NEW s, NEW t, NEW j, NEW p, NEW i, View(r, a, c, f, s, j, p),
         j.pc = "reply", j.answer = "ok", t \in {s, j.val}, i.pc = "idle", i.answer # "ok"
  PROVE  View(r, a, c, j.val, t, i, p)
<1>1. Carries(j, r, a, c, f, s) /\ p.pc # "deliver" /\ Valid(s, r, a, c)
  BY Zenon DEF View
<1>2. NotNewer(j.list, j.list)
  <2>1. j.list[2] \in Nat
    BY <1>1, ListFacts, Zenon DEF Carries, Published
  <2> QED
    BY <2>1, SMT DEF NotNewer
<1>3. Valid(j.val, r, a, c)
  BY <1>1, <1>2, Zenon DEF Valid, Carries
<1> QED
  BY <1>1, <1>3, Zenon DEF View

\* An update refused for a window is held, and taken up again as it was.
LEMMA ViewHeld ==
  ASSUME NEW r, NEW a, NEW c, NEW f, NEW s, NEW j, NEW p, NEW i, NEW h, View(r, a, c, f, s, j, p),
         j.pc = "reply", i.pc = "idle", i.answer # "ok", h.pc = "deliver", h.answer # "ok",
         h.val = j.val, h.same = j.same, h.list = j.list
  PROVE  View(r, a, c, f, s, i, h)
<1>1. Carries(j, r, a, c, f, s)
  BY Zenon DEF View
<1>2. Carries(h, r, a, c, f, s)
  BY <1>1, Zenon DEF Carries
<1> QED
  BY <1>2, Zenon DEF View

\* What was held back is delivered; nothing is held any more.
LEMMA ViewTaken ==
  ASSUME NEW r, NEW a, NEW c, NEW f, NEW s, NEW j, NEW p, NEW h, View(r, a, c, f, s, j, p),
         p.pc = "deliver", h.pc = "idle"
  PROVE  View(r, a, c, f, s, p, h)
BY Zenon DEF View

\* A refresh begins; nothing is held for the feed.
LEMMA ViewBegun ==
  ASSUME NEW r, NEW a, NEW c, NEW f, NEW s, NEW j, NEW p, NEW i, View(r, a, c, f, s, j, p),
         a # None, i.pc = "copy", i.url = a, i.val = None, ~i.same, i.answer # "ok", p.pc = "idle"
  PROVE  View(r, a, c, f, s, i, p)
BY Zenon DEF View, Valid

\* What was held is dropped.
LEMMA ViewDropped ==
  ASSUME NEW r, NEW a, NEW c, NEW f, NEW s, NEW j, NEW p, NEW h, View(r, a, c, f, s, j, p),
         h.pc = "idle"
  PROVE  View(r, a, c, f, s, j, h)
BY Zenon DEF View

\* The web process starts again from its file.
LEMMA ViewLost ==
  ASSUME NEW r, NEW a, NEW c, NEW f, NEW s, NEW j, NEW p, NEW i, View(r, a, c, f, s, j, p),
         i.pc = "idle", i.answer # "ok"
  PROVE  View(r, a, c, s, s, i, i)
BY Zenon DEF View

\* A fetch that failed keeps the validators it was sent with.
LEMMA ViewFailed ==
  ASSUME NEW r, NEW a, NEW c, NEW f, NEW s, NEW j, NEW p, NEW i, View(r, a, c, f, s, j, p),
         j.pc = "fetch", i.pc = "idle", i.answer # "ok"
  PROVE  View(r, a, c, j.val, j.val, i, p)
BY Zenon DEF View

\* Another address: no validators, nothing held, and the copy is of any list.
LEMMA ViewEdited ==
  ASSUME NEW r, NEW a, NEW c, NEW f, NEW s, NEW j, NEW p, NEW i, NEW b, View(r, a, c, f, s, j, p),
         b \in Url \cup {None}, i.pc = "idle", i.answer # "ok"
  PROVE  View(r, b, c, None, None, i, i)
BY Zenon DEF View, Valid

\* RefreshInv after a step, from the view after it.
LEMMA RefreshAfter ==
  ASSUME NEW k \in Feed, k \in OwnFeed => saved'.own[k] = own'[k],
         k \in DOMAIN store' => store'[k] # None,
         View(remote', Address(k)', Copy(k)', fetch'[k].val, saved'.fetch[k].val, job'[k], Held(k)')
  PROVE  RefreshInv(k)'
BY Zenon DEF RefreshInv

\* A step of which the feed sees at most that a version was published, its copy was
\* dropped, or the state file was written.
CopyKept(k) == k \in DOMAIN store' => k \in DOMAIN store /\ store'[k] = store[k]
FileKept == UNCHANGED saved \/ saved' = [fetch |-> fetch', own |-> own']

\* A feed whose copy is kept or dropped has the same copy or none.
LEMMA CopyKeptView ==
  ASSUME NEW k, CopyKept(k), k \in DOMAIN store => store[k] # None
  PROVE  Copy(k)' \in {Copy(k), None} /\ (k \in DOMAIN store' => store'[k] # None)
BY Zenon DEF CopyKept, Copy

\* The state file is left alone or written with what is in memory.
LEMMA FileKeptView ==
  ASSUME NEW k \in Feed, FileKept, k \in OwnFeed => own'[k] = own[k] /\ saved.own[k] = own[k]
  PROVE  /\ k \in OwnFeed => saved'.own[k] = own'[k]
         /\ saved'.fetch[k].val \in {saved.fetch[k].val, fetch'[k].val}
         /\ Address(k)' = Address(k)
<1>1. CASE UNCHANGED saved
  BY <1>1, Zenon DEF Address
<1>2. CASE saved' = [fetch |-> fetch', own |-> own']
  <2>1. saved'.fetch = fetch' /\ saved'.own = own'
    BY <1>2, Zenon
  <2> QED
    BY <2>1, Zenon DEF Address
<1> QED
  BY <1>1, <1>2, Zenon DEF FileKept

\* Updates that are dropped leave nothing held for their feed.
LEMMA HeldKeptView ==
  ASSUME NEW k, UNCHANGED pending \/ \E S : pending' = Restrict(pending, S) /\ S \subseteq DOMAIN pending
  PROVE  Held(k)' \in {Held(k), Idle}
BY Zenon DEF Held, Restrict

\* Grows, for the steps that publish nothing.
LEMMA GrowsSame == ASSUME WebOK, UNCHANGED remote PROVE Grows(remote, remote')
<1>1. \A u \in Url : remote[u] \in Nat /\ remote[u] <= remote[u]
  <2>1. ASSUME NEW u \in Url PROVE remote[u] \in Nat /\ remote[u] <= remote[u]
    <3>1. remote[u] \in 1..MaxVersion
      BY Zenon DEF WebOK
    <3> QED
      BY <3>1, FeedAssumption, SMT
  <2> QED
    BY <2>1
<1> QED
  BY <1>1, Zenon DEF Grows

\* A step that only moves a refresh along keeps what its validators say.
LEMMA RefreshKept ==
  ASSUME NEW k \in Feed, RefreshInv(k), Grows(remote, remote'), CopyKept(k), FileKept,
         k \in OwnFeed => own'[k] = own[k], fetch'[k].val = fetch[k].val,
         \A a, c, s, p : View(remote, a, c, fetch[k].val, s, job[k], p)
                           => View(remote, a, c, fetch[k].val, s, job'[k], p),
         Held(k)' \in {Held(k), Idle}
  PROVE  RefreshInv(k)'
<1>1. /\ k \in OwnFeed => saved.own[k] = own[k]
      /\ k \in DOMAIN store => store[k] # None
      /\ View(remote, Address(k), Copy(k), fetch[k].val, saved.fetch[k].val, job[k], Held(k))
  BY Zenon DEF RefreshInv
<1>2. Copy(k)' \in {Copy(k), None} /\ (k \in DOMAIN store' => store'[k] # None)
  BY <1>1, CopyKeptView, Zenon
<1>3. /\ k \in OwnFeed => saved'.own[k] = own'[k]
      /\ saved'.fetch[k].val \in {saved.fetch[k].val, fetch[k].val}
      /\ Address(k)' = Address(k)
  BY <1>1, FileKeptView, Zenon
<1>4. View(remote', Address(k), Copy(k)', fetch[k].val, saved'.fetch[k].val, job'[k], Held(k)')
  <2> DEFINE a == Address(k)
             c == Copy(k)
             f == fetch[k].val
             s == saved.fetch[k].val
             d == Copy(k)'
             t == saved'.fetch[k].val
             j == job'[k]
             p == Held(k)
             h == Held(k)'
             q == remote'
             r == remote
  <2>1. View(r, a, c, f, s, j, p) /\ Grows(r, q) /\ d \in {c, None} /\ t \in {s, f}
    BY <1>1, <1>2, <1>3, Zenon
  <2>2. h \in {p, Idle} /\ Idle.pc = "idle"
    BY IdleShape, Zenon
  <2>3. View(q, a, d, f, t, j, h)
    <3> HIDE DEF a, c, f, s, d, t, j, p, q, r, h
    <3>1. View(q, a, d, f, t, j, p)
      BY <2>1, ViewKept, Zenon
    <3>2. CASE h = p
      BY <3>1, <3>2, Zenon
    <3>3. CASE h = Idle
      BY <2>2, <3>1, <3>3, ViewDropped, Zenon
    <3> QED
      BY <2>2, <3>2, <3>3, Zenon
  <2> QED
    BY <2>3, Zenon
<1>5. View(remote', Address(k)', Copy(k)', fetch'[k].val, saved'.fetch[k].val, job'[k], Held(k)')
  BY <1>3, <1>4, Zenon
<1> QED
  BY <1>2, <1>3, <1>5, RefreshAfter, Zenon

\* A step that leaves this feed's refresh, address and fetch state alone.
Apart(k) ==
  /\ CopyKept(k) /\ FileKept /\ (k \in OwnFeed => own'[k] = own[k])
  /\ fetch'[k].val = fetch[k].val /\ job'[k] = job[k] /\ Held(k)' \in {Held(k), Idle}

\* A step that is not about a feed keeps what its validators say.
LEMMA ApartKept ==
  ASSUME NEW k \in Feed, RefreshInv(k), Grows(remote, remote'), Apart(k) PROVE RefreshInv(k)'
<1>1. \A a, c, s, p : View(remote, a, c, fetch[k].val, s, job[k], p)
                        => View(remote, a, c, fetch[k].val, s, job'[k], p)
  BY Zenon DEF Apart
<1> QED
  BY <1>1, RefreshKept, Zenon DEF Apart

\* Steps of the web process before the core is asked, and steps of the core.
LEMMA JobKept ==
  ASSUME WebOK, NEW id \in Feed, RefreshInv(id), UNCHANGED <<remote, own, fetch, saved, pending>>,
         CopyKept(id),
         \/ /\ job[id].pc \in {"copy", "state"} /\ job'[id].pc \in {"state", "fetch"}
            /\ job'[id].url = job[id].url /\ job'[id].same = job[id].same
            /\ job'[id].answer = job[id].answer /\ job'[id].val \in {job[id].val, fetch[id].val}
         \/ job'[id] = Idle
         \/ /\ job[id].pc \in {"deliver", "kernel", "put", "reply"}
            /\ job'[id].pc \in {"kernel", "put", "reply"} /\ job'[id].val = job[id].val
            /\ job'[id].same = job[id].same /\ job'[id].list = job[id].list
            /\ job'[id].answer = "ok" => job'[id].pc = "reply" /\ job[id].same
  PROVE  RefreshInv(id)'
<1>1. ASSUME NEW a, NEW c, NEW s, NEW p, View(remote, a, c, fetch[id].val, s, job[id], p)
      PROVE  View(remote, a, c, fetch[id].val, s, job'[id], p)
  <2> DEFINE f == fetch[id].val
             j == job[id]
             i == job'[id]
             r == remote
  <2>1. CASE /\ j.pc \in {"copy", "state"} /\ i.pc \in {"state", "fetch"}
             /\ i.url = j.url /\ i.same = j.same /\ i.answer = j.answer /\ i.val \in {j.val, f}
    <3> HIDE DEF f, j, i, r
    <3>1. View(r, a, c, f, s, j, p)
      BY <1>1, Zenon DEF f, j, r
    <3>2. View(r, a, c, f, s, i, p)
      BY <2>1, <3>1, ViewBefore, Zenon
    <3> QED
      BY <3>2, Zenon DEF f, i, r
  <2>2. CASE i = Idle
    BY <1>1, <2>2, ViewIdle, IdleShape, Zenon
  <2>3. CASE /\ j.pc \in {"deliver", "kernel", "put", "reply"} /\ i.pc \in {"kernel", "put", "reply"}
             /\ i.val = j.val /\ i.same = j.same /\ i.list = j.list
             /\ i.answer = "ok" => i.pc = "reply" /\ j.same
    <3> HIDE DEF f, j, i, r
    <3>1. View(r, a, c, f, s, j, p)
      BY <1>1, Zenon DEF f, j, r
    <3>2. View(r, a, c, f, s, i, p)
      BY <2>3, <3>1, ViewAnswer, Zenon
    <3> QED
      BY <3>2, Zenon DEF f, i, r
  <2> QED
    BY <2>1, <2>2, <2>3, Zenon
<1>2. Held(id)' \in {Held(id), Idle}
  BY HeldKeptView, Zenon
<1>3. FileKept /\ Grows(remote, remote')
  BY GrowsSame, Zenon DEF FileKept
<1> QED
  BY <1>1, <1>2, <1>3, RefreshKept, Zenon

\* The steps of one refresh, one by one.  First those that change the refresh alone.
LEMMA JobSteps ==
  ASSUME StoredInv, WebOK, NEW id \in Feed, RefreshInv(id),
         ReadCopy(id) \/ ReadState(id) \/ LoseReply(id) \/ UpdateFeed(id) \/ ReplaceFeedSet(id)
  PROVE  RefreshInv(id)'
<1>0. JobsOK /\ HistoryOK /\ (job[id].pc # "reply" => job[id].answer # "ok")
  BY Zenon DEF StoredInv, RefreshInv, View
<1>1. CASE ReadCopy(id)
  <2>1. UNCHANGED <<remote, own, fetch, saved, pending>> /\ CopyKept(id)
    BY <1>1, Zenon DEF ReadCopy, web, core, CopyKept
  <2>2. /\ job[id].pc = "copy" /\ job'[id].pc = "state" /\ job'[id].url = job[id].url
        /\ job'[id].same = job[id].same /\ job'[id].answer = job[id].answer /\ job'[id].val = job[id].val
    BY <1>0, <1>1, ReadCopyDoes, Zenon DEF Keeps
  <2> QED
    BY <2>1, <2>2, JobKept, Zenon
<1>2. CASE ReadState(id)
  <2>1. UNCHANGED <<remote, own, fetch, saved, pending>> /\ CopyKept(id)
    BY <1>2, Zenon DEF ReadState, web, core, CopyKept
  <2>2. /\ job[id].pc = "state"
        /\ \/ job'[id] = Idle
           \/ /\ job'[id].pc = "fetch" /\ job'[id].url = job[id].url
              /\ job'[id].same = job[id].same /\ job'[id].answer = job[id].answer
              /\ job'[id].val = fetch[id].val
    BY <1>0, <1>2, ReadStateDoes, Zenon DEF Keeps
  <2> QED
    BY <2>1, <2>2, JobKept, Zenon
<1>3. CASE LoseReply(id)
  <2>1. UNCHANGED <<remote, own, fetch, saved, pending>> /\ CopyKept(id)
    BY <1>3, Zenon DEF LoseReply, web, core, CopyKept
  <2>2. job[id].pc = "reply" /\ Answer(id, "unreachable")
    BY <1>3, Zenon DEF LoseReply
  <2>3. /\ job'[id].pc = "reply" /\ job'[id].answer = "unreachable" /\ job'[id].val = job[id].val
        /\ job'[id].same = job[id].same /\ job'[id].list = job[id].list
    BY <1>0, <2>2, JobAnswers, Zenon
  <2> QED
    BY <2>1, <2>2, <2>3, JobKept, Zenon
<1>4. CASE UpdateFeed(id)
  <2>1. UNCHANGED <<remote, own, fetch, saved, pending>>
    BY <1>0, <1>4, UpdateFeedDoes, Zenon DEF web
  <2>2. /\ job[id].pc = "deliver" /\ job'[id].pc \in {"kernel", "put", "reply"}
        /\ job'[id].val = job[id].val /\ job'[id].same = job[id].same /\ job'[id].list = job[id].list
        /\ (job'[id].answer = "ok" => job'[id].pc = "reply" /\ job[id].same)
    BY <1>0, <1>4, UpdateFeedDoes, Zenon
  <2>3. UNCHANGED store \/ (Put(id, store[id], FeedIDs) /\ id \in DOMAIN store)
    BY <1>0, <1>4, UpdateFeedDoes, Zenon
  <2>4. CopyKept(id)
    BY <2>3, Zenon DEF CopyKept, Put
  <2> QED
    BY <2>1, <2>2, <2>4, JobKept, Zenon
<1>5. CASE ReplaceFeedSet(id)
  <2>1. UNCHANGED <<remote, own, fetch, saved, pending>> /\ CopyKept(id)
    BY <1>0, <1>5, ReplaceFeedSetDoes, Zenon DEF web, CopyKept
  <2>2. /\ job[id].pc = "kernel" /\ job'[id].pc \in {"put", "reply"}
        /\ job'[id].val = job[id].val /\ job'[id].same = job[id].same /\ job'[id].list = job[id].list
        /\ job'[id].answer # "ok"
    BY <1>0, <1>5, ReplaceFeedSetDoes, Zenon
  <2> QED
    BY <2>1, <2>2, JobKept, Zenon
<1> QED
  BY <1>1, <1>2, <1>3, <1>4, <1>5

\* StoreFeed: the copy is the list now, or was left as it is.
LEMMA StoreStep ==
  ASSUME StoredInv, WebOK, NEW id \in Feed, RefreshInv(id), StoreFeed(id) PROVE RefreshInv(id)'
<1>0. /\ JobsOK /\ HistoryOK /\ (id \in OwnFeed => saved.own[id] = own[id])
      /\ View(remote, Address(id), Copy(id), fetch[id].val, saved.fetch[id].val, job[id], Held(id))
  BY Zenon DEF StoredInv, RefreshInv
<1>1. /\ UNCHANGED <<remote, own, fetch, saved, pending>> /\ job[id].pc = "put" /\ job'[id].pc = "reply"
      /\ job'[id].val = job[id].val /\ job'[id].same = job[id].same /\ job'[id].list = job[id].list
  BY <1>0, StoreFeedDoes, Zenon DEF web
<1>2. CASE job'[id].answer # "ok" /\ UNCHANGED store
  <2>1. CopyKept(id)
    BY <1>2, Zenon DEF CopyKept
  <2> QED
    BY <1>1, <1>2, <2>1, JobKept, Zenon
<1>3. CASE Put(id, job[id].list, job[id].keep)
  <2>1. id \in DOMAIN store' /\ store'[id] = job[id].list
    BY <1>3, Zenon DEF Put
  <2>2. job[id].list # None
    <3>1. job[id].list \in List
      BY <1>0, <1>1, Zenon DEF View, Carries, Published
    <3> QED
      BY <3>1, ListFacts, Zenon
  <2>3. Copy(id)' = job[id].list
    BY <2>1, Zenon DEF Copy
  <2>4. Address(id)' = Address(id) /\ Held(id)' = Held(id)
    BY <1>1, Zenon DEF Address, Held
  <2>5. View(remote, Address(id), job[id].list, fetch[id].val, saved.fetch[id].val, job'[id], Held(id))
    <3> DEFINE a == Address(id)
               c == Copy(id)
               f == fetch[id].val
               s == saved.fetch[id].val
               j == job[id]
               i == job'[id]
               p == Held(id)
    <3>1. /\ View(remote, a, c, f, s, j, p) /\ j.pc = "put" /\ i.pc = "reply"
          /\ i.val = j.val /\ i.same = j.same /\ i.list = j.list
      BY <1>0, <1>1, Zenon
    <3>2. View(remote, a, j.list, f, s, i, p)
      <4> HIDE DEF a, c, f, s, j, i, p
      <4> QED
        BY <3>1, ViewPut, Zenon
    <3> QED
      BY <3>2, Zenon
  <2>6. View(remote', Address(id)', Copy(id)', fetch'[id].val, saved'.fetch[id].val, job'[id], Held(id)')
    BY <1>1, <2>3, <2>4, <2>5, Zenon
  <2> QED
    BY <1>0, <1>1, <2>1, <2>2, <2>6, RefreshAfter, Zenon
<1> QED
  BY <1>0, <1>2, <1>3, StoreFeedDoes, Zenon

\* The validators of a fetch state that is written, after a failure or a success.
LEMMA StateVal ==
  ASSUME NEW v, NEW e, NEW m, \/ m = [failed |-> TRUE, err |-> e, val |-> v]
                             \/ m = [failed |-> FALSE, err |-> e, val |-> v]
  PROVE  m.val = v
BY SMT

\* Writing down a failure or a success keeps the validators.
LEMMA WrittenVal ==
  ASSUME NEW v, NEW m, m \in {[failed |-> TRUE, err |-> "fetch", val |-> v],
                              [failed |-> FALSE, err |-> "", val |-> v]}
  PROVE  m.val = v
<1>1. PICK e : \/ m = [failed |-> TRUE, err |-> e, val |-> v]
               \/ m = [failed |-> FALSE, err |-> e, val |-> v]
  BY Zenon
<1> QED
  BY <1>1, StateVal, Zenon

\* Fetch: a 304, a list, or no answer.
LEMMA FetchStep ==
  ASSUME StoredInv, WebOK, NEW id \in Feed, RefreshInv(id), Fetch(id) PROVE RefreshInv(id)'
<1>0. /\ JobsOK /\ (id \in OwnFeed => saved.own[id] = own[id])
      /\ (id \in DOMAIN store => store[id] # None)
      /\ View(remote, Address(id), Copy(id), fetch[id].val, saved.fetch[id].val, job[id], Held(id))
  BY Zenon DEF StoredInv, RefreshInv
<1>1. UNCHANGED <<remote, store, own, pending>> /\ job[id].pc = "fetch"
  BY Zenon DEF Fetch, core
<1>2. CASE /\ job'[id].pc = "deliver" /\ job'[id].answer = job[id].answer
           /\ job'[id].list = <<job[id].url, remote[job[id].url]>> /\ UNCHANGED <<fetch, saved>>
           /\ \/ /\ job'[id].val = job[id].val /\ job[id].val # None
                 /\ Matches(job[id].url, job[id].val)
              \/ job'[id].same = job[id].same /\ job'[id].val \in {None, job'[id].list}
  <2> DEFINE j == job[id]
             i == job'[id]
             r == remote
             f == fetch[id].val
  <2>1. /\ j.pc = "fetch" /\ i.pc = "deliver" /\ i.answer = j.answer /\ i.list = <<j.url, r[j.url]>>
        /\ \/ /\ i.val = j.val /\ j.val # None
              /\ r[j.url] <= j.val[2] \/ j.val = <<j.url, r[j.url]>>
           \/ i.same = j.same /\ i.val \in {None, i.list}
    BY <1>1, <1>2, Zenon DEF Matches
  <2>2. \A u \in Url : r[u] \in 1..MaxVersion
    BY Zenon DEF WebOK
  <2>3. ASSUME NEW a, NEW c, NEW s, NEW p, View(r, a, c, f, s, j, p) PROVE View(r, a, c, f, s, i, p)
    <3> HIDE DEF j, i, r, f
    <3> QED
      BY <2>1, <2>2, <2>3, ViewFetch, Zenon
  <2>4. Held(id)' \in {Held(id), Idle}
    BY <1>1, HeldKeptView, Zenon
  <2>5. FileKept /\ Grows(remote, remote') /\ CopyKept(id)
    BY <1>1, <1>2, GrowsSame, Zenon DEF FileKept, CopyKept
  <2> QED
    BY <1>1, <1>2, <2>3, <2>4, <2>5, RefreshKept, Zenon
<1>3. CASE /\ job'[id] = Idle
           /\ fetch' = [fetch EXCEPT ![id] = [failed |-> TRUE, err |-> "fetch", val |-> job[id].val]]
           /\ saved' = [fetch |-> fetch', own |-> own]
  <2>1. saved'.fetch = fetch' /\ saved'.own = own
    BY <1>3, Zenon
  <2>2. fetch'[id].val = job[id].val
    <3>1. fetch'[id] = [failed |-> TRUE, err |-> "fetch", val |-> job[id].val]
      BY <1>3, Zenon DEF WebOK
    <3> QED
      BY <3>1, WrittenVal, Zenon
  <2>3. Address(id)' = Address(id) /\ Held(id)' = Held(id) /\ Copy(id)' = Copy(id)
    BY <1>1, Zenon DEF Address, Held, Copy
  <2>4. View(remote, Address(id), Copy(id), job[id].val, job[id].val, Idle, Held(id))
    <3> DEFINE a == Address(id)
               c == Copy(id)
               f == fetch[id].val
               s == saved.fetch[id].val
               j == job[id]
               p == Held(id)
    <3>1. View(remote, a, c, f, s, j, p) /\ j.pc = "fetch" /\ Idle.pc = "idle" /\ Idle.answer # "ok"
      BY <1>0, <1>1, IdleShape, Zenon
    <3>2. View(remote, a, c, j.val, j.val, Idle, p)
      <4> HIDE DEF a, c, f, s, j, p
      <4> QED
        BY <3>1, ViewFailed, Zenon
    <3> QED
      BY <3>2, Zenon
  <2>5. View(remote', Address(id)', Copy(id)', fetch'[id].val, saved'.fetch[id].val, job'[id], Held(id)')
    BY <1>1, <1>3, <2>1, <2>2, <2>3, <2>4, Zenon
  <2> QED
    BY <1>0, <1>1, <2>1, <2>5, RefreshAfter, Zenon
<1> QED
  BY <1>0, <1>2, <1>3, FetchDoes, Zenon

\* Refresh: what was held is taken up, or a refresh begins.
LEMMA BeginStep ==
  ASSUME StoredInv, WebOK, NEW id \in Feed, RefreshInv(id), NEW only, Refresh(id, only),
         UNCHANGED <<remote, store, own, fetch, saved>>
  PROVE  RefreshInv(id)'
<1>0. /\ JobsOK /\ HeldOK /\ (id \in OwnFeed => saved'.own[id] = own'[id])
      /\ (id \in DOMAIN store' => store'[id] # None)
      /\ View(remote, Address(id), Copy(id), fetch[id].val, saved.fetch[id].val, job[id], Held(id))
  BY Zenon DEF StoredInv, RefreshInv
<1>1. Address(id)' = Address(id) /\ Copy(id)' = Copy(id) /\ Idle.pc = "idle"
  BY IdleShape, Zenon DEF Address, Copy
<1> DEFINE a == Address(id)
           c == Copy(id)
           f == fetch[id].val
           s == saved.fetch[id].val
           j == job[id]
           i == job'[id]
           p == Held(id)
           h == Held(id)'
<1>2. View(remote, a, c, f, s, i, h)
  <2>1. View(remote, a, c, f, s, j, p)
    BY <1>0, Zenon
  <2>2. CASE id \in DOMAIN pending /\ i = pending[id] /\ pending' = Restrict(pending, DOMAIN pending \ {id})
    <3>1. i = p /\ h = Idle /\ p.pc = "deliver"
      BY <1>0, <2>2, Zenon DEF Held, HeldOK, Restrict
    <3> HIDE DEF a, c, f, s, j, i, p, h
    <3> QED
      BY <1>1, <2>1, <3>1, ViewTaken, Zenon
  <2>3. CASE UNCHANGED <<job, pending>>
    <3>1. i = j /\ h = p
      BY <2>3, Zenon DEF Held
    <3> QED
      BY <2>1, <3>1, Zenon
  <2>4. CASE /\ i.pc = "copy" /\ i.url = Address(id) /\ Address(id) # None
             /\ i.same = FALSE /\ i.val = None /\ i.answer = ""
             /\ UNCHANGED pending /\ id \notin DOMAIN pending
    <3>1. p = Idle /\ h = Idle
      BY <2>4, Zenon DEF Held
    <3>2. i.pc = "copy" /\ i.url = a /\ a # None /\ ~i.same /\ i.val = None /\ i.answer # "ok"
      BY <2>4, Zenon
    <3> HIDE DEF a, c, f, s, j, i, p, h
    <3> QED
      BY <1>1, <2>1, <3>1, <3>2, ViewBegun, Zenon
  <2> QED
    BY <1>0, <2>2, <2>3, <2>4, RefreshDoes, Zenon
<1>3. View(remote', Address(id)', Copy(id)', fetch'[id].val, saved'.fetch[id].val, job'[id], Held(id)')
  BY <1>1, <1>2, Zenon
<1> QED
  BY <1>0, <1>3, RefreshAfter, Zenon

\* Reply: validators are kept for a version the core took, and for no other.
LEMMA ReplyStep ==
  ASSUME StoredInv, WebOK, NEW id \in Feed, RefreshInv(id), Reply(id) PROVE RefreshInv(id)'
<1>0. /\ JobsOK /\ HeldOK /\ (id \in OwnFeed => saved.own[id] = own[id])
      /\ (id \in DOMAIN store => store[id] # None)
      /\ View(remote, Address(id), Copy(id), fetch[id].val, saved.fetch[id].val, job[id], Held(id))
  BY Zenon DEF StoredInv, RefreshInv
<1>1. UNCHANGED <<remote, store, own>> /\ job[id].pc = "reply" /\ Delivered(id)
  BY Zenon DEF Reply, core
<1>2. job'[id] = Idle /\ Idle.pc = "idle" /\ Idle.answer # "ok"
  BY <1>0, IdleShape, Zenon DEF Reply, JobsOK
<1>3. Address(id)' = Address(id) /\ Copy(id)' = Copy(id) /\ CopyKept(id) /\ Grows(remote, remote')
  BY <1>1, GrowsSame, Zenon DEF Address, Copy, CopyKept
<1> DEFINE a == Address(id)
           c == Copy(id)
           f == fetch[id].val
           s == saved.fetch[id].val
           j == job[id]
           p == Held(id)
           h == Held(id)'
           g == fetch'[id].val
           t == saved'.fetch[id].val
<1>4. View(remote, a, c, f, s, j, p) /\ j.pc = "reply"
  BY <1>0, <1>1, Zenon
<1>5. ASSUME SaveState PROVE FileKept
  BY <1>5, Zenon DEF SaveState, FileKept
<1>6. ASSUME View(remote, a, c, g, t, Idle, h), FileKept PROVE RefreshInv(id)'
  <2>1. id \in OwnFeed => saved'.own[id] = own'[id]
    BY <1>0, <1>1, <1>6, FileKeptView, Zenon
  <2>2. View(remote', Address(id)', Copy(id)', fetch'[id].val, saved'.fetch[id].val, job'[id], Held(id)')
    BY <1>1, <1>2, <1>3, <1>6, Zenon
  <2> QED
    BY <1>0, <1>1, <2>1, <2>2, RefreshAfter, Zenon
<1>7. CASE /\ job[id].answer = "ok" /\ SaveState /\ UNCHANGED pending
           /\ fetch' = [fetch EXCEPT ![id] = [failed |-> FALSE, err |-> "", val |-> job[id].val]]
  <2>1. fetch'[id] = [failed |-> FALSE, err |-> "", val |-> job[id].val]
    BY <1>7, Zenon DEF WebOK
  <2>2. g = j.val
    BY <2>1, WrittenVal, Zenon
  <2>3. h = p /\ FileKept /\ t \in {s, j.val}
    <3>1. h = p /\ FileKept
      BY <1>5, <1>7, Zenon DEF Held
    <3> QED
      BY <1>0, <1>1, <2>2, <3>1, FileKeptView, Zenon
  <2>4. View(remote, a, c, g, t, Idle, h)
    <3>1. j.answer = "ok"
      BY <1>7, Zenon
    <3> HIDE DEF a, c, f, s, j, p, h, g, t
    <3> QED
      BY <1>2, <1>4, <2>2, <2>3, <3>1, ViewDelivered, Zenon
  <2> QED
    BY <1>6, <2>3, <2>4, Zenon
<1>8. CASE /\ job[id].answer = "busy" /\ UNCHANGED <<fetch, saved>>
           /\ pending' = [k \in DOMAIN pending \cup {id} |->
                           IF k = id THEN [job[id] EXCEPT !.pc = "deliver", !.answer = ""] ELSE pending[k]]
  <2>1. h = [job[id] EXCEPT !.pc = "deliver", !.answer = ""]
    BY <1>8, Zenon DEF Held
  <2>2. JobShape(job[id])
    BY <1>0, Zenon DEF JobsOK
  <2>3. /\ h.pc = "deliver" /\ h.answer # "ok" /\ h.val = j.val /\ h.same = j.same /\ h.list = j.list
    <3> HIDE DEF h
    <3> QED
      BY <2>1, <2>2, Zenon DEF JobShape, JobFields
  <2>4. g = f /\ t = s
    BY <1>8, Zenon
  <2>5. FileKept
    BY <1>8, Zenon DEF FileKept
  <2>6. View(remote, a, c, g, t, Idle, h)
    <3> HIDE DEF a, c, f, s, j, p, h, g, t
    <3> QED
      BY <1>2, <1>4, <2>3, <2>4, ViewHeld, Zenon
  <2> QED
    BY <1>6, <2>5, <2>6, Zenon
<1>9. CASE Fail(id, fetch[id], job[id].answer) /\ UNCHANGED pending
  <2>1. g = f
    <3>1. StateShape(fetch[id]) /\ \E x, y : fetch'[id] = [fetch[id] EXCEPT !.err = x, !.failed = y]
      BY <1>9, Zenon DEF WebOK, Fail
    <3> QED
      BY <3>1, Zenon DEF StateShape
  <2>2. h = p /\ FileKept
    BY <1>5, <1>9, Zenon DEF Held, Fail
  <2>3. t \in {s, f}
    BY <1>0, <1>1, <2>1, <2>2, FileKeptView, Zenon
  <2>4. View(remote, a, c, g, t, Idle, h)
    <3> HIDE DEF a, c, f, s, j, p, h, g, t
    <3>1. View(remote, a, c, f, s, Idle, p)
      BY <1>2, <1>4, ViewIdle, Zenon
    <3>2. Grows(remote, remote)
      BY <1>1, <1>3, Zenon
    <3> QED
      BY <2>1, <2>2, <2>3, <3>1, <3>2, ViewKept, Zenon
  <2> QED
    BY <1>6, <2>2, <2>4, Zenon
<1> QED
  BY <1>1, <1>7, <1>8, <1>9, Zenon DEF Delivered

\* WebRestart: what was in memory is what the file had.
LEMMA WebRestartStep ==
  ASSUME StoredInv, WebOK, NEW id \in Feed, RefreshInv(id), WebRestart PROVE RefreshInv(id)'
<1>0. /\ (id \in OwnFeed => saved.own[id] = own[id]) /\ (id \in DOMAIN store => store[id] # None)
      /\ View(remote, Address(id), Copy(id), fetch[id].val, saved.fetch[id].val, job[id], Held(id))
  BY Zenon DEF RefreshInv
<1>1. UNCHANGED <<remote, store, saved>> /\ fetch' = saved.fetch /\ own' = saved.own
  BY Zenon DEF WebRestart, core
<1>2. job'[id] = Idle /\ Held(id)' = Idle /\ Idle.pc = "idle" /\ Idle.answer # "ok"
  BY IdleShape, Zenon DEF WebRestart, Held
<1>3. Address(id)' = Address(id) /\ Copy(id)' = Copy(id)
  BY <1>0, <1>1, Zenon DEF Address, Copy
<1>4. View(remote, Address(id), Copy(id), saved.fetch[id].val, saved.fetch[id].val, Idle, Idle)
  <2> DEFINE a == Address(id)
             c == Copy(id)
             f == fetch[id].val
             s == saved.fetch[id].val
             j == job[id]
             p == Held(id)
  <2>1. View(remote, a, c, f, s, j, p)
    BY <1>0, Zenon
  <2>2. View(remote, a, c, s, s, Idle, Idle)
    <3> HIDE DEF a, c, f, s, j, p
    <3> QED
      BY <1>2, <2>1, ViewLost, Zenon
  <2> QED
    BY <2>2, Zenon
<1>5. View(remote', Address(id)', Copy(id)', fetch'[id].val, saved'.fetch[id].val, job'[id], Held(id)')
  BY <1>1, <1>2, <1>3, <1>4, Zenon
<1> QED
  BY <1>0, <1>1, <1>5, RefreshAfter, Zenon

\* CoreRestart: an update under way is answered as unreachable.
LEMMA CoreRestartStep ==
  ASSUME StoredInv, WebOK, NEW id \in Feed, RefreshInv(id), CoreRestart PROVE RefreshInv(id)'
<1>1. UNCHANGED <<remote, own, fetch, saved, pending>> /\ JobsOK
  BY Zenon DEF CoreRestart, web, StoredInv
<1>2. CopyKept(id)
  BY Zenon DEF CoreRestart, CopyKept
<1>3. CASE job[id].pc \in {"kernel", "put"}
  <2>1. /\ job'[id].pc = "reply" /\ job'[id].answer = "unreachable" /\ job'[id].val = job[id].val
        /\ job'[id].same = job[id].same /\ job'[id].list = job[id].list
    BY <1>1, <1>3, CoreRestartDoes, Zenon
  <2> QED
    BY <1>1, <1>2, <1>3, <2>1, JobKept, Zenon
<1>4. CASE job[id].pc \notin {"kernel", "put"}
  <2>1. job'[id] = job[id]
    BY <1>1, <1>4, CoreRestartDoes, Zenon
  <2>2. Held(id)' \in {Held(id), Idle} /\ FileKept /\ Grows(remote, remote')
    BY <1>1, HeldKeptView, GrowsSame, Zenon DEF FileKept
  <2> QED
    BY <1>1, <1>2, <2>1, <2>2, ApartKept, Zenon DEF Apart
<1> QED
  BY <1>3, <1>4, Zenon

\* SaveOwnFeed: the feed begins anew, unless a refresh is in flight or the file was
\* not written.
LEMMA EditStep ==
  ASSUME StoredInv, WebOK, NEW id \in OwnFeed, NEW u \in Url \cup {None}, SaveOwnFeed(id, u),
         id \notin history.crossed => RefreshInv(id)
  PROVE  id \notin history'.crossed => RefreshInv(id)'
<1> SUFFICES ASSUME id \notin history'.crossed PROVE RefreshInv(id)'
  OBVIOUS
<1>0. id \in Feed
  BY FeedAssumption, Zenon
<1>1. PICK failed \in {0, 1} :
        /\ saved' = IF failed = 1 THEN saved ELSE [fetch |-> fetch', own |-> own']
        /\ history' = [history EXCEPT !.crossed =
                         IF job[id] = Idle /\ failed = 0 THEN history.crossed
                         ELSE history.crossed \cup {id}]
  BY Zenon DEF SaveOwnFeed
<1>2. history'.crossed = IF job[id] = Idle /\ failed = 0 THEN history.crossed
                         ELSE history.crossed \cup {id}
  BY <1>1, Zenon DEF StoredInv, HistoryOK
<1>3. job[id] = Idle /\ failed = 0 /\ id \notin history.crossed
  BY <1>2, Zenon
<1>4. failed # 1
  BY <1>3, SMT
<1>5. saved'.fetch = fetch' /\ saved'.own = own'
  BY <1>1, <1>4, Zenon
<1>6. /\ UNCHANGED <<remote, store, job>> /\ own'[id] = u /\ fetch'[id] = NoFetch
      /\ pending' = Restrict(pending, DOMAIN pending \ {id})
  BY <1>0, Zenon DEF SaveOwnFeed, ForgetList, core, WebOK
<1>7. fetch'[id].val = None
  <2>1. NoFetch.val = None
    BY SMT DEF NoFetch
  <2> QED
    BY <1>6, <2>1, Zenon
<1>8. /\ Address(id)' = u /\ Copy(id)' = Copy(id) /\ Held(id)' = Idle
      /\ job'[id] = Idle /\ Idle.pc = "idle" /\ Idle.answer # "ok"
  BY <1>3, <1>6, IdleShape, Zenon DEF Address, Copy, Held, Restrict
<1>9. /\ View(remote, Address(id), Copy(id), fetch[id].val, saved.fetch[id].val, job[id], Held(id))
      /\ (id \in DOMAIN store => store[id] # None)
  BY <1>3, Zenon DEF RefreshInv
<1>10. View(remote, u, Copy(id), None, None, Idle, Idle)
  <2> DEFINE a == Address(id)
             c == Copy(id)
             f == fetch[id].val
             s == saved.fetch[id].val
             j == job[id]
             p == Held(id)
  <2>1. View(remote, a, c, f, s, j, p)
    BY <1>9, Zenon
  <2>2. View(remote, u, c, None, None, Idle, Idle)
    <3> HIDE DEF a, c, f, s, j, p
    <3> QED
      BY <1>8, <2>1, ViewEdited, Zenon
  <2> QED
    BY <2>2, Zenon
<1>11. View(remote', Address(id)', Copy(id)', fetch'[id].val, saved'.fetch[id].val, job'[id], Held(id)')
  BY <1>5, <1>6, <1>7, <1>8, <1>10, Zenon
<1> QED
  BY <1>0, <1>5, <1>6, <1>9, <1>11, RefreshAfter, Zenon

\* The web process writes the fetch state of one feed and the address of one.
LEMMA WebWritten ==
  ASSUME WebOK, UNCHANGED remote, FileKept, NEW id \in Feed, NEW m, StateShape(m),
         fetch' = [fetch EXCEPT ![id] = m],
         UNCHANGED own \/ \E k, u : own' = [own EXCEPT ![k] = u]
  PROVE  WebOK'
<1>1. /\ fetch' = [k \in Feed |-> fetch'[k]] /\ (\A k \in Feed : StateShape(fetch'[k]))
      /\ own' = [k \in OwnFeed |-> own'[k]]
  BY Zenon DEF WebOK
<1>2. /\ saved'.fetch = [k \in Feed |-> saved'.fetch[k]] /\ (\A k \in Feed : StateShape(saved'.fetch[k]))
      /\ saved'.own = [k \in OwnFeed |-> saved'.own[k]]
  <2>1. CASE UNCHANGED saved
    BY <2>1, Zenon DEF WebOK
  <2>2. CASE saved' = [fetch |-> fetch', own |-> own']
    <3>1. saved'.fetch = fetch' /\ saved'.own = own'
      BY <2>2, Zenon
    <3> QED
      BY <1>1, <3>1, Zenon
  <2> QED
    BY <2>1, <2>2, Zenon DEF FileKept
<1>3. remote' = [u \in Url |-> remote'[u]] /\ \A u \in Url : remote'[u] \in 1..MaxVersion
  BY Zenon DEF WebOK
<1> QED
  BY <1>1, <1>2, <1>3, Zenon DEF WebOK, StateShape

\* A step that leaves the web process alone.
LEMMA WebSame == ASSUME WebOK, UNCHANGED <<remote, own, fetch, saved>> PROVE WebOK'
BY Zenon DEF WebOK, StateShape

\* Publish: the next version.
LEMMA PublishStep ==
  ASSUME WebOK, NEW u \in Url, Publish(u) PROVE WebOK' /\ Grows(remote, remote')
<1>1. /\ remote' = [remote EXCEPT ![u] = remote[u] + 1] /\ remote[u] < MaxVersion
      /\ UNCHANGED <<own, fetch, saved>>
  BY Zenon DEF Publish, web
<1>2. /\ remote' = [x \in Url |-> remote'[x]] /\ remote'[u] = remote[u] + 1
      /\ \A x \in Url : x # u => remote'[x] = remote[x]
  BY <1>1, Zenon DEF WebOK
<1>3. ASSUME NEW x \in Url PROVE remote'[x] \in 1..MaxVersion /\ remote[x] \in Nat /\ remote'[x] \in Nat /\ remote[x] <= remote'[x]
  <2>1. remote[x] \in 1..MaxVersion /\ MaxVersion \in Nat
    BY FeedAssumption, Zenon DEF WebOK
  <2>2. CASE x = u
    BY <1>1, <1>2, <2>1, <2>2, SMT
  <2>3. CASE x # u
    BY <1>2, <2>1, <2>3, SMT
  <2> QED
    BY <2>2, <2>3, Zenon
<1> QED
  BY <1>1, <1>2, <1>3, Zenon DEF WebOK, Grows, StateShape

\* What a fetch state is written as.
LEMMA StateShapes ==
  /\ StateShape(NoFetch)
  /\ \A v : StateShape([failed |-> TRUE, err |-> "fetch", val |-> v])
  /\ \A v : StateShape([failed |-> FALSE, err |-> "", val |-> v])
  /\ \A m, x, y : StateShape(m) => StateShape([m EXCEPT !.err = x, !.failed = y])
BY Zenon DEF StateShape, NoFetch

\* Every step keeps the shapes, and publishes newer versions at most.
LEMMA WebSteps == ASSUME WebOK, Next PROVE WebOK' /\ Grows(remote, remote')
<1>0. ASSUME UNCHANGED <<remote, own, fetch, saved>> PROVE WebOK' /\ Grows(remote, remote')
  BY <1>0, WebSame, GrowsSame, Zenon
<1>1. ASSUME NEW id \in Feed, FeedSteps(id), ~Fetch(id), ~Reply(id) PROVE UNCHANGED <<remote, own, fetch, saved>>
  <2>1. CASE SwitchFeed(id) \/ Pass(id) \/ RefreshNow(id) \/ LoseReply(id)
    BY <2>1, Zenon DEF SwitchFeed, Pass, RefreshNow, LoseReply, web
  <2>2. CASE ReadCopy(id) \/ ReadState(id) \/ UpdateFeed(id) \/ ReplaceFeedSet(id) \/ StoreFeed(id)
    BY <2>2, Zenon DEF ReadCopy, ReadState, UpdateFeed, ReplaceFeedSet, StoreFeed, web
  <2> QED
    BY <1>1, <2>1, <2>2, Zenon DEF FeedSteps, Step
<1>2. ASSUME NEW id \in Feed, Fetch(id) PROVE WebOK' /\ Grows(remote, remote')
  <2>1. UNCHANGED <<remote, own>>
    BY <1>2, Zenon DEF Fetch
  <2>2. CASE UNCHANGED <<fetch, saved>>
    BY <1>0, <2>1, <2>2, Zenon
  <2>3. CASE /\ fetch' = [fetch EXCEPT ![id] = [failed |-> TRUE, err |-> "fetch", val |-> job[id].val]]
             /\ saved' = [fetch |-> fetch', own |-> own]
    <3>1. FileKept
      BY <2>1, <2>3, Zenon DEF FileKept
    <3>2. PICK m : fetch' = [fetch EXCEPT ![id] = m] /\ StateShape(m)
      BY <2>3, StateShapes, Zenon
    <3> QED
      BY <2>1, <3>1, <3>2, WebWritten, GrowsSame, Zenon
  <2> QED
    BY <1>2, <2>2, <2>3, Zenon DEF Fetch
<1>3. ASSUME NEW id \in Feed, Reply(id) PROVE WebOK' /\ Grows(remote, remote')
  <2>1. UNCHANGED <<remote, own>> /\ Delivered(id)
    BY <1>3, Zenon DEF Reply
  <2>2. CASE UNCHANGED <<fetch, saved>>
    BY <1>0, <2>1, <2>2, Zenon
  <2>3. CASE SaveState /\ \E m : fetch' = [fetch EXCEPT ![id] = m] /\ StateShape(m)
    <3>1. FileKept
      BY <2>3, Zenon DEF FileKept, SaveState
    <3> QED
      BY <2>1, <2>3, <3>1, WebWritten, GrowsSame, Zenon
  <2>4. CASE fetch' = [fetch EXCEPT ![id] = [failed |-> FALSE, err |-> "", val |-> job[id].val]] /\ SaveState
    BY <2>3, <2>4, StateShapes, Zenon
  <2>5. CASE Fail(id, fetch[id], job[id].answer)
    <3>1. /\ SaveState /\ StateShape(fetch[id])
          /\ \E x, y : fetch' = [fetch EXCEPT ![id] = [fetch[id] EXCEPT !.err = x, !.failed = y]]
      BY <2>5, Zenon DEF Fail, WebOK
    <3> QED
      BY <2>3, <3>1, StateShapes, Zenon
  <2> QED
    BY <2>1, <2>2, <2>4, <2>5, Zenon DEF Delivered
<1>4. ASSUME NEW id \in OwnFeed, NEW u, SaveOwnFeed(id, u) PROVE WebOK' /\ Grows(remote, remote')
  <2>1. /\ UNCHANGED remote /\ own' = [own EXCEPT ![id] = u] /\ fetch' = [fetch EXCEPT ![id] = NoFetch]
        /\ FileKept /\ id \in Feed
    BY <1>4, FeedAssumption, Zenon DEF SaveOwnFeed, ForgetList, FileKept
  <2> QED
    BY <2>1, StateShapes, WebWritten, GrowsSame, Zenon
<1>5. CASE CoreSteps
  BY <1>0, <1>5, Zenon DEF CoreSteps, ApplyStart, ApplyEnd, Panic, Resume, CoreRestart, web
<1>6. CASE OtherSteps
  <2>1. CASE WebRestart
    <3>1. UNCHANGED <<remote, saved>> /\ fetch' = saved.fetch /\ own' = saved.own
      BY <2>1, Zenon DEF WebRestart
    <3>2. WebOK'
      BY <3>1, Zenon DEF WebOK, StateShape
    <3> QED
      BY <3>1, <3>2, GrowsSame, Zenon
  <2>2. CASE DropSwitchedOff \/ DayPasses
    BY <1>0, <2>2, Zenon DEF DropSwitchedOff, DayPasses, web
  <2> QED
    BY <1>6, <2>1, <2>2, PublishStep, Zenon DEF OtherSteps
<1> QED
  BY <1>0, <1>1, <1>2, <1>3, <1>4, <1>5, <1>6, FeedStepKinds, Zenon

\* A feed once left out stays out.
LEMMA CrossedStays == ASSUME StoredInv, Next PROVE history.crossed \subseteq history'.crossed
<1>0. HistoryOK /\ JobsOK
  BY Zenon DEF StoredInv
<1>1. ASSUME UNCHANGED history \/ Loaded PROVE history'.crossed = history.crossed
  BY <1>0, <1>1, Zenon DEF Loaded, HistoryOK
<1>2. ASSUME NEW id \in Feed, FeedSteps(id) PROVE history'.crossed = history.crossed
  <2>1. CASE SwitchFeed(id) \/ Pass(id) \/ RefreshNow(id) \/ LoseReply(id)
    BY <2>1, Zenon DEF SwitchFeed, Pass, RefreshNow, LoseReply
  <2>2. CASE ReadCopy(id) \/ ReadState(id) \/ Fetch(id) \/ Reply(id)
    BY <2>2, Zenon DEF ReadCopy, ReadState, Fetch, Reply
  <2>3. CASE UpdateFeed(id) \/ ReplaceFeedSet(id) \/ StoreFeed(id)
    BY <1>0, <2>3, UpdateFeedDoes, ReplaceFeedSetDoes, StoreFeedDoes, Zenon
  <2> QED
    BY <1>2, <2>1, <2>2, <2>3, Zenon DEF FeedSteps, Step
<1>3. ASSUME NEW id, NEW u, SaveOwnFeed(id, u) PROVE history.crossed \subseteq history'.crossed
  <2>1. PICK failed : history' = [history EXCEPT !.crossed =
                        IF job[id] = Idle /\ failed = 0 THEN history.crossed
                        ELSE history.crossed \cup {id}]
    BY <1>3, Zenon DEF SaveOwnFeed
  <2>2. history'.crossed = IF job[id] = Idle /\ failed = 0 THEN history.crossed
                           ELSE history.crossed \cup {id}
    BY <1>0, <2>1, Zenon DEF HistoryOK
  <2> QED
    BY <2>2, Zenon
<1>4. ASSUME CoreSteps PROVE UNCHANGED history \/ Loaded
  BY <1>4, Zenon DEF CoreSteps, ApplyStart, ApplyEnd, Panic, Resume, CoreRestart
<1>5. ASSUME OtherSteps PROVE UNCHANGED history
  BY <1>5, Zenon DEF OtherSteps, WebRestart, DropSwitchedOff, DayPasses, Publish
<1>6. CASE CoreSteps \/ OtherSteps
  BY <1>1, <1>4, <1>5, <1>6, Zenon
<1>7. CASE \E id \in Feed : FeedSteps(id)
  BY <1>2, <1>7, Zenon
<1>8. CASE \E id \in OwnFeed : \E u \in Url \cup {None} : SaveOwnFeed(id, u)
  BY <1>3, <1>8, Zenon
<1> QED
  BY <1>6, <1>7, <1>8, FeedStepKinds, Zenon

\* A step of one feed is apart from the others.
LEMMA OthersApart ==
  ASSUME StoredInv, WebOK, NEW id \in Feed, FeedSteps(id), NEW k \in Feed, k # id PROVE Apart(k)
<1>0. JobsOK /\ HeldOK /\ HistoryOK
  BY Zenon DEF StoredInv
<1>1. CASE SwitchFeed(id)
  <2>1. UNCHANGED <<store, own, fetch, saved, job, pending>>
    BY <1>1, Zenon DEF SwitchFeed
  <2> QED
    BY <2>1, HeldKeptView, Zenon DEF Apart, CopyKept, FileKept
<1>2. CASE Pass(id) \/ RefreshNow(id)
  <2>1. UNCHANGED <<store, own, fetch, saved>>
    BY <1>2, Zenon DEF Pass, RefreshNow, core
  <2>2. UNCHANGED <<job, pending>> \/ \E only : Refresh(id, only)
    BY <1>2, Zenon DEF Pass, RefreshNow
  <2>3. job'[k] = job[k] /\ (UNCHANGED pending \/ pending' = Restrict(pending, DOMAIN pending \ {id}))
    BY <1>0, <2>2, RefreshDoes, Zenon DEF Moved
  <2>4. Held(k)' \in {Held(k), Idle}
    <3>1. DOMAIN pending \ {id} \subseteq DOMAIN pending
      BY Zenon
    <3> QED
      BY <2>3, <3>1, HeldKeptView, Zenon
  <2> QED
    BY <2>1, <2>3, <2>4, Zenon DEF Apart, CopyKept, FileKept
<1>3. CASE LoseReply(id) \/ ReadCopy(id) \/ ReadState(id)
  <2>1. UNCHANGED <<store, own, fetch, saved, pending>>
    BY <1>3, Zenon DEF LoseReply, ReadCopy, ReadState, core, web
  <2>2. job'[k] = job[k]
    <3>1. CASE LoseReply(id)
      BY <1>0, <3>1, JobAnswers, Zenon DEF LoseReply, Moved
    <3>2. CASE ReadCopy(id) \/ ReadState(id)
      BY <1>0, <3>2, ReadCopyDoes, ReadStateDoes, Zenon DEF Moved
    <3> QED
      BY <1>3, <3>1, <3>2, Zenon
  <2> QED
    BY <2>1, <2>2, HeldKeptView, Zenon DEF Apart, CopyKept, FileKept
<1>4. CASE UpdateFeed(id) \/ ReplaceFeedSet(id) \/ StoreFeed(id)
  <2>1. UNCHANGED <<own, fetch, saved, pending>> /\ job'[k] = job[k]
    BY <1>0, <1>4, UpdateFeedDoes, ReplaceFeedSetDoes, StoreFeedDoes, Zenon DEF Moved, web
  <2>2. UNCHANGED store \/ \E list, keep : Put(id, list, keep)
    BY <1>0, <1>4, UpdateFeedDoes, ReplaceFeedSetDoes, StoreFeedDoes, Zenon
  <2>3. CopyKept(k)
    BY <2>2, Zenon DEF CopyKept, Put
  <2> QED
    BY <2>1, <2>3, HeldKeptView, Zenon DEF Apart, FileKept
<1>5. CASE Fetch(id)
  <2>1. UNCHANGED <<store, own, pending>> /\ job'[k] = job[k]
    BY <1>0, <1>5, FetchDoes, Zenon DEF Fetch, core, Moved
  <2>2. FileKept /\ fetch'[k] = fetch[k]
    <3>1. CASE UNCHANGED <<fetch, saved>>
      BY <3>1, Zenon DEF FileKept
    <3>2. CASE saved' = [fetch |-> fetch', own |-> own] /\ \E m : fetch' = [fetch EXCEPT ![id] = m]
      BY <2>1, <3>2, Zenon DEF FileKept, WebOK
    <3> QED
      BY <1>0, <1>5, <3>1, <3>2, FetchDoes, Zenon
  <2> QED
    BY <2>1, <2>2, HeldKeptView, Zenon DEF Apart, CopyKept
<1>6. CASE Reply(id)
  <2>1. UNCHANGED <<store, own>> /\ job'[k] = job[k]
    BY <1>0, <1>6, Zenon DEF Reply, core, JobsOK
  <2>2. fetch'[k] = fetch[k]
    <3>1. UNCHANGED fetch \/ \E m : fetch' = [fetch EXCEPT ![id] = m]
      BY <1>6, Zenon DEF Reply, Delivered, Fail
    <3> QED
      BY <3>1, Zenon DEF WebOK
  <2>3. FileKept
    BY <1>6, Zenon DEF Reply, Delivered, Fail, SaveState, FileKept
  <2>4. Held(k)' = Held(k)
    BY <1>6, Zenon DEF Reply, Delivered, Held
  <2> QED
    BY <2>1, <2>2, <2>3, <2>4, Zenon DEF Apart, CopyKept
<1> QED
  BY <1>1, <1>2, <1>3, <1>4, <1>5, <1>6, Zenon DEF FeedSteps, Step

\* Every step keeps the view of every feed that is not left out.
LEMMA ValidSteps ==
  ASSUME StoredInv, ValidInv, Next PROVE ValidInv'
<1>0. WebOK /\ WebOK' /\ Grows(remote, remote') /\ history.crossed \subseteq history'.crossed
  BY WebSteps, CrossedStays, Zenon DEF ValidInv
<1> SUFFICES ASSUME NEW k \in Feed, k \notin history'.crossed PROVE RefreshInv(k)'
  BY <1>0, Zenon DEF ValidInv
<1>1. RefreshInv(k)
  BY <1>0, Zenon DEF ValidInv
<1>2. CASE \E id \in Feed : FeedSteps(id)
  <2>1. PICK id \in Feed : FeedSteps(id)
    BY <1>2
  <2>2. CASE k # id
    BY <1>0, <1>1, <2>1, <2>2, OthersApart, ApartKept, Zenon
  <2>3. CASE k = id
    <3>1. CASE SwitchFeed(k)
      <4>1. UNCHANGED <<store, own, fetch, saved, job, pending>>
        BY <3>1, Zenon DEF SwitchFeed
      <4>2. Apart(k)
        BY <4>1, HeldKeptView, Zenon DEF Apart, CopyKept, FileKept
      <4> QED
        BY <1>0, <1>1, <4>2, ApartKept, Zenon
    <3>2. CASE Pass(k) \/ RefreshNow(k)
      <4>1. UNCHANGED <<remote, store, own, fetch, saved>>
        BY <3>2, Zenon DEF Pass, RefreshNow, core
      <4>2. CASE \E only : Refresh(k, only)
        BY <1>0, <1>1, <4>1, <4>2, BeginStep, Zenon
      <4>3. CASE UNCHANGED <<job, pending>>
        <5>1. Apart(k)
          BY <4>1, <4>3, HeldKeptView, Zenon DEF Apart, CopyKept, FileKept
        <5> QED
          BY <1>0, <1>1, <5>1, ApartKept, Zenon
      <4> QED
        BY <3>2, <4>2, <4>3, Zenon DEF Pass, RefreshNow
    <3>3. CASE ReadCopy(k) \/ ReadState(k) \/ LoseReply(k) \/ UpdateFeed(k) \/ ReplaceFeedSet(k)
      BY <1>0, <1>1, <3>3, JobSteps, Zenon
    <3>4. CASE Fetch(k)
      BY <1>0, <1>1, <3>4, FetchStep, Zenon
    <3>5. CASE StoreFeed(k)
      BY <1>0, <1>1, <3>5, StoreStep, Zenon
    <3>6. CASE Reply(k)
      BY <1>0, <1>1, <3>6, ReplyStep, Zenon
    <3> QED
      BY <2>1, <2>3, <3>1, <3>2, <3>3, <3>4, <3>5, <3>6, Zenon DEF FeedSteps, Step
  <2> QED
    BY <2>2, <2>3
<1>3. CASE \E id \in OwnFeed : \E u \in Url \cup {None} : SaveOwnFeed(id, u)
  <2>1. PICK id \in OwnFeed, u \in Url \cup {None} : SaveOwnFeed(id, u)
    BY <1>3, Zenon
  <2>2. CASE k = id
    BY <1>0, <1>1, <2>1, <2>2, EditStep, Zenon
  <2>3. CASE k # id
    <3>1. /\ UNCHANGED <<store, job>> /\ FileKept /\ (k \in OwnFeed => own'[k] = own[k])
          /\ fetch'[k] = fetch[k] /\ pending' = Restrict(pending, DOMAIN pending \ {id})
      BY <1>0, <2>1, <2>3, Zenon DEF SaveOwnFeed, ForgetList, core, FileKept, WebOK
    <3>2. DOMAIN pending \ {id} \subseteq DOMAIN pending
      BY Zenon
    <3>3. Apart(k)
      BY <3>1, <3>2, HeldKeptView, Zenon DEF Apart, CopyKept
    <3> QED
      BY <1>0, <1>1, <3>3, ApartKept, Zenon
  <2> QED
    BY <2>2, <2>3
<1>4. CASE CoreSteps
  <2>1. CASE CoreRestart
    BY <1>0, <1>1, <2>1, CoreRestartStep, Zenon
  <2>2. CASE ApplyStart \/ ApplyEnd \/ Panic \/ Resume
    <3>1. UNCHANGED <<store, own, fetch, saved, job, pending>>
      BY <2>2, Zenon DEF ApplyStart, ApplyEnd, Panic, Resume, web
    <3>2. Apart(k)
      BY <3>1, HeldKeptView, Zenon DEF Apart, CopyKept, FileKept
    <3> QED
      BY <1>0, <1>1, <3>2, ApartKept, Zenon
  <2> QED
    BY <1>4, <2>1, <2>2, Zenon DEF CoreSteps
<1>5. CASE OtherSteps
  <2>1. CASE WebRestart
    BY <1>0, <1>1, <2>1, WebRestartStep, Zenon
  <2>2. CASE DayPasses \/ DropSwitchedOff \/ \E u \in Url : Publish(u)
    <3>1. UNCHANGED <<store, own, fetch, saved, job>>
      BY <2>2, Zenon DEF DayPasses, DropSwitchedOff, Publish, web, core
    <3>2. UNCHANGED pending \/ \E S : pending' = Restrict(pending, S) /\ S \subseteq DOMAIN pending
      BY <2>2, Zenon DEF DayPasses, DropSwitchedOff, Publish, web
    <3>3. Apart(k)
      BY <3>1, <3>2, HeldKeptView, Zenon DEF Apart, CopyKept, FileKept
    <3> QED
      BY <1>0, <1>1, <3>3, ApartKept, Zenon
  <2> QED
    BY <1>5, <2>1, <2>2, Zenon DEF OtherSteps
<1> QED
  BY <1>2, <1>3, <1>4, <1>5, FeedStepKinds, Zenon

\* NotModifiedTrue for any number of feeds, addresses, versions, crashes of either
\* process, lost answers and failed writes: when the core takes a 304, the copy it
\* confirms is the list the server held when it answered.
THEOREM FeedsNotModified == Spec => NotModifiedTrue
<1>1. Init => ValidInv
  <2> SUFFICES ASSUME Init PROVE ValidInv
    OBVIOUS
  <2>1. saved.fetch = fetch /\ saved.own = own /\ history.crossed = {}
    BY Zenon DEF Init
  <2>2. \A u \in Url : remote[u] \in 1..MaxVersion
    <3>1. \A u \in Url : remote[u] = 1
      BY Zenon DEF Init
    <3> QED
      BY <3>1, FeedAssumption, SMT
  <2>3. /\ remote = [u \in Url |-> remote[u]] /\ own = [id \in OwnFeed |-> own[id]]
        /\ fetch = [id \in Feed |-> fetch[id]] /\ \A id \in Feed : fetch[id] = NoFetch
    BY Zenon DEF Init
  <2>4. WebOK
    BY <2>1, <2>2, <2>3, StateShapes, Zenon DEF WebOK
  <2>5. ASSUME NEW id \in Feed PROVE RefreshInv(id)
    <3>1. /\ Copy(id) = None /\ job[id] = Idle /\ Held(id) = Idle /\ id \notin DOMAIN store
      BY Zenon DEF Init, Copy, Held
    <3>2. Address(id) \in Url \cup {None}
      BY FeedAssumption, Zenon DEF Init, Address
    <3>3. NoFetch.val = None
      BY Zenon DEF NoFetch
    <3>4. fetch[id].val = None /\ saved.fetch[id].val = None
      BY <2>1, <2>3, <3>3, Zenon
    <3>5. Idle.pc = "idle" /\ Idle.answer = ""
      BY IdleShape, Zenon
    <3> DEFINE a == Address(id)
    <3>6. View(remote, a, None, None, None, Idle, Idle)
      <4>1. a \in Url \cup {None}
        BY <3>2, Zenon
      <4> HIDE DEF a
      <4> QED
        BY <3>5, <4>1, Zenon DEF View, Valid
    <3>7. View(remote, Address(id), Copy(id), fetch[id].val, saved.fetch[id].val, job[id], Held(id))
      BY <3>1, <3>4, <3>6, Zenon
    <3> QED
      BY <2>1, <3>1, <3>7, Zenon DEF RefreshInv
  <2> QED
    BY <2>4, <2>5, Zenon DEF ValidInv
<1>2. StoredInv /\ ValidInv /\ [Next]_vars => ValidInv'
  <2> SUFFICES ASSUME StoredInv, ValidInv, [Next]_vars PROVE ValidInv'
    OBVIOUS
  <2>1. CASE Next
    BY <2>1, ValidSteps, Zenon
  <2>2. CASE UNCHANGED vars
    <3>1. WebOK /\ UNCHANGED <<remote, store, own, fetch, saved, pending, job, history>>
      BY <2>2, Zenon DEF vars, core, web, ValidInv
    <3>2. WebOK' /\ Grows(remote, remote')
      BY <3>1, WebSame, GrowsSame, Zenon
    <3>3. ASSUME NEW k \in Feed, k \notin history'.crossed PROVE RefreshInv(k)'
      <4>1. Apart(k)
        BY <3>1, HeldKeptView, Zenon DEF Apart, CopyKept, FileKept
      <4>2. RefreshInv(k)
        BY <3>1, <3>3, Zenon DEF ValidInv
      <4> QED
        BY <3>2, <4>1, <4>2, ApartKept, Zenon
    <3> QED
      BY <3>2, <3>3, Zenon DEF ValidInv
  <2> QED
    BY <2>1, <2>2
<1>3. ASSUME StoredInv, ValidInv, Next, NEW id \in Feed,
             job[id].pc = "deliver", job[id].same, job'[id].answer = "ok", id \notin history.crossed
      PROVE  Copy(id) = job[id].list
  <2>1. /\ id \in DOMAIN store => store[id] # None
        /\ Copy(id) \in {None, job[id].list} /\ job[id].answer # "ok"
    BY <1>3, Zenon DEF ValidInv, RefreshInv, View, Carries
  <2>2. JobsOK /\ HeldOK /\ HistoryOK
    BY <1>3, Zenon DEF StoredInv
  <2>3. job'[id] # job[id] /\ Idle.answer # "ok"
    BY <1>3, <2>1, IdleShape, Zenon
  <2>4. UpdateFeed(id)
    <3>1. ~CoreSteps
      <4>1. ~CoreRestart
        BY <1>3, <2>2, <2>3, CoreRestartDoes, Zenon
      <4> QED
        BY <2>3, <4>1, Zenon DEF CoreSteps, ApplyStart, ApplyEnd, Panic, Resume
    <3>2. ~OtherSteps
      BY <1>3, <2>3, Zenon DEF OtherSteps, DayPasses, WebRestart, DropSwitchedOff, Publish
    <3>3. \A k, u : ~SaveOwnFeed(k, u)
      BY <2>3, Zenon DEF SaveOwnFeed
    <3>4. PICK k \in Feed : FeedSteps(k)
      BY <1>3, <3>1, <3>2, <3>3, FeedStepKinds, Zenon
    <3>5. k = id
      BY <1>3, <2>3, <3>4, OthersApart, Zenon DEF Apart, ValidInv
    <3>6. ~(SwitchFeed(id) \/ Pass(id) \/ RefreshNow(id))
      <4>1. job[id] # Idle
        BY <1>3, IdleShape, Zenon
      <4> QED
        BY <2>3, <4>1, Zenon DEF SwitchFeed, Pass, RefreshNow, Refresh
    <3>7. ~(LoseReply(id) \/ ReadCopy(id) \/ ReadState(id) \/ Fetch(id) \/ Reply(id))
      BY <1>3, Zenon DEF LoseReply, ReadCopy, ReadState, Fetch, Reply
    <3>8. ~(ReplaceFeedSet(id) \/ StoreFeed(id))
      BY <1>3, Zenon DEF ReplaceFeedSet, StoreFeed
    <3> QED
      BY <3>4, <3>5, <3>6, <3>7, <3>8, Zenon DEF FeedSteps, Step
  <2>5. id \in DOMAIN store
    BY <1>3, <2>1, <2>2, <2>4, UpdateFeedDoes, Zenon
  <2> QED
    BY <2>1, <2>5, Zenon DEF Copy
<1>4. StoredInv /\ ValidInv /\ [Next]_vars =>
        [\A id \in Feed :
           job[id].pc = "deliver" /\ job[id].same /\ job'[id].answer = "ok"
             => id \in history.crossed \/ Copy(id) = job[id].list]_vars
  BY <1>3, Zenon
<1> QED
  BY <1>1, <1>2, <1>4, StoredAlways, PTL DEF Spec, NotModifiedTrue
===============================================================================
