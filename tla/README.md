# easywall in TLA+

Models of easywall's apply cycle, of the table it writes and of the parts around
it, the checks TLC makes of them and the theorems TLAPS proves about them. Paths are
relative to the repository (`src/` is its root); `core/`, `shared/` and `web/` are short
for the directories under `internal/`.

## The system

easywall is two processes. `easywall-core` runs as root, owns `table inet
easywall` in the kernel and the files of `data_dir`, and serves a Unix socket.
`easywall-web` is an unprivileged web interface that talks to that socket. The
`easywall-core` binary is also the console command (`panic`, `resume`, …), which
uses the socket when a daemon answers and acts by itself when none does.

The promise everything else rests on: **an apply takes itself back unless an
operator confirms it in the acceptance window**, and `panic` always gets the
machine back.

Around that cycle the core keeps rules, configuration, feeds, counters and logs, and
the web process signs operators in, edits what is staged, fetches feeds and reports
outcomes.

| part | source | module | how far |
|---|---|---|---|
| acceptance controller | `core/acceptance.go` | `Acceptance`, `AcceptanceWindow`, `Decision` | whole |
| apply, rollback, restore, panic, resume, their markers and records | `core/firewall.go`, `restore.go`, `unconfirmed.go`, `panicmode.go`, `appliedconfig.go`, `dockerreconcile.go`, `cmd/easywall-core/subcommands.go` | `Firewall` | but for audit lines and snapshots |
| start, stop, socket, connection limits | `core/daemon.go` | `Connections` | but for the watchdog |
| the table, lockout verdict, drop reason, row actions | `core/nftables.go`, `shared/reach.go`, `shared/packetlog.go`, `web/handler_apply.go`, `web/handler_blocked.go` | `PacketFilter` | order and verdicts of the rules |
| rules file, ids, preview, export and import | `core/rules.go`, `shared/ruleid.go`, `shared/diff.go` | `Rules` | but for the audit log |
| easywall.toml | `core/config.go` | `CoreConfig` | sections as numbers |
| feeds, from the server to the kernel set | `web/feeds.go`, `feed_state.go`, `core/feeds.go`, `feedstore.go`, `nftables_feeds.go` | `Feeds`, `FeedMath` | but for times and parsing |
| usage counters | `core/usage.go` | `Usage` | one rule |
| packet log | `core/packetlog.go` | `PacketLog` | ring and file |
| login events | `core/loginevents.go` | `LoginEvents` | the debounced kinds |
| sessions | `web/sessionrevoke.go`, `middleware.go`, `auth.go` | `Sessions` | |
| second step, factors, recovery codes, passkeys | `web/handler_login.go`, `handler_2fa.go`, `handler_passkey.go`, `pendingattempts.go`, … | `SecondFactor` | but for the cryptography |
| sign-in limiter, burst notice | `web/middleware.go`, `notifylogins.go` | `SignInLimits` | |
| first run | `web/handler_firstrun.go`, `firstrunpending.go` | `FirstRun` | |
| web.toml | `web/config.go` | `WebConfig` | four of twelve keys |
| notifier | `web/notify.go`, `notifystate.go` | `Notifier` | the poll |
| demo core | `web/democlient.go` | `Demo` | what changes |

`PROJECT.json` lists every part with its sources, the lines each definition stands
for, and the hazards at their lines.

## Modules

Each module's head says what its state stands for and what is abstracted; an action
is a handler, or the part of one between two points where another goroutine or
process can come in. `Acceptance` is the controller's struct and methods, used by
`AcceptanceWindow` (with all its callers) and by `Firewall`; `Decision` is what the
controller promises. `MC*` modules give constants their values. Three of them put
several specifications into one run, and a behaviour is of one of them, so that
states add up and do not multiply: `MCScenes` (six instances of `Firewall` with
different faults and events), `MCPages` (what the pages change) and `MCServices` (the
services). Inside a module everything interleaves; between the parts of `MCPages` or
`MCServices` nothing is shared. Interaction across parts is modelled where the code
has it: the controller inside `Firewall`, web fetcher, core, kernel and an apply in
`Feeds`, the table against the pages that answer for it in `PacketFilter`, the core's
status against the poll in `Notifier`. The `*Proofs` modules hold the theorems.

A history variable (`okRules`, `crossed`, `behind`, `replaced`, `past`, `edited`, …)
records what a property needs to know of earlier steps and changes no guard. Records
named `…Bounds`, `bound`, `left`, `quota`, `budget` or `ration` are bounds of a run.

### State of `Firewall`

On disk: `current`, `staged`, `backup` (rules.json), `marker` (the unconfirmed
marker with the configuration snapshot inside it), `panic`, `applied`
(applied-config.json), `lastFile` (last_apply). In the kernel: `table`. In
memory: `acc` (the controller), `live` and `window` (the configuration, which is
saved in its file and so survives), `lastApply`, `applying` (the slot), `daemon`,
`request`, `console`, and `pc`/`loc` for the four goroutines that take the slot:
`apply`, and RestoreCurrent called at `boot`, by `resume` and by `bridge`.
`cli` is the console command of another process. `okRules` and `okConfigs` are
history: what an operator approved, by an ACCEPT answered true, by an apply with
the window off, or, for options, by there being no record to go back to (the code
falls back to the live ones and says so).

A rule set is a member of `Rules`, a pair of options and network settings a
member of `Configs`. Labels of `pc` name the point before the next call that
changes or reads shared state; each action is the code from there to the next
such call. Every call that can fail has a fault kind, and `Faults` says which of
them fail in a run; `Events` says what happens around the cycle.

Assumptions about the environment:

- a write that was made survives a power cut. rules.json is renamed without a
  sync; the marker's directory sync that follows it in apply and in rollback
  commits the rename on a journalling filesystem, but the code does not ensure
  more than that, and a disk that loses unsynced writes is not modelled;
- a transaction of nftables is atomic; `ApplyWithFeeds` can still fail after it
  (custom rules, final log), fault `late`, and `reset` drops the error of its
  delete, fault `delete`;
- a connection whose request was read is served to its end during Stop, so
  requests still arrive while the core is stopping.

Not in the model: the recover of the apply goroutine, the error branch of
`Acceptance.Start` (it returns nil on every path), audit lines, snapshots,
usage counters (in `Usage`), and the feed refresh (in `Feeds`), which takes the slot
like a restore (fault `slotwait` is a slot that stays taken).

## Runs

| run | states | question |
|---|---|---|
| `cycle` | 990 000 | the apply cycle in six scenes, below |
| `ends` | 84 000 | Stop ends without the clock, an apply ends once it runs; two scenes, below |
| `panic` | 630 000 | panic mode, with nobody at work on the kernel, means no table; one scene, below |
| `filter` | 22 000 | what the pages say of the table is what the table does; row actions for an address or a port keep the way in, one for a country waits for an apply that has its copy; containers are shielded and get out |
| `feeds` | 260 000 | kernel, store and server agree about lists; a feed that is on becomes current |
| `pages` | 620 000 | sessions, second step, wizard, limits, both configuration files, rule sets |
| `services` | 95 000 | the acceptance window (one answer, the outcome is it, stopping needs no timer, implements `Decision`), packet log, counters, login events, connections, notifier, demo, feed arithmetic |

### `cycle`, `ends` and `panic`: the scenes

The first six scenes are those of `cycle`, `teardown` is that of `panic`, and the last
two are those of `ends`. Between them they take every action of `Firewall`.

| scene | what happens | what fails |
|---|---|---|
| crash | kill, power cut, stop, saves on a configured host; window on and off; 3 rule sets | backup, marker, promotion, record |
| first | a fresh host, saved rules, power cut, stop; the window on, or off, throughout | kernel writes, whole or late |
| options | saves of two configurations at any moment, reconciler, stop | nothing |
| panics | PANIC, RESUME, the daemonless commands, stop | kernel writes, whole or late |
| resumes | PANIC, RESUME, reconciler, stop | nothing |
| storm | PANIC, RESUME, kill on a fresh host, the empty set alone | everything |
| teardown | PANIC, RESUME, the daemonless commands, reconciler, stop, power cut | kernel writes, whole or late |
| console | PANIC, RESUME, stop, saves, kill, power cut | kernel writes, the wait for the slot |
| bridged | reconciler, stop, saves, kill, power cut; window on and off | kernel writes, the wait for the slot |

`NextStartApproved` and `ConfigApproved` are checked in all scenes of `cycle`; a property named `…Through` in the scenes its definition lists, because the
others contain a combination under which the code does not keep it (below).

Two rule sets besides the empty one are enough for "the set before, the set on trial,
another staged meanwhile"; two configurations for "recorded" and "saved since". A set
and a configuration are only compared and copied, so more are not expected to add
behaviour; that is an argument, not a result, except for what is proved. Scenes that save no rules
have the empty set alone, which a host that has applied it enforces like any other.
Liveness needs the whole graph with its fairness conditions, so `ends` has the
smallest instances: it sees a stop among RESUME's restore and an apply, and among the
reconciler's restore and an apply, not among all three at once (`resumes` and `teardown`
do, for safety); there is one rule set and one configuration to save. Applies,
crashes, saves and commands are not bounded in `cycle`, `ends` and `panic`, nor is the acceptance window in `services`. Symmetry
permutes the non-empty rule sets and the configurations, in `cycle` only among the
passing runs, which checks no liveness.

### `filter`

Six addresses (public, two of a bridge inside Docker's pool, private, two of IPv6) and
two ports; every packet over them; two families of configurations, one for what the
input chain depends on and one for the forward chain. `VerdictSound` does not look at
a port forwarding on the web port; a bridge outside Docker's pool may be accepted where
the page says blocked, because the page cannot list bridges. Actions on log rows are
explored on a part of the first family (`MCRowConfigs`). `stageFromLog` asks
`lockoutRefusal` for an address or a port and not for a country; `WayInKept` says of a
country that the arrival of its copy changes nobody's way in, because the apply page
refuses to start while a staged country has no copy (`countryWithoutCopy`). What the
country then takes away is in the verdict of the apply page (`VerdictSound`) and undone
by the window. Within one request the model has no gap: a country staged between the
look for copies and the apply, or a list saved between a row action's read and its save,
is not explored. A country table that disagrees with a country's copy is; a core that
cannot say which copies it has is not. Two countries, of which one may be on, reach the
refusal at `MaxCountries`.

### `feeds`

Four feeds (catalogue, published in two files, country, the operator's own), three
addresses, four versions of which every second shrinks below 70 %; `MCStarts` says how
many edits, publications, applies and faults each start has. A feed whose address was
edited while its refresh was in flight is set aside in `NotModifiedTrue` and
`StaysCurrent`: the code then stores the old address's validators with the new one.

### `pages`

- sessions: two sessions, two requests at a time, a lifetime of one second in ticks of
  half a second, so that a cookie and a logout record both reach their limits;
- second step: two requests at a time over seven starts (`MCFactorBounds`: the budget
  as its state expires, a replay across a restart, a code spent during an edit, …).
  Two removals that overlap can leave no factor, and a page's save can write back a
  code spent since it read them: `ProofOnce` sets that code aside, and a proof whose use
  was not written, or was in a replay store that a restart finds gone or unreadable.
  `AttemptBudget` counts what is looked at while the state lives. A request that read
  the state alive and is charged after it expired finds its count swept and has a fresh
  one: with such late charges counted too, TLC finds more than `MaxAttempts`. A secret,
  where there is one, is taken as enrolled;
- wizard: two browsers, two forms, two failures, a restart;
- limits: two clients of one /64 and one more, one bucket at most in each table;
- web.toml: five files (shipped, answered, keys in a table, a value on two lines, a
  key twice), saves, edits, failing writes, in place and by rename. `SaveReadsBack` sets
  a write in place that was cut short aside, like an edit by hand;
- easywall.toml: edits, saves, failing saves, a reload in two halves, a start. An edit
  of a path is not adopted, and the next save undoes it, also when a reload has seen it
  (`config.go:665-667`); the comment at `config.go:426-427` reads as if the paths were
  recorded like `[packet_log]`, which they are not. `NextStartAgrees` is about sections;
- rule sets: two tabs, imports of sets that differ in one respect.

### `services`

A ring of two cells and nine packets; one rule's counter with two writes and two
ticks; two kinds of event, two addresses and two buckets; three connections (console,
one silent, one other) with one served and one queued at a time, which does not reach
the refusal at a full queue; two windows for the notifier; two applies in the demo;
every list of up to two prefixes in any order, and of three in one order, over eight
addresses of one family and four of the other.

`feeds`, `pages` and `services` end when their bounds are used up, so they do not
check deadlock; the others do.

### Fairness

A goroutine that can run does (Go's scheduler), and so do Stop and the console command
being served. `waitForApplySlot` polls the slot every 50 ms, so a restore that finds it
free takes it. The clock (`Expire`) is not fair in `FairSpec`, so that neither
`StopEnds` nor `ShutdownNeedsNoTimer` can lean on the timer; `ApplyEnds` assumes its
fairness in its statement. In `Connections` nothing is assumed
of a peer or of its deadline; in `Notifier` the ticker runs and an accepted apply is
recorded; in `Feeds` a feed
that is on comes due, a step goes on, a window closes and a day passes. Servers,
operators and crashes are never assumed.

### Runs that end in a violation

Each states what a comment or a document of the repository says and finds a
behaviour of the code against it; `PROJECT.json` quotes both.

| run | what happens |
|---|---|
| `v_panic_options` | panic inside a window: the record keeps the options on trial, RESUME enforces them |
| `v_first_kill` | killed in the window of the first apply ever: the table stays after the restart |
| `v_resume_claim` | RESUME reports a restore that wrote nothing |
| `v_resume_race` | after panic and a power cut inside a window, an apply overtakes RESUME's restore and backs up the unconfirmed set |
| `v_pending` | a port rule's sources go from none to comments only: the table changes, the preview lists no row |

Five more combinations fail. Each can be had by changing `Installs`, `Faults` and
`Events` of a configuration:

- `ConfigApproved` with two configurations, configure and powercut: a power cut inside rollback after
  the marker is removed lets the next boot enforce the options on trial;
- `NeverLeftOpen` with clipanic and cliresume: `resume` while the daemon is booting
  ends panic mode and nobody restores;
- `NextStartApproved` on a fresh host with the fault unmark: the next start reverts
  to the empty set and enforces it;
- `PanicDown` with the fault delete: `reset` drops the error and PANIC reports
  success;
- `PanicDown` with the event kill: a core killed between the marker and the teardown
  leaves the table, and the next boot, seeing the marker, does not touch it.

One more has no property here: an ACCEPT answered true during a kernel write that
then fails is rolled back, because the window opens before the write.

The scenes leave out exactly what these need: `options` has neither panic nor crashes;
`crash` starts from a configured host and has no panic; `resumes` has no daemonless
command; `panics` has no kill (a core that dies between the marker and the teardown
leaves the table up, which the code's comment accepts) and no failing delete.

`PreviewSeesChange` is `PendingIsExact` without the rules of `v_pending` and without
descriptions that spell one of the preview's own marks.

A property may have several conjuncts (`EndedStaysEnded`, `NoticesEarned`,
`ContainersKept`, `SaveReadsBack`, `NewestKept`, `SetIsTheList`, …). The mutant
`PROJECT.json` lists for it breaks one of them, which says nothing of the others.

## Proofs

TLAPS proves the following for every value of the constants. The theorems rest
on the inductive invariants named below; those of the apply cycle were checked by TLC on
small instances before they were proved.

### The apply cycle

- `FirewallProofs`: `TypeCorrect` and `SlotExcludes`, from `StructInv`. Slot
  exclusion is not inductive alone: one must know which labels each goroutine can
  be at (`LabelInv`), that a restore past its load holds a configuration
  (`OptsInv`), that a window is open only between Start and the end of Wait of an
  apply that wants one (`WindowInv`), and that no goroutine runs in a core that is
  down (`LifeInv`). The lemmas go by kind of step: what moves, what it does to
  control, what it does to data.
- `KernelProofs`, first part: `NextStartIsApproved`: whenever the core dies, the rule
  set the next start enforces was approved. `StartInv` says, for each point of apply,
  rollback and restore, which of `current` and `backup` is approved and whether the
  marker is there: the backup is approved from before the marker is placed until
  the window has an outcome, and an unmarked `current` is approved always.
- Its second part goes from the files to the table. It begins by saying once, variable
  by variable, what a step of apply, of RestoreCurrent, of a request, of the console
  and of a start or stop does (`ApplyEffect`, `RestoreEffect`, `BystanderEffect`,
  `StartsFrame`, `EndsFrame`, collected by `StepKinds`); the invariants are proved
  from these. `PanicEmpties` (`PanicDown`) from `DownInv`: under panic mode a table
  has somebody left who takes it down. `FirstUndone` (`FirstApplyUndone`) from
  `PrevInv`, what an apply remembers of before, and `FirstInv`. `RollbackRestores`
  (the action property `RollbackStep`) from `RewriteInv`: what the rollback wrote, the
  set of before with the configuration that was recorded when the apply began, stays
  until apply returns. Without a record the code takes the live configuration, and the
  property asks for none in particular.
- `TrustProofs`: `KernelTrusted` (`KernelApproved`) from `TrustInv`: rules nobody
  approved have somebody left who replaces them or takes them down. `OptionsTrusted`
  (`ConfigApproved`) from `ConfigInv`: every copy of a configuration, recorded or read
  by a goroutine, is approved but for those of the apply under way. `StaysFiltered`
  (`NeverLeftOpen`) from `TearInv` and `OpenInv`: a table that was torn down outside
  panic mode has somebody left who fills it.

The theorems about the table hold where the code can keep the promise, and each says
where that is. TLC refutes the property when what is left out is let in, except where
the last column says otherwise.

| theorem | assumption | leaves out | not shown to be needed |
|---|---|---|---|
| `NextStartIsApproved` | `Benign` | a failing re-read after the promote, revert or removal of the marker; panic together with a crash (`v_resume_race`) | |
| `PanicEmpties` | `PanicObeyed` | a failing or unreported delete, a panic marker that reads as unknown, a kill between marker and teardown | |
| `FirstUndone` | `Benign`, `PanicObeyed` | both; a kill is `v_first_kill` | the marker that reads as unknown, the failing removal of the marker |
| `RollbackRestores` | `RollbackObeyed` | `Benign`'s; panic mode; a write or delete the kernel refuses | the failing re-read |
| `KernelTrusted` | `KernelObeyed` | `Benign`'s; kernel faults; a kill on a host that was never configured or whose rules do not read; RESUME against the daemonless `resume` | a last_apply that is not written on a fresh host; `panic` of both consoles without `resume` |
| `OptionsTrusted` | `ConfigObeyed` | `Benign`'s; panic mode (`v_panic_options`), crashes, kernel and record faults, since applied-config.json is written before the window is decided | a fresh host; the daemonless `panic` |
| `StaysFiltered` | `OpenObeyed` | `Benign`'s; rules that do not read, a write the kernel refuses, a slot that stays taken, a panic marker that reads as unknown, the daemonless commands | |

`KernelTrusted`, `StaysFiltered`, `FirstUndone` and `RollbackRestores` state the
formulas the `…Through` properties of `cycle` check scene by scene. The scenes `first`
and `panics` go beyond the assumptions in places (kernel writes that fail, consoles
that compete), so neither the run nor the theorem makes the other superfluous.

### The services

`ServicesProofs`:

- the window: `WindowTypeCorrect`, `AnswersExclude`, `OutcomeFollowsAnswer`,
  `ReasonFollowsCause` and `Refinement` (the controller implements `Decision`).
  `WindowIInv` adds what the answers granted so far say about the flags of an open
  window and about the outcome of a closed one;
- `UsageCountsOnce`: `Booked` says what total, baseline and counter amount to at each
  point of a collector and of a write;
- `ConnectionsEnd`, for any number of connections: `ConnInv` says who answers for the
  socket and the NFLOG group (Start until it publishes them, Stop until it has passed
  them) and that what Stop saw end does not begin again.

### The feeds

`FeedsProofs`, for any number of feeds, addresses, versions, edits, faults and restarts
of either process, under `FeedAssumption` (bounds are numbers, special values distinct,
every feed has an address). TLC checked the three invariants first.

- `FeedsStored` (`KernelIsStored`). An update writes the kernel first and feeds.json
  after it, and a panic, a failed write or a restart may fall between the two.
  `StoredInv` adds that an update past its checks holds the slot, so that the rules in
  force are those it read and `Put` keeps every copy they need, and that the list on
  its way to the file is the one in the table;
- `FeedsShrinkEarned` (`ShrinkEarned`). The core counts refusals in memory and forgets
  them with it. `WatchInv` says that it never counts more of them than there were
  since a version was last stored or confirmed;
- `FeedsNotModified` (`NotModifiedTrue`). The validators belong to the web process, in
  memory, in its state file and in requests on their way; the copy they speak of is the
  core's. `ValidInv` says of each feed that these validators are of its present address
  and of no newer version than the copy, if there is one, that a list on its way is not
  older than any of them, and that a refresh answered 304 carries the list the core
  has, or the core has none. The 304 alone would not give this: an update whose answer
  was lost has been stored, and its validators have not. A feed whose address was
  edited during its refresh is left out, as in the property.

### The pages

- `SecondFactorProofs`: `FactorBudget`. Counts are swept by age, so the count does not
  bound the checks by itself: `FactorInv` adds that a count is never older than its
  state, and that the count of a state that lives covers what was looked at for it.
  `FactorOnce` (`ProofOnce`): `ProofInv` says that a proof somebody was granted a
  session for, or is about to be, is barred, a step of the app by the last accepted
  one in memory and on disk, a recovery code by not being stored; and that one request
  at most is about to grant it. It leaves out what `ProofOnce` leaves out.
- `PagesProofs`: `SessionsEnd` (`EndedStaysEnded`). The record of a logout is swept,
  and a response in flight may renew a cookie after the logout. `SessionInv` says that
  everything left of a session that was logged out is older than the record of it, or
  too old to be used, and that a session replaced by a new password has neither a
  request nor a cookie with it. It needs a request to end within the session lifetime
  (`SessionsAssumption`; the code has less than a minute against ten).
  `WizardCodes` and `WizardAccount`: a wizard that goes on to its settings is the one
  whose ports are staged. `ConfigEnvStaysOut`, `ConfigNextStart`, `ConfigLogEdit`: a
  save writes `fileConfig` and a reload what it read a while ago; `ConfigInv` says
  where each copy may differ from the file.
- `HistoryProofs`: `WindowsHold` (`NoWindowHoldsMore`). The sweep forgets buckets, so
  buckets do not bound admissions by themselves: `LimitInv` says that an admission less
  than a refill ago still has its bucket, which holds at most what is left after it and
  all that followed. `OneOutcomeEach` (`OneOutcome` of the demo): `DemoInv` adds that
  no line of the log names the outcome of the apply whose window is open, or of one
  that has not begun.

The assumption on the constants (`ConstantsAssumption`) only says that the special
values are distinct from the ordinary ones and that the sets are of the right kind.
The other modules' assumptions (`ConnectionsAssumption`, `DemoAssumption`, …) say
that bounds are numbers, special values distinct and, in `SignInLimits`, that a bucket
is not swept before it has refilled; otherwise the bounds are arbitrary.

Proved and checked by no run: `WindowTypeOK` of `AcceptanceWindow` and `TypeOK` of
`Firewall`, `OneAnswer`, `ReasonIsTheCause`, `SlotExclusion`, `AccountStands`,
`EnvStaysOut`, `LogEditKept`.

### Only model-checked

- liveness (`StopEnds`, `ApplyEnds`, `ShutdownNeedsNoTimer`, `StaysCurrent`,
  `StopReturns`, `OutcomeHeard`), which is out of the prover's reach;
- `NewestKept` and `EveryEventCounted`, which need induction over a fold, and
  `SetIsTheList`, which is about recursive definitions;
- `IDsNameOneRule`: an imported id is only different from later fresh ones because the
  run's fresh ids are, as random ids are in practice; no assumption short of that
  gives the theorem;
- the rest of `PacketFilter`, `Rules`, `WebConfig` and `NoticesEarned`, not attempted.

## Not modelled

- rendering, translations, help texts, the country table, certificates and ACME: no
  protocol state, or a library's;
- health, self-test and the reading commands: they change nothing the models have;
  the self-test drives a kernel in network namespaces;
- netlink encodings and the expressions of a rule: `PacketFilter` has what they match;
- a disk that loses writes that were not synced, and the wording and rotation of the
  audit log;
- the argon2 slot, signatures and one-time-code arithmetic: a proof is right or wrong;
- the messages about panic mode, and the warnings about published ports and the
  builder's own check of the table;
- the watchdog, backoff times, and which of several due feeds goes first.
