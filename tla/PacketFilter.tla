--------------------------- MODULE PacketFilter ---------------------------
(***************************************************************************)
(* The nftables table easywall writes, as the sequence of rules the core   *)
(* queues for one apply (internal/core/nftables.go), and the three places  *)
(* that answer for it without asking the kernel: the lockout verdict of    *)
(* the apply page (shared.Reachable), the reason shown beside a dropped    *)
(* packet (shared.DropReason) and the row actions of the blocked page.     *)
(*                                                                         *)
(* An address is a value, a list entry the set of addresses it covers: {}  *)
(* is a comment, and no entry covers both families.  A packet carries what *)
(* the rules tell apart; "odd" is what the protection modules look at.     *)
(* Every log option is on: it decides only whether a drop is recorded.     *)
(***************************************************************************)
EXTENDS Naturals, Sequences, FiniteSetsExt, SequencesExt

CONSTANTS
    Addr, V6,       \* the addresses, and those of IPv6
    Bogon, Pool,    \* shared.BogonRanges and shared.dockerPoolRanges
    Port, SSHPort,  \* the ports, and 22
    WebPort,        \* where the web interface listens
    FeedAddrs,      \* what each feed's copy holds: a function on the feeds
    Country,        \* the feeds that are a country's
    MaxCountries,   \* how many of them may be on
    Trusted,        \* trusted_proxies
    Configs,        \* the rules and settings a run starts from
    Bridges,        \* the bridge networks Docker may have
    Rows,           \* packets the packet log may show
    RowConfigs,     \* a bound: under which of Configs a row action is taken
    Clients         \* who presses a button on the blocked page

V4 == Addr \ V6
Feed == DOMAIN FeedAddrs

ASSUME AddrAssumption == /\ V6 \subseteq Addr /\ Bogon \subseteq V4 /\ Pool \subseteq Bogon
                         /\ FeedAddrs \in [Feed -> SUBSET Addr]
                         /\ Country \subseteq Feed /\ MaxCountries \in Nat
                         /\ WebPort \in Port /\ SSHPort \in Port /\ 0 \notin Port

VARIABLES
    current,    \* the rules and settings the table was built from
    bridges,    \* the bridge networks detected at that apply
    table,      \* what the kernel holds
    staged,     \* the rules waiting for the next apply
    asked       \* the last row action: who pressed what, and the answer

vars == <<current, bridges, table, staged, asked>>

-----------------------------------------------------------------------------
(* Rules and packets. *)

Proto == {"tcp", "udp", "echo", "ra", "nd", "icmp", "other"}
ICMP == {"echo", "ra", "nd", "icmp"}
State == {"new", "established", "invalid"}
Odd == {"none", "flood", "rst", "scan", "frag", "broadcast", "multicast", "anycast"}

Packet == [lo: BOOLEAN, src: Addr, dst: Addr, proto: Proto, port: Port \cup {0},
           state: State, odd: Odd]

\* A match is a packet whose fields are sets; Every matches everything.
Every == [lo |-> BOOLEAN, src |-> Addr, dst |-> Addr, proto |-> Proto,
        port |-> Port \cup {0}, state |-> State, odd |-> Odd]

Matches(m, p) == \A f \in DOMAIN m : p[f] \in m[f]

Rule(m, v, l) == [match |-> m, verdict |-> v, log |-> l]
When(on, rules) == IF on THEN rules ELSE <<>>

\* The networks of a list that render: a comment is no rule.
Usable(entries) == {e \in entries : e # {}}
InAnyEntry(a, entries) == \E e \in entries : a \in e

\* One rule for every network of a list, matched on one end of the packet.
ForEach(entries, end, v, l) ==
    SetToSeq({Rule([Every EXCEPT ![end] = e], v, l) : e \in Usable(entries)})

FiltersHost(r) == r.scope \in {"host", "both"}
FiltersForwarded(r) == r.scope \in {"forwarded", "both"}

-----------------------------------------------------------------------------
(* The input chain, in the order ApplyWithFeeds writes it. *)

WithoutIPv6(entries) == {e \in entries : e \cap V6 = {}}

ContainerNetworks(c, detected) ==
    LET nets == (IF c.docker.bridges THEN detected ELSE {}) \cup c.docker.custom
    IN  IF ~c.docker.enabled THEN {}
        ELSE IF c.ipv6 = "block" THEN WithoutIPv6(nets) ELSE nets

LoopbackAccept == <<Rule([Every EXCEPT !.lo = {TRUE}], "accept", "")>>

FamilyVerdict(c) ==
    CASE c.ipv6 = "passthrough" -> <<Rule([Every EXCEPT !.src = V6], "accept", "")>>
      [] c.ipv6 = "block"       -> <<Rule([Every EXCEPT !.src = V6], "drop", "")>>
      [] OTHER                  -> <<>>

\* A per-source meter: what is over the rate jumps to a chain that drops it.
ICMPFlood == <<Rule([Every EXCEPT !.proto = {"echo"}, !.odd = {"flood"}], "drop", "icmp_flood")>>
TCPRSTFlood == <<Rule([Every EXCEPT !.proto = {"tcp"}, !.odd = {"rst"}], "drop", "tcp_rst")>>
SYNFlood == <<Rule([Every EXCEPT !.proto = {"tcp"}, !.odd = {"flood"}], "drop", "syn_flood")>>

EstablishedAccept == <<Rule([Every EXCEPT !.state = {"established"}], "accept", "")>>

ICMPv6Accepted(c) == (IF c.ra THEN {"ra"} ELSE {}) \cup (IF c.na THEN {"nd"} ELSE {})
ICMPRules(c) ==
    When(c.ipv6 = "filter",
         <<Rule([Every EXCEPT !.src = V6, !.proto = ICMPv6Accepted(c)], "accept", "")>>)

EchoAccepts(c) ==
    When(c.echo, <<Rule([Every EXCEPT !.src = IF c.ipv6 = "filter" THEN Addr ELSE V4,
                                    !.proto = {"echo"}], "accept", "")>>)

PortScan == <<Rule([Every EXCEPT !.proto = {"tcp"}, !.odd = {"scan"}], "portscan", "")>>
InvalidDrop == <<Rule([Every EXCEPT !.state = {"invalid"}], "drop", "invalid")>>
FragmentDrop ==
    <<Rule([Every EXCEPT !.lo = {FALSE}, !.src = V4, !.odd = {"frag"}], "drop", "fragment")>>

\* The bogon chain: the allowlist, the container networks and the IPv4
\* sources a host rule names for its own port return; the rest of the ranges
\* is dropped.
BogonChain(c, nets) ==
    ForEach(WithoutIPv6(c.allow \cup nets), "src", "return", "")
    \o SetToSeq({Rule([Every EXCEPT !.src = e, !.proto = {r.proto}, !.port = r.ports], "return", "") :
                   <<r, e>> \in {<<q, x>> \in {q \in c.rules : FiltersHost(q)} \X UNION {q.sources : q \in c.rules} :
                                    x \in Usable(WithoutIPv6(q.sources))}})
    \o <<Rule([Every EXCEPT !.src = Bogon], "drop", "bogon")>>
BogonFilter == <<Rule([Every EXCEPT !.src = V4, !.lo = {FALSE}], "bogon", "")>>

SSHMeteredPorts(c) ==
    LET ssh == {r \in c.rules : r.proto = "tcp" /\ r.ssh /\ FiltersHost(r)}
    IN  IF ssh = {} THEN {SSHPort} ELSE UNION {r.ports : r \in ssh}
SSHChain == <<Rule([Every EXCEPT !.odd = {"flood"}], "drop", "ssh"), Rule(Every, "return", "")>>
SSHBruteForce(c) == <<Rule([Every EXCEPT !.proto = {"tcp"}, !.port = SSHMeteredPorts(c),
                                       !.state = {"new"}], "sshbrute", "")>>

ConnectionLimit == <<Rule([Every EXCEPT !.odd = {"flood"}], "drop", "")>>
CastDrop(kind) == <<Rule([Every EXCEPT !.odd = {kind}], "drop", "")>>

Modules(c) ==
    When("port_scan" \in c.on, PortScan)
    \o When("syn_flood" \in c.on, SYNFlood)
    \o When("invalid" \in c.on, InvalidDrop)
    \o When("bogon" \in c.on, BogonFilter)
    \o When("ssh" \in c.on, SSHBruteForce(c))
    \o When("connlimit" \in c.on, ConnectionLimit)
    \o When("broadcast" \in c.on, CastDrop("broadcast"))
    \o When("multicast" \in c.on, CastDrop("multicast"))
    \o When("anycast" \in c.on, CastDrop("anycast"))

\* A feed without a copy in the core's store loads an empty set.
FeedSet(c, f) == IF f \in c.stored THEN FeedAddrs[f] ELSE {}
FeedDrops(c) == SetToSeq({Rule([Every EXCEPT !.src = FeedSet(c, f)], "drop", "feed") : f \in c.feeds})

\* A rule whose sources are all comments opens nothing; one with none opens
\* the port to everyone.
SourceMatches(r) == IF r.sources = {} THEN {Addr} ELSE Usable(r.sources)
PortAcceptRules(r) ==
    {Rule([Every EXCEPT !.src = e, !.proto = {r.proto}, !.port = r.ports], "accept", "") :
        e \in SourceMatches(r)}
PortAccepts(c) == SetToSeq(UNION {PortAcceptRules(r) : r \in {q \in c.rules : FiltersHost(q)}})

\* Appended through the nft command; the model's custom rules match every packet.
CustomRules(c) == When(c.custom \in {"accept", "drop"}, <<Rule(Every, c.custom, "other")>>)

InputChain(c, nets) ==
    LoopbackAccept \o FamilyVerdict(c)
    \o When("icmp_flood" \in c.on, ICMPFlood) \o When("tcp_rst" \in c.on, TCPRSTFlood)
    \o EstablishedAccept \o ICMPRules(c) \o Modules(c)
    \o ForEach(nets, "src", "accept", "")
    \o ForEach(c.block, "src", "drop", "blocklist")
    \o ForEach(c.allow, "src", "accept", "")
    \o FeedDrops(c) \o EchoAccepts(c) \o PortAccepts(c) \o CustomRules(c)

-----------------------------------------------------------------------------
(* The forward chain. *)

CidrFamilies(nets) == {f \in {V4, V6} : \E e \in Usable(nets) : e \subseteq f}

\* Container networks, and those routing.mode = "networks" names, both ways.
ForwardExceptions(c, nets) ==
    LET both == nets \cup (IF c.routing = "networks" THEN c.networks ELSE {})
    IN  When(c.routing # "open", ForEach(both, "src", "accept", "") \o ForEach(both, "dst", "accept", ""))

ForwardPortRulesRender(c, nets) == c.docker.filtered /\ CidrFamilies(nets) # {}
\* forward-lists returns where the input chain accepts: an allowlisted
\* source is spared the feeds and nothing else.
ForwardLists(c, nets) ==
    ForEach(nets, "src", "return", "") \o ForEach(c.block, "src", "drop", "")
    \o ForEach(c.allow, "src", "return", "")
    \o SetToSeq({Rule([Every EXCEPT !.src = FeedSet(c, f)], "drop", "") : f \in c.feeds})
ForwardListsJump(c, nets) ==
    LET jumps == IF c.routing # "open" THEN {Addr} ELSE nets
    IN  When(Usable(c.block) # {} \/ c.feeds # {}, ForEach(jumps, "dst", "forward-lists", ""))

\* A rule with sources keeps their families, without IPv6 under block; one
\* without is written once for each family that has a container network.
ForwardedAccepts(c, nets, r) ==
    LET srcs == IF r.sources = {} THEN CidrFamilies(nets)
                ELSE Usable(IF c.ipv6 = "block" THEN WithoutIPv6(r.sources) ELSE r.sources)
    IN  {Rule([Every EXCEPT !.src = e, !.proto = {r.proto}, !.port = r.ports], "accept", "") : e \in srcs}

\* The accepts, then for every container network what comes from outside it.
ForwardPortRules(c, nets) ==
    When(ForwardPortRulesRender(c, nets),
         SetToSeq(UNION {ForwardedAccepts(c, nets, r) : r \in {q \in c.rules : FiltersForwarded(q)}})
         \o SetToSeq({Rule([Every EXCEPT !.dst = e, !.src = Addr \ e], "drop", "") : e \in Usable(nets)}))
\* Mutant: the exceptions before the port rules.
BugExceptionsFirst(c, nets) ==
    When(ForwardPortRulesRender(c, nets) \/ ForwardExceptions(c, nets) # <<>>,
         EstablishedAccept \o ForwardListsJump(c, nets) \o ForwardExceptions(c, nets)
         \o ForwardPortRules(c, nets))

ForwardChain(c, nets) ==
    When(ForwardPortRulesRender(c, nets) \/ ForwardExceptions(c, nets) # <<>>,
         EstablishedAccept \o ForwardListsJump(c, nets) \o ForwardPortRules(c, nets)
         \o ForwardExceptions(c, nets))

-----------------------------------------------------------------------------
(* The table, and what the kernel does with a packet. *)

ApplyWithFeeds(c, detected) ==
    LET nets == ContainerNetworks(c, detected)
    IN  [input      |-> InputChain(c, nets),
         forward    |-> ForwardChain(c, nets),
         policy     |-> IF c.routing = "open" THEN "accept" ELSE "drop",
         fragments  |-> When("fragments" \in c.on, FragmentDrop),
         redirects  |-> c.forwarding,
         portscan   |-> When("port_scan" \in c.on, <<Rule(Every, "drop", "portscan")>>),
         bogon      |-> When("bogon" \in c.on, BogonChain(c, nets)),
         sshbrute   |-> When("ssh" \in c.on, SSHChain),
         lists      |-> When(ForwardListsJump(c, nets) # <<>>, ForwardLists(c, nets))]

First(chain, p) == SelectInSeq(chain, LAMBDA r : Matches(r.match, p))

\* What a matching rule comes to: its own verdict, or its chain's.
Chain(t, name) == IF name = "forward-lists" THEN t.lists ELSE t[name]
Settled(t, r, p) ==
    IF r.verdict \in {"accept", "drop"} THEN r
    ELSE LET i == First(Chain(t, r.verdict), p)
         IN  IF i = 0 THEN Rule(Every, "return", "") ELSE Chain(t, r.verdict)[i]

Evaluate(t, chain, policy, p) ==
    LET i == SelectInSeq(chain, LAMBDA r : /\ Matches(r.match, p)
                                           /\ Settled(t, r, p).verdict \in {"accept", "drop"})
    IN  IF i = 0 THEN Rule(Every, policy, "drop") ELSE Settled(t, chain[i], p)

\* A forwarding entry redirects before the input hook sees the port.
Redirect(t, p) ==
    LET hit == {f \in t.redirects : f.proto = p.proto /\ f.from = p.port}
    IN  IF hit = {} THEN p ELSE [p EXCEPT !.port = (CHOOSE f \in hit : TRUE).to]

Input(t, p) ==
    IF First(t.fragments, p) # 0 THEN t.fragments[1] ELSE Evaluate(t, t.input, "drop", Redirect(t, p))
Forward(t, p) == Evaluate(t, t.forward, t.policy, p)

-----------------------------------------------------------------------------
(* The answers given without the kernel. *)

\* The answer of the first step whose condition holds.
FirstOf(steps) == steps[SelectInSeq(steps, LAMBDA s : s[1])][2]

\* shared.Reachable: the verdict on a new connection to a TCP port, from the
\* staged rules.  hits are the feeds whose copies hold the address.
Reachable(c, src, port, proxied, local, hits) ==
    LET custom == IF c.docker.enabled THEN c.docker.custom ELSE {}
        rules  == {r \in c.rules : r.proto = "tcp" /\ port \in r.ports /\ FiltersHost(r)}
    IN  FirstOf(<<
          <<proxied, "unknown">>,
          <<local, "open">>,
          <<src \in V6 /\ c.ipv6 = "passthrough", "open">>,
          <<src \in V6 /\ c.ipv6 = "block", "blocked">>,
          <<"bogon" \in c.on /\ src \in Bogon
              /\ ~InAnyEntry(src, c.allow) /\ ~InAnyEntry(src, custom), "unknown">>,
          <<InAnyEntry(src, custom), "open">>,
          <<c.docker.enabled /\ c.docker.bridges /\ src \in Pool, "unknown">>,
          <<InAnyEntry(src, c.block), "blocked">>,
          <<InAnyEntry(src, c.allow), "open">>,
          <<c.feeds \cap hits # {}, "blocked">>,
          <<\E r \in rules : r.sources = {} \/ InAnyEntry(src, r.sources), "open">>,
          <<c.custom \in {"accept", "drop"}, "unknown">>,
          <<TRUE, "blocked">>>>)
\* Mutant: a feed without a copy is taken not to hold the address.
BugMissingCopyIsEmpty(c, src, port, proxied, local) ==
    Reachable(c, src, port, proxied, local, {f \in c.stored : src \in FeedAddrs[f]})

\* verdictFor: a staged feed the core has no copy of may hold the address or
\* not.  Where that would change the answer, the answer is unknown.
VerdictFor(c, src, port, proxied, local) ==
    LET hits    == {f \in c.stored : src \in FeedAddrs[f]}
        verdict == Reachable(c, src, port, proxied, local, hits)
        worst   == Reachable(c, src, port, proxied, local, hits \cup (c.feeds \ c.stored))
    IN  IF worst # verdict THEN "unknown" ELSE verdict
\* Mutant: a rule for forwarded traffic counts as one for the host.
BugReasonAnyScope(c, p, typed) ==
    IF \E r \in c.rules : r.proto = p.proto /\ p.port \in r.ports /\ r.sources = {} THEN "port_open_now"
    ELSE "port_closed"

\* shared.DropReason: what a row logged by the final drop would meet now.
\* typed is false for a row from before the ICMP type was recorded.
DropReason(c, p, typed) ==
    LET custom  == IF c.docker.enabled THEN c.docker.custom ELSE {}
        icmp    == p.proto \in ICMP
        rules   == {r \in c.rules : r.proto = p.proto /\ p.port \in r.ports}
        host    == {r \in rules : FiltersHost(r)}
    IN  FirstOf(<<
          <<p.src \in V6 /\ c.ipv6 = "block", "ipv6_blocked">>,
          <<p.src \in V6 /\ c.ipv6 = "passthrough", "ipv6_passthrough">>,
          <<typed /\ p.src \in V6 /\ p.proto \in ICMPv6Accepted(c), "icmp_accepted_now">>,
          <<InAnyEntry(p.src, custom), "">>,
          <<InAnyEntry(p.src, c.block), "blocklisted_now">>,
          <<InAnyEntry(p.src, c.allow), "allowlisted_now">>,
          <<typed /\ p.proto = "echo" /\ c.echo, "icmp_accepted_now">>,
          <<icmp /\ ~typed, "icmp_untyped">>,
          <<p.proto = "echo", "ping_off">>,
          <<icmp, "icmp_type">>,
          <<p.proto \notin {"tcp", "udp"} \/ p.port = 0, "no_port">>,
          <<\E r \in host : r.sources = {} \/ InAnyEntry(p.src, r.sources), "port_open_now">>,
          <<\E r \in host : Usable(r.sources) # {}, "port_sources">>,
          <<rules \ host # {}, "port_forwarded">>,
          <<TRUE, "port_closed">>>>)
\* Mutant: every row offers the allowlist.
BugAllowAlways(l, p) == {"allow", "block"}

\* Which row actions the blocked page offers for a packet logged under l.
Remedies(l, p) ==
    (IF l \in {"drop", "other", "bogon", "feed"} THEN {"allow"} ELSE {})
    \cup (IF l # "blocklist" THEN {"block"} ELSE {})
    \cup (IF l = "drop" /\ p.proto \in {"tcp", "udp"} /\ p.port # 0 THEN {"open"} ELSE {})

-----------------------------------------------------------------------------
(* The row actions of the blocked page, and the apply that follows.  At    *)
(* most one row action is taken: a named bound, asked = NotAsked.  What a  *)
(* request reads of the core and then does are one step: its read of the   *)
(* staged rules and its save, its look for copies and its apply.           *)

NotAsked == [act |-> "none"]

\* Which address a request speaks for: a trusted proxy names its client,
\* anyone else's header makes the address unknown.
ClientAddr(k) == IF k.header /\ k.peer \in Trusted THEN k.named ELSE k.peer
Proxied(k) == k.header /\ k.peer \notin Trusted

\* Behind a trusted proxy there is no verdict, the port being the proxy's.
RequestVerdict(c, k) ==
    IF k.peer \in Trusted THEN "unknown"
    ELSE VerdictFor(c, ClientAddr(k), WebPort, Proxied(k), FALSE)

NewlyBlocked(a, before, after) == InAnyEntry(a, after.block) /\ ~InAnyEntry(a, before.block)
\* Mutant: only the verdict is asked, not who the peer is.
BugLockoutByVerdict(k, before, after) ==
    RequestVerdict(after, k) = "blocked" /\ RequestVerdict(before, k) # "blocked"

LockoutRefusal(k, before, after) ==
    \/ RequestVerdict(after, k) = "blocked" /\ RequestVerdict(before, k) # "blocked"
    \/ k.peer \in Trusted /\ NewlyBlocked(ClientAddr(k), before, after)
    \/ NewlyBlocked(k.peer, before, after)

\* The staged rules with the row's action added, and whether they already
\* hold it.
WithAction(c, act, p) ==
    IF act = "open" THEN [c EXCEPT !.rules = @ \cup {[proto |-> p.proto, ports |-> {p.port},
                                        scope |-> "host", sources |-> {}, ssh |-> FALSE]}]
    ELSE [c EXCEPT ![act] = @ \cup {{p.src}}]
AlreadyStaged(c, act, p) ==
    IF act = "open" THEN \E r \in c.rules : /\ FiltersHost(r) /\ r.sources = {}
                                            /\ r.proto = p.proto /\ p.port \in r.ports
    ELSE InAnyEntry(p.src, c[act])

LogRows(t, packets) == {p \in packets : LET r == Input(t, p) IN r.verdict = "drop" /\ r.log # ""}

StageFromLog(k, act, p) ==
    /\ asked = NotAsked
    /\ LET next == WithAction(staged, act, p)
           answer == CASE AlreadyStaged(staged, act, p)                     -> "already"
                       [] /\ ~AlreadyStaged(staged, act, p)
                          /\ LockoutRefusal(k, staged, next)                -> "lockout"
                       [] OTHER                                             -> "staged"
       IN  /\ staged' = IF answer = "staged" THEN next ELSE staged
           /\ asked' = [act |-> act, row |-> p, log |-> Input(table, p).log, by |-> k,
                        answer |-> answer]
    /\ UNCHANGED <<current, bridges, table>>

\* stageCountryFromLog: a country is a feed and asks no lockout question.  Which
\* country a row's source is of, the country table says, which may not agree
\* with the country's copy: any country.
StageCountryFromLog(f) ==
    /\ asked = NotAsked
    /\ LET answer == CASE f \in staged.feeds                                      -> "already"
                       [] /\ f \notin staged.feeds
                          /\ Cardinality(staged.feeds \cap Country) >= MaxCountries -> "too many"
                       [] OTHER                                                   -> "staged"
       IN  /\ staged' = IF answer = "staged" THEN [staged EXCEPT !.feeds = @ \cup {f}] ELSE staged
           /\ asked' = [act |-> "country", feed |-> f, answer |-> answer]
    /\ UNCHANGED <<current, bridges, table>>

\* UpdateFeed: the copy of a staged country arrives, and is loaded at once if the
\* table has a set for it.  The other feeds have theirs, or not, from the start:
\* what may come of a copy that arrives is Feeds's.
UpdateFeed(f) ==
    /\ f \in (staged.feeds \cup current.feeds) \ staged.stored
    /\ staged' = [staged EXCEPT !.stored = @ \cup {f}]
    /\ current' = [current EXCEPT !.stored = @ \cup {f}]
    /\ table' = ApplyWithFeeds(current', bridges)
    /\ UNCHANGED <<bridges, asked>>

\* Mutant: an apply does not look for the countries' copies.
BugApplyAtOnce == FALSE
\* A staged country the core holds no copy of.
CountryWithoutCopy == \E f \in staged.feeds \cap Country : f \notin staged.stored

\* An apply from the page (handleApplyStart) detects the bridges anew.
Apply ==
    /\ ~CountryWithoutCopy
    /\ \E detected \in Bridges :
        /\ bridges' = detected
        /\ table' = ApplyWithFeeds(staged, detected)
    /\ current' = staged
    /\ UNCHANGED <<staged, asked>>

Init ==
    /\ current \in Configs
    /\ bridges \in Bridges
    /\ table = ApplyWithFeeds(current, bridges)
    /\ staged = current
    /\ asked = NotAsked

Next ==
    \/ current \in RowConfigs /\ \E k \in Clients, p \in LogRows(table, Rows) :
           \E act \in Remedies(Input(table, p).log, p) : StageFromLog(k, act, p)
    \/ current \in RowConfigs /\ LogRows(table, Rows) # {} /\ \E f \in Country : StageCountryFromLog(f)
    \/ \E f \in Country : UpdateFeed(f)
    \/ Apply

Spec == Init /\ [][Next]_vars

-----------------------------------------------------------------------------
(* What the chains and the answers promise. *)

\* A packet that arrives from outside with nothing unusual about it.
Arrival(src, proto, port) ==
    [lo |-> FALSE, src |-> src, dst |-> src, proto |-> proto, port |-> port, state |-> "new", odd |-> "none"]
Arrivals ==
    {Arrival(a, proto, port) : a \in Addr, proto \in {"tcp", "udp"}, port \in Port}
    \cup {Arrival(a, proto, 0) : a \in Addr, proto \in {"echo", "icmp", "other"}}
    \cup {Arrival(a, proto, 0) : a \in V6, proto \in {"ra", "nd"}}
Forwarded(src, dst, port) == [Arrival(src, "tcp", port) EXCEPT !.dst = dst]
Networks == Usable(ContainerNetworks(current, bridges))
Contained(a) == InAnyEntry(a, Networks)
\* A source the lists refuse in either chain.
Listed(a) ==
    \/ InAnyEntry(a, current.block)
    \/ ~InAnyEntry(a, current.allow) /\ \E f \in current.feeds : a \in FeedSet(current, f)

\* The lockout verdict of the apply page (shared.Reachable, verdictFor) agrees
\* with the chain it is about: "open" and the kernel accepts a new connection
\* to the web interface, "blocked" and it drops it, and neither changes when a
\* feed's missing copy arrives later.  The page cannot list the detected
\* bridges: a bridge outside Docker's pool may be accepted where it says
\* blocked.  A forwarding entry on the web port is not looked at.
VerdictSound ==
    LET loaded == ApplyWithFeeds([current EXCEPT !.stored = Feed], bridges)
    IN  (\A f \in current.forwarding : f.from # WebPort) =>
        \A a \in Addr, local \in BOOLEAN :
            LET p == [Arrival(a, "tcp", WebPort) EXCEPT !.lo = local]
                v == VerdictFor(current, a, WebPort, FALSE, local)
            IN  \A t \in {table, loaded} :
                  /\ v = "open" => Input(t, p).verdict = "accept"
                  /\ v = "blocked" => Input(t, p).verdict = "drop" \/ Contained(a)

\* The reason beside a dropped packet (shared.DropReason) names what was
\* missing: for a packet the final drop refuses under the rules in force it
\* is never one of the "now" reasons; and when it says a packet would be
\* accepted now, only a module or a feed can still refuse it.
ReasonTrue ==
    \A p \in Arrivals :
        LET r == Input(table, p)
            why == DropReason(current, p, TRUE)
        IN  /\ r.verdict = "drop" /\ r.log = "drop" =>
                  why \in {"ping_off", "icmp_type", "no_port", "port_closed", "port_forwarded", "port_sources"}
            /\ why \in {"ipv6_passthrough", "icmp_accepted_now", "allowlisted_now", "port_open_now"} =>
                  r.verdict = "accept" \/ r.log \in {"bogon", "feed"} \/ current.forwarding # {}
            /\ why \in {"ipv6_blocked", "blocklisted_now"} => r.verdict = "drop" \/ Contained(p.src)

\* A row action does what its button says once it is applied: an allowlisted
\* source's packet is accepted unless the blocklist names it too, an opened
\* port accepts the packet, a blocklisted source, container networks apart, gets
\* nothing accepted, and neither does what a blocked country's copy holds, the
\* allowlist apart too.
RemedyWorks ==
    asked # NotAsked /\ asked.answer = "staged" /\ staged = current =>
        LET v(p) == Input(table, p).verdict IN
        CASE asked.act = "allow" -> v(asked.row) = "accept" \/ InAnyEntry(asked.row.src, current.block)
          [] asked.act = "open"  -> v(asked.row) = "accept" \/ current.forwarding # {}
          [] asked.act = "block" -> v(asked.row) = "drop" \/ Contained(asked.row.src)
          [] asked.act = "country" -> \A p \in {q \in Rows : q.src \in FeedAddrs[asked.feed]} :
                v(p) = "drop" \/ Contained(p.src) \/ InAnyEntry(p.src, current.allow)

\* The row actions for an address or a port take the way in of nobody who presses
\* them (lockoutRefusal): if a new connection from their address, or from the
\* proxy in front of them, got through before, it gets through with what was
\* staged.  Blocking a country asks no such question; it takes nobody's way in
\* behind their back either: its copy is in the store before an apply puts the
\* country in force (countryWithoutCopy), where the page's verdict has seen it
\* (VerdictSound), so that a copy that arrives changes nothing.
WayInKept ==
    [][LET in(t, a) == Input(t, Arrival(a, "tcp", WebPort)).verdict
           kept(a) == LET with(c) == ApplyWithFeeds(c, bridges)
                      IN  in(with(staged), a) = "accept" => in(with(staged'), a) = "accept"
       IN  /\ asked' # asked /\ asked'.act # "country" =>
                 kept(asked'.by.peer) /\ (Proxied(asked'.by) \/ kept(ClientAddr(asked'.by)))
           /\ (staged'.stored \ staged.stored) \cap Country # {} =>
                 \A a \in Addr : in(table', a) = in(table, a)]_vars

\* With published ports filtered, a new connection enters a container network
\* from outside it only through a forwarded rule for that port and source, and
\* never from a source the lists refuse, unless it comes from a container; and
\* a container's own connections out are cut by no list and no rule
\* (addForwardLists, addForwardPortRules).
ContainersKept ==
    /\ current.docker.filtered =>
         \A e \in Networks : \A b \in e, a \in Addr \ e, port \in Port :
           ({a, b} \subseteq V4 \/ {a, b} \subseteq V6) /\ Forward(table, Forwarded(a, b, port)).verdict = "accept" =>
             /\ \E r \in current.rules : /\ FiltersForwarded(r) /\ r.proto = "tcp" /\ port \in r.ports
                                        /\ (r.sources = {} \/ InAnyEntry(a, r.sources))
             /\ Contained(a) \/ ~Listed(a)
    /\ \A a \in UNION Networks, b \in Addr \ UNION Networks :
         Forward(table, Forwarded(a, b, WebPort)).verdict = "accept"
=============================================================================
