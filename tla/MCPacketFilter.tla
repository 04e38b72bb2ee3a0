-------------------------- MODULE MCPacketFilter --------------------------
(***************************************************************************)
(* PacketFilter for TLC.  One public IPv4 address, two of a bridge inside  *)
(* Docker's pool, one of a private network outside it, two of IPv6.  The   *)
(* configurations are two families: what the input chain depends on, and   *)
(* what the forward chain does.                                            *)
(***************************************************************************)
EXTENDS PacketFilter

MCAddr == {"wan", "lan", "pool", "pool2", "six", "six2"}
MCV6 == {"six", "six2"}
MCBogon == {"lan", "pool", "pool2"}
MCPool == {"pool", "pool2"}
MCPort == {22, 443}
MCFeedAddrs == [drop |-> {"wan", "lan", "six"}, at |-> {"wan"}, be |-> {"six"}]
MCCountry == {"at", "be"}
MCTrusted == {"lan"}
MCBridges == {{}, {{"pool", "pool2"}, {"lan"}}}
Direct(a) == [peer |-> a, named |-> a, header |-> FALSE]
MCClients == {Direct("wan"), Direct("six"), [peer |-> "lan", named |-> "wan", header |-> TRUE],
              [peer |-> "wan", named |-> "six", header |-> TRUE]}
MCRows == {Arrival(a, "tcp", 443) : a \in {"wan", "lan", "six"}}
          \cup {Arrival("wan", "echo", 0), Arrival("lan", "udp", 443),
                [Arrival("wan", "tcp", 22) EXCEPT !.odd = "scan"]}

PortRule(scope, sources) ==
    [proto |-> "tcp", ports |-> {443}, scope |-> scope, sources |-> sources, ssh |-> FALSE]
NoDocker == [enabled |-> FALSE, bridges |-> FALSE, custom |-> {}, filtered |-> FALSE]
Docker(detect, custom, filtered) ==
    [enabled |-> TRUE, bridges |-> detect, custom |-> custom, filtered |-> filtered]
AllModules == {"icmp_flood", "tcp_rst", "port_scan", "syn_flood", "invalid", "fragments", "bogon",
               "ssh", "connlimit", "broadcast", "multicast", "anycast"}

Base == [block |-> {}, allow |-> {}, feeds |-> {}, stored |-> {}, rules |-> {}, custom |-> "none",
         forwarding |-> {}, on |-> {}, echo |-> FALSE, ra |-> TRUE, na |-> TRUE, ipv6 |-> "filter",
         docker |-> NoDocker, routing |-> "closed", networks |-> {}]

Blocks == {{}, {{"wan"}, {}}, {{"lan", "pool"}}, {{"six"}}}
Allows == {{}, {{"wan"}}, {{"lan"}, {"six"}, {}}}
Feeds == {<<{}, {}>>, <<{"drop"}, {}>>, <<{"drop"}, {"drop"}>>}

InputConfigs ==
    {[Base EXCEPT !.block = b, !.allow = w, !.feeds = f[1], !.stored = f[2], !.rules = r, !.on = m,
                  !.ipv6 = v, !.docker = d, !.echo = (m = {}), !.custom = IF r = {} THEN x ELSE "none"] :
        b \in Blocks, w \in Allows, f \in Feeds,
        r \in {{}, {PortRule("host", {})}, {PortRule("forwarded", {}), PortRule("host", {{}})},
              {PortRule("both", {{"lan"}, {"wan"}})}},
        m \in {{}, AllModules}, v \in {"filter", "block", "passthrough"},
        d \in {NoDocker, Docker(TRUE, {}, FALSE), Docker(FALSE, {{"lan"}, {"six"}}, FALSE)},
        x \in {"none", "drop"}}

ForwardConfigs ==
    {[Base EXCEPT !.block = b, !.allow = w, !.feeds = f[1], !.stored = f[2], !.rules = r, !.ipv6 = v,
                  !.docker = d, !.routing = t, !.networks = {{"wan"}},
                  !.forwarding = {[proto |-> "tcp", from |-> 22, to |-> 443]}] :
        b \in {{}, {{"wan"}}, {{"six2"}, {}}}, w \in {{}, {{"wan"}, {"six"}}}, f \in Feeds,
        r \in {{}, {PortRule("forwarded", {})}, {PortRule("both", {{"wan"}, {"six2"}}), PortRule("host", {})}},
        v \in {"filter", "block"},
        d \in {NoDocker} \cup {Docker(TRUE, c, x) : c \in {{}, {{"six"}}}, x \in BOOLEAN},
        t \in {"closed", "networks", "open"}}

\* As many countries as may be on.
CountryConfigs ==
    {[Base EXCEPT !.feeds = {"be"}, !.stored = {"be"}, !.rules = {PortRule("host", {})}, !.allow = w, !.on = m] :
        w \in {{}, {{"six"}}}, m \in {{}, AllModules}}

\* Row actions: nothing of Docker but a custom network, IPv6 filtered.
MCRowConfigs ==
    CountryConfigs \cup {c \in InputConfigs : /\ c.ipv6 = "filter" /\ ~c.docker.bridges
                          /\ c.block \in {{}, {{"lan", "pool"}}} /\ c.allow \in {{}, {{"wan"}}}
                          /\ (c.feeds = {} <=> c.rules = {PortRule("host", {})})}

MCConfigs == InputConfigs \cup ForwardConfigs \cup CountryConfigs
=============================================================================
