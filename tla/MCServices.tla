------------------------------ MODULE MCServices ------------------------------
\* The services around an apply, side by side: the acceptance window, the packet
\* log, the rule counters, the login events, the daemon's connections, the
\* notifier, the demo's stand-in for the core and the feed arithmetic.  A behaviour
\* is one of them, so that their states add up and do not multiply.
EXTENDS AcceptanceWindow, PacketLog, Usage, LoginEvents, Connections, Notifier, Demo, FeedMath

VARIABLE part

MCUsageBounds == {[packets |-> 3, writes |-> 2, ticks |-> 2, fails |-> 1, flushes |-> 1]}

MCNewsBounds ==
  {[windows |-> 2, plain |-> 1, webboots |-> 1, coreboots |-> 1, nils |-> 1]}
MCDemoBounds == {[applies |-> 2, saves |-> 1, panics |-> 1]}

\* Eight addresses of one family and four of the other, every prefix of them;
\* lists of one, of two in any order, of three.
P(a, h) == [addr |-> a, host |-> h]
Aligned(base, w) == {p \in {P(base + a, h) : a \in 0..(2^w - 1), h \in 0..w} : (p.addr - base) % 2^p.host = 0}
MCPrefix == Aligned(0, 3) \cup Aligned(16, 2)
MCSubmissions ==
  {<<p>> : p \in MCPrefix} \cup (MCPrefix \X MCPrefix) \cup {SetToSeq(s) : s \in kSubset(3, MCPrefix)}
MCNonGlobal4 == {P(2, 0)}
MCGlobal6 == P(18, 1)
MCDoc6 == P(19, 0)

vars == <<windowVars, packetVars, usageVars, eventVars, connVars, newsVars, demoVars,
          feedMathVars, part>>

\* The parts that do not run start in one state of theirs.
Init ==
  /\ part \in {"window", "packets", "usage", "events", "conns", "news", "demo", "feeds"}
  /\ WindowInit /\ PacketInit /\ (part # "packets" => persist)
  /\ UsageInit /\ EventsInit /\ ConnInit /\ NewsInit /\ DemoInit /\ FeedMathInit

Next ==
  /\ UNCHANGED part
  /\ \/ /\ part = "window" /\ WindowNext
        /\ UNCHANGED <<packetVars, usageVars, eventVars, connVars, newsVars, demoVars, feedMathVars>>
     \/ /\ part = "packets" /\ PacketNext
        /\ UNCHANGED <<windowVars, usageVars, eventVars, connVars, newsVars, demoVars, feedMathVars>>
     \/ /\ part = "usage" /\ UsageNext
        /\ UNCHANGED <<windowVars, packetVars, eventVars, connVars, newsVars, demoVars, feedMathVars>>
     \/ /\ part = "events" /\ EventsNext
        /\ UNCHANGED <<windowVars, packetVars, usageVars, connVars, newsVars, demoVars, feedMathVars>>
     \/ /\ part = "conns" /\ ConnNext
        /\ UNCHANGED <<windowVars, packetVars, usageVars, eventVars, newsVars, demoVars, feedMathVars>>
     \/ /\ part = "news" /\ NewsNext
        /\ UNCHANGED <<windowVars, packetVars, usageVars, eventVars, connVars, demoVars, feedMathVars>>
     \/ /\ part = "demo" /\ DemoNext
        /\ UNCHANGED <<windowVars, packetVars, usageVars, eventVars, connVars, newsVars, feedMathVars>>
     \/ /\ part = "feeds" /\ FeedMathNext
        /\ UNCHANGED <<windowVars, packetVars, usageVars, eventVars, connVars, newsVars, demoVars>>

\* The fairness each module states, while it is the part that runs.  Nothing of
\* WindowFairness is enabled in WindowInit.
Fairness ==
  /\ WindowFairness
  /\ WF_connVars(part = "conns" /\ StartSteps) /\ WF_connVars(part = "conns" /\ StopSteps)
  /\ \A c \in Conn : WF_connVars(part = "conns" /\ ConnSteps(c))
  /\ WF_newsVars(part = "news" /\ TickAsks) /\ WF_newsVars(part = "news" /\ TickObserves)
  /\ WF_newsVars(part = "news" /\ RecordApply)

Spec == Init /\ [][Next]_vars /\ Fairness
===============================================================================
