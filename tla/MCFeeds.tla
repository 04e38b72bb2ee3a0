------------------------------- MODULE MCFeeds -------------------------------
\* A feed of the catalogue, one in two files, a country, and one of the
\* operator's own whose two addresses are on servers that compare dates; every
\* second version shrinks.
EXTENDS Feeds

MCFeed == {"cat", "pair", "nl", "own"}
MCUrl == {"a", "b", "c"}
MCHome == [id \in MCFeed |-> IF id = "own" THEN "b" ELSE "a"]
MCEntries == [l \in MCUrl \X (1..4) |-> IF l[2] \in {1, 3} THEN 10 ELSE 6]

Bound(edits, publishes, applies, faults) ==
  [edits |-> [id \in MCFeed |-> IF id \in DOMAIN edits THEN edits[id] ELSE 0],
   publishes |-> publishes, applies |-> applies, faults |-> faults]

\* The own feed edited, the others refreshed at length, two applies, two feeds together.
MCStarts == {Bound([own |-> 2], 1, 1, 1), Bound([cat |-> 1], 3, 1, 0), Bound([cat |-> 1], 1, 1, 1),
             Bound([pair |-> 1], 1, 1, 0), Bound([nl |-> 1], 1, 1, 0),
             Bound([cat |-> 2], 1, 2, 0), Bound([cat |-> 2, own |-> 1], 0, 1, 0)}
=============================================================================
