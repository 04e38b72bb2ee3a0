------------------------------ MODULE MCRules ------------------------------
(***************************************************************************)
(* Rules for TLC: two tabs, and the sets an import may bring.              *)
(***************************************************************************)
EXTENDS Rules

Body(port, sources, ssh, scope, desc) ==
    [id |-> 0, port |-> port, sources |-> sources, ssh |-> ssh, scope |-> scope, desc |-> desc]
MCBodies == {Body("22", <<>>, FALSE, "", <<>>), Body("bad", <<>>, FALSE, "", <<>>)}
MCForms == [t \in OtherLists |-> IF t = "blocklist" THEN {<<"a">>, <<"bad">>} ELSE {}]

TCPLists == {<<Body("22", s, h, c, d)>> : s \in {<<>>, <<"a">>, <<"#">>}, h \in BOOLEAN,
                                        c \in {"host", "both"}, d \in {<<>>, <<"(ssh)">>}}
            \cup {<<Body("22", <<"a">>, FALSE, "", <<>>), [Body("22", s, FALSE, "", <<>>) EXCEPT !.id = x]>> :
                    s \in {<<>>, <<"b">>}, x \in {101}}
Other(t, l) == [EmptySet EXCEPT ![t] = l]
MCForeign ==
    {Other("tcp", l) : l \in TCPLists}
    \cup {Other("blocklist", l) : l \in {<<"a", "#">>, <<"a", "b">>, <<"b", "a">>}}
    \cup {Other("custom", l) : l \in {<<"a", "#">>, <<"a", "b">>, <<"b", "a">>}}
    \cup {Other("feeds", <<"a", "a">>), Other("allowlist", <<"a">>)}
    \cup {Other("forwarding", l) : l \in {<<[key |-> 1, dest |-> "d2"]>>, <<[key |-> 1, dest |-> "d3"], [key |-> 1, dest |-> "d2"]>>,
                                          <<[key |-> 1, dest |-> "d2"], [key |-> 1, dest |-> "d3"]>>}}
RB(s, i, e, b) == [saves |-> s, imports |-> i, edits |-> e, boots |-> b]
MCRuleBounds == {RB(2, 0, 1, 1), RB(0, 2, 0, 0), RB(1, 1, 0, 0)}
=============================================================================
