------------------------------- MODULE MCMymake -------------------------------
(***************************************************************************)
(* Makefiles of up to five rules.  The name x is part of the name of the   *)
(* rule xx; src has no rule; before the lines may stand the name b.        *)
(***************************************************************************)
EXTENDS Mymake

MCWithin == {<<"x", "xx">>}
MCStrays == {<<>>, <<"garbage">>, <<"b">>}

One(n) == <<Recipe(<<n>>)>>
Two(n) == <<Recipe(<<n>>), Recipe(<<n + 1>>)>>
Comma(n) == <<Recipe(<<n, n + 1>>)>>

FirstRules ==
  {<<Rule("all", deps)>> \o One(1) \o <<Blank>> :
     deps \in {<<"a">>, <<"b", "a">>, <<"src", "b">>, <<"a", "x">>}}
    \cup {<<Rule("all", <<"a">>)>> \o Comma(1) \o <<Blank>>}
    \cup {<<Rule("all", <<>>)>> \o Two(1) \o <<Blank>>}
ARules ==
  {<<Rule("a", deps)>> \o One(3) :
     deps \in {<<>>, <<"b">>, <<"src">>, <<"src", "b">>, <<"b", "src">>}}
BRules ==
  {<<Rule("b", deps)>> \o One(5) \o <<Blank>> : deps \in {<<>>, <<"a">>, <<"all">>}}
XRule == <<Rule("xx", <<"b">>)>> \o Comma(6)

\* Two chains of four rules fill the eight places of depNo; three do not fit.
Chains ==
  {<<Rule("all", deps)>> \o One(1) \o <<Blank, Rule("a", <<"b">>)>> \o One(3)
     \o <<Rule("b", <<"c">>)>> \o One(5) \o <<Rule("c", <<"w">>)>> \o One(6)
     \o <<Rule("w", <<>>)>> \o One(8) : deps \in {<<"a", "a">>, <<"a", "b", "a">>}}

MCFiles ==
  {first \o a \o b : first \in FirstRules, a \in ARules, b \in BRules}
    \cup {first \o a \o b \o XRule : first \in {f \in FirstRules : "x" \in Range(f[1].deps)},
                                     a \in ARules, b \in BRules}
    \cup {Front(first) : first \in FirstRules}
    \cup {first \o b : first \in FirstRules, b \in BRules}
    \cup {Front(first) \o b \o <<Blank>> : first \in FirstRules, b \in BRules}
    \cup {Front(first) \o a \o One(5) : first \in FirstRules, a \in ARules}
    \cup {first \o One(7) : first \in FirstRules} \cup Chains
=============================================================================
