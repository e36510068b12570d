-------------------------- MODULE MCBacktestEngine --------------------------
(* An instance of BacktestEngine for TLC: price paths of two symbols.       *)
EXTENDS BacktestEngine, TLC

CONSTANTS s1, s2, tech

MCSectorOf == (s1 :> tech) @@ (s2 :> tech)
MCOrder == <<s1, s2, s1>>
MCMaxDays == ("position" :> 3) @@ ("swing" :> 2)
MCMinBars == ("position" :> 1) @@ ("swing" :> 1) @@ ("atr" :> 1)

Bar(open, close) == [open |-> open, close |-> close]
Flat == Bar(100, 100)

\* Paths of s1: a rise that gives way, a fall, a rise to the target, a gap at the end.
Paths1 ==
    {<<Flat, Flat, Bar(100, 140), Bar(130, 120)>>,
     <<Flat, Flat, Bar(90, 80), Flat>>,
     <<Flat, Bar(110, 100), Bar(100, 170), Bar(120, 120)>>,
     <<Flat, Flat, Flat, None>>}
\* Paths of s2: quiet, without data in the middle, dear.
Paths2 ==
    {<<Flat, Bar(95, 100), Flat, Flat>>,
     <<Flat, None, Flat, Bar(100, 90)>>,
     <<Bar(900, 900), Flat, Bar(80, 70), Flat>>}

MCHistories ==
    {[d \in 1 .. LastDay |-> (s1 :> p[d]) @@ (s2 :> q[d])] : p \in Paths1, q \in Paths2}
      \union {[d \in 1 .. LastDay |-> (s1 :> None) @@ (s2 :> None)]}

\* Requests with a trailing stop of 10 percent; one with a percentage of zero.
MCConfigs ==
    [strategy : {"position", "swing"}, mode : {"technical"}, driver : {"api", "walk_forward"},
     trailing : {10}]
      \union [strategy : {"swing"}, mode : {"llm_replay"}, driver : {"api"}, trailing : {10}]
      \union [strategy : {"position"}, mode : {"technical"}, driver : {"api", "walk_forward"},
               trailing : {0}]
=============================================================================
