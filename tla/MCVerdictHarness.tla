--------------------------- MODULE MCVerdictHarness ---------------------------
(* Finite instances of VerdictHarness, after the library's scenarios.      *)
EXTENDS VerdictHarness

CONSTANTS payment, shopify, a1

Timed  == [target |-> payment, type |-> "latency", path |-> FALSE, sticky |-> FALSE]
Sticky == [target |-> payment, type |-> "db_slow", path |-> FALSE, sticky |-> TRUE]
Slump  == [target |-> shopify, type |-> "none",    path |-> TRUE,  sticky |-> FALSE]

(* s02: a deploy, a sticky fault, the full loop.                           *)
FullLoop == [rank |-> 2, changes |-> TRUE, inject |-> {Sticky}, watch |-> {a1}, remedied |-> payment,
             wanted |-> {"origin", "keyword", "change"},
             expect |-> {"detect", "rca", "remediation"}]

(* s09: a deploy and no fault.                                             *)
Control == [rank |-> 9, changes |-> TRUE, inject |-> {}, watch |-> {a1}, remedied |-> "none",
            wanted |-> {}, expect |-> {"quiet"}]

(* s10: a slump of the mock shop.                                          *)
Kpi == [rank |-> 10, changes |-> FALSE, inject |-> {Slump}, watch |-> {a1}, remedied |-> "none",
        wanted |-> {}, expect |-> {"business"}]

(* s10 with a fault on another target.                                     *)
Mixed == [Kpi EXCEPT !.inject = {Slump, Timed}]

MCScenarios == {FullLoop, Control, Mixed}

JustControl == {Control}
JustKpi == {Kpi}
=============================================================================
