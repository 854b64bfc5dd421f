---- MODULE MCDemandMatch ----
(* Instances of DemandMatch: entities, pools and classes of jobs.          *)
EXTENDS DemandMatch, TLC

CONSTANTS e1, e2, p1, p2

Of(e, l, p) == [entity |-> e, target |-> e, labels |-> l, pool |-> p]

(* Two organizations, one of which asks for a second board too.            *)
Entities == {e1, e2}
LimitedOne == {e1}
Pools    == {p1, p2}
OneBoard == {Of(e1, {"a"}, p1), Of(e2, {"a"}, p1)}
OrgClasses == OneBoard \union {Of(e2, {"b"}, p2)}
CapOne == [e \in Entity |-> IF e = e2 THEN 1 ELSE NoCap]
TwoSlots == [p \in Pool |-> IF p = p1 THEN 2 ELSE 1]

(* What a job or worker that is gone had asked for no longer matters.      *)
Seen == <<status, age, phase, task, schedVars, failures,
          [j \in {j \in Job : status[j] # "none" \/ j \in pend} |-> class[j]],
          [w \in {w \in Worker : phase[w] # "none"} |-> wclass[w]]>>

Symmetry == Permutations(Job) \union Permutations(Worker)
====
