--------------------------- MODULE MCSchedulerLoop ---------------------------
(***************************************************************************)
(* TLC instance of SchedulerLoop: one board, of two organizations.         *)
(***************************************************************************)
EXTENDS SchedulerLoop

CONSTANTS e1, e2, p1

For(e) == [entity |-> e, target |-> e, labels |-> {"a"}, pool |-> p1]

Entities == {e1, e2}
LimitedOne == {e1}
OnePool  == {p1}
OneBoard == {For(e1), For(e2)}
CapOne   == [e \in Entity |-> IF e = e2 THEN 1 ELSE NoCap]
OneSlot  == [p \in Pool |-> 1]

=============================================================================
