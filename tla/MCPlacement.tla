----------------------------- MODULE MCPlacement -----------------------------
(***************************************************************************)
(* TLC instance of Placement: a board of two vendors and one of a third.   *)
(* Jobs for the first name a provider, jobs for the second need not.       *)
(***************************************************************************)
EXTENDS Placement, TLC

CONSTANTS n1, n2, n3, q1, q2, q3, s1, s2

On(b, v) == [board |-> b, provider |-> v]

TwoVendors == {On("k1", "a"), On("k1", "b")}
Loose == {On("k3", "a"), On("k3", AnyProvider)}
AllSelectors == TwoVendors \union Loose \union {On("k1", AnyProvider)}
AskedFor == TwoVendors \union Loose
Fleet == n1 :> On("k1", "a") @@ n2 :> On("k1", "b") @@ n3 :> On("k3", "a")
OldPods == q1 :> On("k1", AnyProvider)

Symmetry == Permutations(Pod \ DOMAIN Old) \union Permutations(Scheduler)

==============================================================================
