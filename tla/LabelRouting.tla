---------------------------- MODULE LabelRouting ----------------------------
(***************************************************************************)
(* Which nodes a job runs on: the table LabelRoutes of                     *)
(* internal/constants.go and the search of it, matchLabelsToK8s.  A job    *)
(* names its labels as a list, in any order; a route names a set of them   *)
(* and, possibly, the only entities it is meant for.  The first route that *)
(* fits wins, so that the routes of single entities must come before the   *)
(* open ones.                                                              *)
(***************************************************************************)
EXTENDS Naturals, Sequences, FiniteSets, FiniteSetsExt, Functions

U24 == "ubuntu-24.04-riscv"
U26 == "ubuntu-26.04-riscv"

(* A pool is the board of its nodes and who supplies them; the image is    *)
(* named by the Ubuntu label the route asks for.                           *)
Route(entities, ubuntu, more, board, provider) ==
  [entities |-> entities, labels |-> {ubuntu} \union more,
   pool |-> <<board, provider>>, image |-> ubuntu]

LabelRoutes == <<
  Route({"ggml-org"},       U24, {},                  "spacemit-k1",       "cloudv10x"),
  Route({"mengzhuo"},       U24, {},                  "spacemit-k1",       "mengzhuo"),
  Route({"RuyiAI-Stack"},   U24, {"rva23", "xlarge"}, "spacemit-v100",     "iscas"),
  Route({"RuyiAI-Stack"},   U24, {"rva23"},           "spacemit-k3",       "iscas"),
  Route({"RuyiAI-Stack"},   U24, {"rvv"},             "spacemit-k1",       "iscas"),
  Route({"numpy"},          U24, {"rvv"},             "spacemit-k1",       "cloudv10x"),
  Route({"conda-forge"},    U24, {"ur"},              "ultrarisc-dp-1000", "openkylin"),
  Route({"riseproject-dev"}, U24, {"rva23", "xlarge"}, "spacemit-v100",    "iscas"),
  Route({"riseproject-dev"}, U24, {"rva23"},          "spacemit-k3",       "iscas"),
  Route({"riseproject-dev"}, U24, {"rvv"},            "spacemit-k1",       "iscas"),
  Route({}, U24, {},        "scaleway-em-rv1", "scaleway"),
  Route({}, U24, {"rva23"}, "spacemit-k3",     "rise"),
  Route({}, U26, {},        "spacemit-k3",     "rise") >>

Open(route) == route.entities = {}

Fits(route, entity, labels) ==
  /\ Open(route) \/ entity \in route.entities
  /\ Cardinality(route.labels) = Len(labels)
  /\ route.labels \subseteq Range(labels)

Fitting(entity, labels) ==
  {i \in DOMAIN LabelRoutes : Fits(LabelRoutes[i], entity, labels)}

Matched(entity, labels) == Fitting(entity, labels) # {}

(* Mutant: the table is searched from its end.                             *)
matchLast(entity, labels) == LabelRoutes[Max(Fitting(entity, labels))]

matchLabelsToK8s(entity, labels) == LabelRoutes[Min(Fitting(entity, labels))]

=============================================================================
