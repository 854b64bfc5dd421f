------------------------------ MODULE Placement ------------------------------
(***************************************************************************)
(* Which node a runner pod lands on.  AvailableSlots counts the slots of   *)
(* a node selector, demandMatch creates that many pods, and Kubernetes     *)
(* places them one by one, on any node their labels allow: one pod to a    *)
(* node, as the node's device plugin offers one riseproject.com/runner.    *)
(*                                                                         *)
(* DemandMatch.tla takes pools for disjoint.  Here selectors overlap: a    *)
(* selector without a provider means any vendor's machine of that board.   *)
(* Old pods have one, and so do jobs queued before providers existed.      *)
(*                                                                         *)
(* The table lock excludes other schedulers until its holder's connection  *)
(* is lost: the lock is then free while the iteration runs on.             *)
(***************************************************************************)
EXTENDS Naturals, FiniteSets

CONSTANTS
  Node, Pod, Scheduler,
  Selector,    \* [board, provider]
  AnyProvider, \* no provider
  NoOne,       \* the free lock
  Labels,      \* the two labels of each node
  Asked,       \* selectors of the jobs that may be queued
  Old,         \* selectors of the pods there are at the start
  MaxLosses,   \* bound: connections lost
  MaxFlaps     \* bound: times a node's device plugin goes away

ASSUME ConstantsAssumption ==
  /\ IsFiniteSet(Node) /\ IsFiniteSet(Pod)
  /\ Selector # {}
  /\ \A x, y \in Selector : x.board = y.board /\ x.provider = y.provider => x = y
  /\ Labels \in [Node -> Selector]
  /\ Asked \subseteq Selector
  /\ \A p \in DOMAIN Old : p \in Pod /\ Old[p] \in Selector
  /\ NoOne \notin Scheduler
  /\ Node \intersect {"none", "waiting"} = {}
  /\ MaxLosses \in Nat /\ MaxFlaps \in Nat

VARIABLES
  where,       \* of each pod: the node it is bound to, or
               \* "waiting" for one, or "none" (also if it is terminal)
  sel,         \* of each pod: its labels, and its nodeSelector
  offered,     \* nodes with an allocatable slot
  lock, sch,   \* the table lock; the local state of each scheduler
  unlocked,    \* pods created by an iteration that had lost the lock
  losses, flaps

vars == <<where, sel, offered, lock, sch, unlocked, losses, flaps>>

(* ListOptions{LabelSelector: sel.Key()}, and a pod's nodeSelector.        *)
NodesOf(x) == {n \in Node : /\ Labels[n].board = x.board
                            /\ x.provider \in {AnyProvider, Labels[n].provider}}

Waiting  == {p \in Pod : where[p] = "waiting"}
Placed   == {p \in Pod : where[p] \in Node}
Active   == Waiting \union Placed
Free(S)  == {n \in S : \A p \in Pod : where[p] # n}

PCs == {"idle", "pools", "pods", "create"}
Local == [pc : PCs, x : Selector, total : 0..Cardinality(Node),
          slots : 0..Cardinality(Node)]
Idle == [pc |-> "idle", x |-> CHOOSE x \in Selector : TRUE, total |-> 0, slots |-> 0]

TypeOK ==
  /\ where \in [Pod -> {"none", "waiting"} \union Node]
  /\ sel \in [Pod -> Selector]
  /\ offered \subseteq Node
  /\ lock \in Scheduler \union {NoOne}
  /\ sch \in [Scheduler -> Local]
  /\ unlocked \subseteq Pod
  /\ losses \in 0..MaxLosses /\ flaps \in 0..MaxFlaps

Init ==
  /\ where = [p \in Pod |-> IF p \in DOMAIN Old THEN "waiting" ELSE "none"]
  /\ sel = [p \in Pod |-> IF p \in DOMAIN Old THEN Old[p] ELSE Idle.x]
  /\ offered = Node
  /\ lock = NoOne /\ sch = [s \in Scheduler |-> Idle]
  /\ unlocked = {} /\ losses = 0 /\ flaps = 0

-----------------------------------------------------------------------------
(* Kubernetes.                                                             *)

Bind(p, n) ==
  /\ p \in Waiting
  /\ n \in Free(NodesOf(sel[p])) \intersect offered
  /\ where' = [where EXCEPT ![p] = n]
  /\ UNCHANGED <<sel, offered, lock, sch, unlocked, losses, flaps>>

(* The runner has run its job, or its pod failed or was killed: from its   *)
(* terminal phase on it counts no more.                                    *)
PodEnds(p) ==
  /\ p \in Placed
  /\ where' = [where EXCEPT ![p] = "none"]
  /\ sel' = [sel EXCEPT ![p] = Idle.x]
  /\ unlocked' = unlocked \ {p}
  /\ UNCHANGED <<offered, lock, sch, losses, flaps>>

(* A node's device plugin is gone until it has registered again.           *)
SlotWithdrawn(n) ==
  /\ n \in offered /\ flaps < MaxFlaps
  /\ offered' = offered \ {n} /\ flaps' = flaps + 1
  /\ UNCHANGED <<where, sel, lock, sch, unlocked, losses>>

SlotOffered(n) ==
  /\ n \notin offered
  /\ offered' = offered \union {n}
  /\ UNCHANGED <<where, sel, lock, sch, unlocked, losses, flaps>>

-----------------------------------------------------------------------------
(* One scheduler's iteration.                                              *)

Become(s, local) == sch' = [sch EXCEPT ![s] = local]
At(s, pc) == sch[s].pc = pc

Lock(s) ==
  /\ At(s, "idle") /\ lock = NoOne
  /\ lock' = s
  /\ Become(s, [Idle EXCEPT !.pc = "pools"])
  /\ UNCHANGED <<where, sel, offered, unlocked, losses, flaps>>

(* AvailableSlots lists the nodes, then the pods.                          *)
ListNodes(s, x) ==
  /\ At(s, "pools")
  /\ Become(s, [Idle EXCEPT !.pc = "pods", !.x = x,
                            !.total = Cardinality(NodesOf(x) \intersect offered)])
  /\ UNCHANGED <<where, sel, offered, lock, unlocked, losses, flaps>>

(* Mutants: a pod without a provider is nobody's; a pod on a node counts   *)
(* by its labels; a pod that has no node yet does not count.               *)
CountsSameProvider(p, x) ==
  \/ p \in Placed /\ where[p] \in NodesOf(x)
  \/ p \in Waiting /\ sel[p] = x
CountsByLabels(p, x) ==
  /\ p \in Active
  /\ sel[p].board = x.board /\ (x.provider = AnyProvider \/ sel[p].provider = x.provider)
CountsPlaced(p, x) == p \in Placed /\ where[p] \in NodesOf(x)

Counts(p, x) ==
  \/ p \in Placed /\ where[p] \in NodesOf(x)
  \/ /\ p \in Waiting /\ sel[p].board = x.board
     /\ x.provider = AnyProvider \/ sel[p].provider \in {x.provider, AnyProvider}

ListPods(s) ==
  /\ At(s, "pods")
  /\ LET x == sch[s].x
         active == Cardinality({p \in Pod : Counts(p, x)})
     IN IF sch[s].total > active
          THEN Become(s, [Idle EXCEPT !.pc = "create", !.x = x,
                                      !.slots = sch[s].total - active])
          ELSE Become(s, [Idle EXCEPT !.pc = "pools"])
  /\ UNCHANGED <<where, sel, offered, lock, unlocked, losses, flaps>>

(* ProvisionRunner, for a job of the pool.                                 *)
CreatePod(s, p) ==
  /\ At(s, "create") /\ sch[s].slots > 0
  /\ where[p] = "none"
  /\ where' = [where EXCEPT ![p] = "waiting"]
  /\ sel' = [sel EXCEPT ![p] = sch[s].x]
  /\ unlocked' = IF lock = s THEN unlocked ELSE unlocked \union {p}
  /\ Become(s, [sch[s] EXCEPT !.slots = @ - 1])
  /\ UNCHANGED <<offered, lock, losses, flaps>>

(* No job of the pool is left, or no slot.                                 *)
NextPool(s) ==
  /\ At(s, "create")
  /\ Become(s, [Idle EXCEPT !.pc = "pools"])
  /\ UNCHANGED <<where, sel, offered, lock, unlocked, losses, flaps>>

Release(s) == lock' = IF lock = s THEN NoOne ELSE lock

(* Commit or rollback, or the process dies, which may happen at any step.  *)
Ends(s) ==
  /\ ~At(s, "idle")
  /\ Release(s) /\ Become(s, Idle)
  /\ UNCHANGED <<where, sel, offered, unlocked, losses, flaps>>

LoseConnection(s) ==
  /\ lock = s /\ losses < MaxLosses
  /\ lock' = NoOne /\ losses' = losses + 1
  /\ UNCHANGED <<where, sel, offered, sch, unlocked, flaps>>

-----------------------------------------------------------------------------
Next ==
  \/ \E p \in Pod : PodEnds(p) \/ \E n \in Node : Bind(p, n)
  \/ \E n \in Node : SlotWithdrawn(n) \/ SlotOffered(n)
  \/ \E s \in Scheduler :
       \/ Lock(s) \/ ListPods(s) \/ NextPool(s) \/ Ends(s) \/ LoseConnection(s)
       \/ \E x \in Asked : ListNodes(s, x)
       \/ \E p \in Pod : CreatePod(s, p)

Spec == Init /\ [][Next]_vars

-----------------------------------------------------------------------------
(* Properties.                                                             *)

(* Selectors with a provider, of boards of which no job may go anywhere.   *)
Strict == {x \in Asked : \A y \in Asked : y.board = x.board => y.provider # AnyProvider}

(* Where every job names a provider, a pod waits for a node to come back,  *)
(* never for another pod to end: whatever old pods without a provider may  *)
(* still be placed on, and however Kubernetes places them, there are nodes *)
(* for all that wait -- short of the pods created after a lost lock.       *)
PodsHaveNodes ==
  \A x \in Strict :
    Cardinality({p \in Waiting : sel[p] = x})
      <= Cardinality(Free(NodesOf(x))) + Cardinality(unlocked \intersect Active)

(* All waiting pods can be placed at once, each on a node of its own.      *)
Placeable ==
  \E f \in [Waiting -> Node] :
    /\ \A p \in Waiting : f[p] \in Free(NodesOf(sel[p]))
    /\ \A p, q \in Waiting : f[p] = f[q] => p = q

(* With any mix of selectors, creating a pod never takes the last node     *)
(* that pods already waiting could all have been placed on.                *)
CreationLeavesRoom ==
  [][Waiting' \ Waiting # {} /\ unlocked' = {} /\ Placeable => Placeable']_where

=============================================================================
