---------------------------- MODULE PlacementProofs ----------------------------
(***************************************************************************)
(* Proofs about Placement, for any nodes, pods, schedulers, selectors, and *)
(* any number of lost connections and flaps: PodsHaveNodes and             *)
(* CreationLeavesRoom.                                                     *)
(*                                                                         *)
(* By themselves they are not inductive: a pod of another selector may     *)
(* take a node that a waiting pod of x was counted on.  All pods that may  *)
(* are therefore counted with those of x (Need), as AvailableSlots does,   *)
(* and the iteration that holds the lock has room for all it may still     *)
(* create, whatever selectors overlap (HolderHasRoom).  Pods created       *)
(* without the lock owe x the room they take (Owing).  Where jobs name a   *)
(* provider nobody else uses up x's room between visits, and only the pods *)
(* in debt wait without it (OthersHaveRoom).                               *)
(***************************************************************************)
EXTENDS Placement, FiniteSetTheorems, TLAPS

(* The waiting pods that may take a node of x; the pods that owe x one,    *)
(* which they wait for or have taken.                                      *)
Need(x) == {p \in Waiting :
  /\ sel[p].board = x.board
  /\ x.provider = AnyProvider \/ sel[p].provider \in {x.provider, AnyProvider}}
Owing(x) == {p \in unlocked : p \in Need(x) \/ where[p] \in NodesOf(x)}
Of(x) == {p \in Waiting : sel[p] = x}

Room(x, k) == Cardinality(Need(x)) + k
                <= Cardinality(Free(NodesOf(x))) + Cardinality(Owing(x))

SchedulersOK == \A s \in Scheduler :
  /\ sch[s].pc \in {"pods", "create"} => sch[s].x \in Asked
  /\ sch[s].pc = "pods" => sch[s].total <= Cardinality(NodesOf(sch[s].x))

PodsOK ==
  /\ \A p \in Placed : where[p] \in NodesOf(sel[p])
  /\ \A p, q \in Placed : where[p] = where[q] => p = q
  /\ unlocked \subseteq Active

(* A selector of which there are no pods at the start, or no more that may *)
(* take its nodes than it has nodes.                                       *)
OldFit(x) ==
  \/ \A p \in DOMAIN Old : Old[p] # x
  \/ Cardinality({p \in DOMAIN Old :
        /\ Old[p].board = x.board
        /\ x.provider = AnyProvider \/ Old[p].provider \in {x.provider, AnyProvider}})
       <= Cardinality(NodesOf(x))
Fitting == {x \in Strict : OldFit(x)}

OthersHaveRoom == \A x \in Fitting : Of(x) \ unlocked # {} => Room(x, 0)

HolderHasRoom == \A s \in Scheduler :
  lock = s /\ sch[s].pc = "create" => Room(sch[s].x, sch[s].slots)

Inv == TypeOK /\ SchedulersOK /\ PodsOK /\ OthersHaveRoom /\ HolderHasRoom

-----------------------------------------------------------------------------
(* Sets.                                                                   *)

LEMMA Finite ==
  /\ \A S : S \subseteq Pod \/ S \subseteq Node =>
       IsFiniteSet(S) /\ Cardinality(S) \in Nat
  /\ \A S, T : (T \subseteq Pod \/ T \subseteq Node) /\ S \subseteq T =>
       Cardinality(S) <= Cardinality(T)
<1>1. ASSUME NEW S, S \subseteq Pod \/ S \subseteq Node
      PROVE  IsFiniteSet(S) /\ Cardinality(S) \in Nat
  <2>1. IsFiniteSet(S)
    BY <1>1, FS_Subset, ConstantsAssumption
  <2> QED
    BY <2>1, FS_CardinalityType
<1>2. ASSUME NEW S, NEW T, T \subseteq Pod \/ T \subseteq Node, S \subseteq T
      PROVE  Cardinality(S) <= Cardinality(T)
  BY <1>1, <1>2, FS_Subset
<1> QED
  BY <1>1, <1>2

LEMMA OneMore ==
  ASSUME NEW S, NEW p, S \subseteq Pod \/ S \subseteq Node, p \notin S
  PROVE  Cardinality(S \union {p}) = Cardinality(S) + 1
BY Finite, FS_AddElement

LEMMA OneLess ==
  ASSUME NEW S, NEW p, S \subseteq Pod \/ S \subseteq Node, p \in S
  PROVE  Cardinality(S \ {p}) = Cardinality(S) - 1
BY Finite, FS_RemoveElement

LEMMA SetsType ==
  ASSUME NEW x, TypeOK
  PROVE  /\ Need(x) \subseteq Pod /\ Owing(x) \subseteq Pod
         /\ Free(NodesOf(x)) \subseteq Node /\ NodesOf(x) \subseteq Node
         /\ Cardinality(Need(x)) \in Nat /\ Cardinality(Owing(x)) \in Nat
         /\ Cardinality(Free(NodesOf(x))) \in Nat /\ Cardinality(NodesOf(x)) \in Nat
<1>1. /\ Need(x) \subseteq Pod /\ Owing(x) \subseteq Pod
      /\ Free(NodesOf(x)) \subseteq Node /\ NodesOf(x) \subseteq Node
  BY DEF Need, Owing, Free, NodesOf, Waiting, TypeOK
<1> QED
  BY <1>1, Finite

(* The room that is left by what AvailableSlots counts.                    *)
LEMMA CountedRoom ==
  ASSUME TypeOK, NEW x \in Selector, NEW total \in Nat,
         total <= Cardinality(NodesOf(x)),
         total > Cardinality({p \in Pod : Counts(p, x)})
  PROVE  Room(x, total - Cardinality({p \in Pod : Counts(p, x)}))
<1> DEFINE On == {p \in Placed : where[p] \in NodesOf(x)}
           Taken == NodesOf(x) \ Free(NodesOf(x))
           Counted == {p \in Pod : Counts(p, x)}
<1>1. Counted = On \union Need(x) /\ On \intersect Need(x) = {} /\ On \subseteq Pod
  <2>1. On \intersect Need(x) = {}
    BY ConstantsAssumption DEF Need, Placed, Waiting
  <2> QED
    BY <2>1 DEF Counts, Need, Placed, Waiting
<1>2. Cardinality(Counted) = Cardinality(On) + Cardinality(Need(x))
  <2>1. IsFiniteSet(On) /\ IsFiniteSet(Need(x)) /\ Cardinality(On) \in Nat
        /\ Cardinality(Need(x)) \in Nat
    BY <1>1, SetsType, Finite
  <2>2. Cardinality(On \union Need(x))
          = Cardinality(On) + Cardinality(Need(x)) - Cardinality(On \intersect Need(x))
    <3> HIDE DEF On
    <3> QED
      BY <2>1, FS_Union
  <2>3. Cardinality(On \intersect Need(x)) = 0
    BY <1>1, FS_EmptySet
  <2>4. Cardinality(Counted) = Cardinality(On \union Need(x))
    BY <1>1
  <2> HIDE DEF On, Counted
  <2> QED
    BY <2>1, <2>2, <2>3, <2>4
<1>3. Cardinality(Taken) <= Cardinality(On)
  <2> DEFINE f == [p \in On |-> where[p]]
  <2>1. f \in Surjection(On, Taken)
    <3>1. \A p \in On : where[p] \in Taken
      BY <1>1 DEF Free
    <3>2. \A n \in Taken : \E p \in On : where[p] = n
      BY SetsType DEF Free, Placed
    <3> QED
      BY <3>1, <3>2 DEF Surjection
  <2>2. IsFiniteSet(On)
    BY <1>1, Finite
  <2> QED
    BY <2>1, <2>2, FS_Surjection
<1>4. Cardinality(NodesOf(x)) = Cardinality(Free(NodesOf(x))) + Cardinality(Taken)
  <2>1. IsFiniteSet(NodesOf(x)) /\ Free(NodesOf(x)) \subseteq NodesOf(x)
    BY SetsType, Finite DEF Free
  <2>2. NodesOf(x) \intersect Free(NodesOf(x)) = Free(NodesOf(x))
    BY <2>1
  <2>3. Cardinality(Taken) = Cardinality(NodesOf(x)) - Cardinality(Free(NodesOf(x)))
    BY <2>1, <2>2, FS_Difference
  <2> QED
    BY <2>3, SetsType
<1>5. Cardinality(Taken) \in Nat /\ Cardinality(On) \in Nat
  BY <1>1, SetsType, Finite
<1> QED
  BY <1>2, <1>3, <1>4, <1>5, SetsType DEF Room

-----------------------------------------------------------------------------
(* How a step changes the room of a pool.                                  *)

LEMMA BindKeepsRoom ==
  ASSUME Inv, NEW x \in Selector, NEW k \in Nat, Room(x, k),
         NEW p \in Pod, NEW n \in Node, Bind(p, n)
  PROVE  Room(x, k)'
<1>1. /\ TypeOK /\ p \in Waiting /\ where' = [where EXCEPT ![p] = n]
      /\ n \in Free(NodesOf(sel[p])) /\ UNCHANGED <<sel, unlocked>>
  BY DEF Bind, Inv
<1>2. Need(x)' = Need(x) \ {p} /\ NodesOf(x)' = NodesOf(x)
  BY <1>1, ConstantsAssumption DEF Need, Waiting, NodesOf, TypeOK
<1>3. Free(NodesOf(x))' = Free(NodesOf(x)) \ {n}
  BY <1>1, ConstantsAssumption DEF Free, Waiting, NodesOf, TypeOK
<1>4. n \in NodesOf(x) => p \in Need(x)
  BY <1>1 DEF Need, NodesOf, Free
<1>5. CASE n \in NodesOf(x)
  <2>1. n \in Free(NodesOf(x))
    BY <1>1, <1>5 DEF Free
  <2>2. /\ Cardinality(Need(x) \ {p}) = Cardinality(Need(x)) - 1
        /\ Cardinality(Free(NodesOf(x)) \ {n}) = Cardinality(Free(NodesOf(x))) - 1
    BY <1>1, <1>4, <1>5, <2>1, OneLess, SetsType
  <2>3. Owing(x)' = Owing(x)
    BY <1>1, <1>2, <1>4, <1>5 DEF Owing, TypeOK
  <2> QED
    BY <1>1, <1>2, <1>3, <2>2, <2>3, SetsType DEF Room
<1>6. CASE n \notin NodesOf(x)
  <2>1. Free(NodesOf(x))' = Free(NodesOf(x))
    BY <1>3, <1>6 DEF Free
  <2>2. Owing(x)' = Owing(x) \ {p} /\ (p \in Owing(x) => p \in Need(x))
    BY <1>1, <1>2, <1>6, ConstantsAssumption DEF Owing, Waiting, NodesOf, TypeOK
  <2>3. CASE p \in Owing(x)
    <3>1. /\ Cardinality(Need(x) \ {p}) = Cardinality(Need(x)) - 1
          /\ Cardinality(Owing(x) \ {p}) = Cardinality(Owing(x)) - 1
      BY <1>1, <2>2, <2>3, OneLess, SetsType
    <3> QED
      BY <1>1, <1>2, <2>1, <2>2, <3>1, SetsType DEF Room
  <2>4. CASE p \notin Owing(x)
    <3>1. Owing(x)' = Owing(x)
      BY <2>2, <2>4
    <3>2. Cardinality(Need(x) \ {p}) \in Nat
          /\ Cardinality(Need(x) \ {p}) <= Cardinality(Need(x))
      BY <1>1, Finite, SetsType
    <3> QED
      BY <1>1, <1>2, <2>1, <3>1, <3>2, SetsType DEF Room
  <2> QED
    BY <2>3, <2>4
<1> QED
  BY <1>5, <1>6

LEMMA EndKeepsRoom ==
  ASSUME Inv, NEW x \in Selector, NEW k \in Nat, Room(x, k), NEW p \in Pod, PodEnds(p)
  PROVE  Room(x, k)'
<1> DEFINE F == Free(NodesOf(x))
<1>1. /\ TypeOK /\ PodsOK /\ p \in Placed /\ where' = [where EXCEPT ![p] = "none"]
      /\ sel' = [sel EXCEPT ![p] = Idle.x] /\ unlocked' = unlocked \ {p}
  BY DEF PodEnds, Inv
<1>2. Need(x)' = Need(x) /\ Owing(x)' = Owing(x) \ {p} /\ NodesOf(x)' = NodesOf(x)
  <2>1. Need(x)' = Need(x) /\ NodesOf(x)' = NodesOf(x)
    BY <1>1, ConstantsAssumption DEF Need, Waiting, Placed, NodesOf, TypeOK
  <2> QED
    BY <1>1, <2>1 DEF Owing, TypeOK
<1>3. F \subseteq F' /\ F' \subseteq Node
  BY <1>1, <1>2, ConstantsAssumption DEF Free, NodesOf, TypeOK
<1>4. Cardinality(F) <= Cardinality(F') /\ Cardinality(F') \in Nat /\ Cardinality(F) \in Nat
  BY <1>3, <1>1, Finite, SetsType
<1>5. CASE p \notin Owing(x)
  <2>1. Owing(x)' = Owing(x)
    BY <1>2, <1>5
  <2>2. Cardinality(Need(x)) \in Nat /\ Cardinality(Owing(x)) \in Nat
    BY <1>1, SetsType
  <2>3. Cardinality(Need(x))' = Cardinality(Need(x))
        /\ Cardinality(Owing(x))' = Cardinality(Owing(x))
    BY <1>2, <2>1
  <2> QED
    BY <1>4, <2>2, <2>3 DEF Room
<1>6. CASE p \in Owing(x)
  <2> DEFINE n == where[p]
  <2>1. n \in NodesOf(x) /\ n \notin F /\ n \in Node
    BY <1>1, <1>6, ConstantsAssumption DEF Owing, Need, Waiting, Free, Placed
  <2>2. n \in F'
    <3>1. \A q \in Pod : where'[q] # n
      BY <1>1, <2>1, ConstantsAssumption DEF PodsOK, Placed, TypeOK
    <3> QED
      BY <2>1, <1>2, <3>1 DEF Free
  <2>3. F \union {n} \subseteq F'
    BY <1>3, <2>2
  <2>4. Cardinality(F \union {n}) = Cardinality(F) + 1
    BY <1>1, <2>1, OneMore, SetsType
  <2>5. Cardinality(F) + 1 <= Cardinality(F')
    BY <1>3, <2>3, <2>4, Finite
  <2>6. Cardinality(Owing(x) \ {p}) = Cardinality(Owing(x)) - 1
    BY <1>1, <1>6, OneLess, SetsType
  <2> QED
    BY <1>1, <1>2, <1>4, <2>5, <2>6, SetsType DEF Room
<1> QED
  BY <1>5, <1>6

(* Created with the lock, a pod uses up one node of its own pool, and,     *)
(* where jobs name a provider, of no other; without it, none.              *)
LEMMA CreateRoom ==
  ASSUME Inv, NEW s \in Scheduler, NEW p \in Pod, CreatePod(s, p),
         NEW x \in Selector, NEW k \in Nat
  PROVE  /\ lock = s /\ sch[s].x = x /\ Room(x, k + 1) => Room(x, k)'
         /\ lock # s \/ (sch[s].x # x /\ x \in Strict) => (Room(x, k) => Room(x, k)')
<1>1. /\ TypeOK /\ where[p] = "none" /\ where' = [where EXCEPT ![p] = "waiting"]
      /\ sel' = [sel EXCEPT ![p] = sch[s].x] /\ sch[s].x \in Asked
      /\ unlocked' = (IF lock = s THEN unlocked ELSE unlocked \union {p})
      /\ p \notin unlocked /\ Asked \subseteq Selector
  BY ConstantsAssumption
     DEF CreatePod, Inv, SchedulersOK, PodsOK, Active, Waiting, Placed, At
<1>2. NodesOf(x)' = NodesOf(x) /\ Free(NodesOf(x))' = Free(NodesOf(x))
  BY <1>1, ConstantsAssumption DEF NodesOf, Free, TypeOK
<1>3. p \notin Need(x) /\ p \notin Owing(x)
  BY <1>1 DEF Need, Owing, Waiting
<1>4. \/ Need(x)' = Need(x) \union {p}
      \/ Need(x)' = Need(x) /\ ~(sch[s].x = x)
  BY <1>1, <1>3 DEF Need, Waiting, TypeOK
<1>5. sch[s].x # x /\ x \in Strict => Need(x)' = Need(x)
  <2> SUFFICES ASSUME sch[s].x # x, x \in Strict PROVE Need(x)' = Need(x)
    OBVIOUS
  <2>1. ~(sch[s].x.board = x.board /\ sch[s].x.provider \in {x.provider, AnyProvider})
    BY <1>1, ConstantsAssumption DEF Strict
  <2>2. x.provider # AnyProvider
    BY DEF Strict
  <2> QED
    BY <1>1, <1>3, <2>1, <2>2 DEF Need, Waiting, TypeOK
<1>6. Cardinality(Need(x) \union {p}) = Cardinality(Need(x)) + 1
  BY <1>1, <1>3, OneMore, SetsType
<1>7. CASE lock = s
  <2>1. Owing(x)' = Owing(x)
    BY <1>1, <1>2, <1>4, <1>7, ConstantsAssumption DEF Owing, NodesOf, TypeOK
  <2>2. CASE sch[s].x = x
    <3>1. Need(x)' = Need(x) \union {p}
      BY <1>4, <2>2
    <3> QED
      BY <1>1, <1>2, <1>6, <1>7, <2>1, <2>2, <3>1, SetsType DEF Room
  <2>3. CASE sch[s].x # x
    BY <1>2, <1>5, <1>7, <2>1, <2>3 DEF Room
  <2> QED
    BY <2>2, <2>3
<1>8. CASE lock # s
  <2>1. CASE Need(x)' = Need(x) \union {p}
    <3>1. Owing(x)' = Owing(x) \union {p}
      BY <1>1, <1>2, <1>8, <2>1, ConstantsAssumption DEF Owing, NodesOf, TypeOK
    <3>2. Cardinality(Owing(x) \union {p}) = Cardinality(Owing(x)) + 1
      BY <1>1, <1>3, OneMore, SetsType
    <3> QED
      BY <1>1, <1>2, <1>6, <1>8, <2>1, <3>1, <3>2, SetsType DEF Room
  <2>2. CASE Need(x)' = Need(x)
    <3>1. Owing(x)' = Owing(x)
      BY <1>1, <1>2, <1>3, <1>8, <2>2, ConstantsAssumption DEF Owing, NodesOf, TypeOK
    <3> QED
      BY <1>2, <1>8, <2>2, <3>1 DEF Room
  <2> QED
    BY <1>4, <2>1, <2>2
<1> QED
  BY <1>7, <1>8

-----------------------------------------------------------------------------
LEMMA IdleType == Idle \in Local
BY Finite, FS_EmptySet, ConstantsAssumption DEF Idle, Local, PCs

LEMMA FittingSelectors == Fitting \subseteq Strict /\ Strict \subseteq Selector
BY ConstantsAssumption DEF Fitting, Strict

LEMMA InitInv == Init => Inv
<1> SUFFICES ASSUME Init PROVE Inv
  OBVIOUS
<1>1. TypeOK
  BY IdleType, ConstantsAssumption DEF Init, TypeOK, Local
<1>2. \A s \in Scheduler : sch[s].pc = "idle"
  BY DEF Init, Idle
<1>3. SchedulersOK /\ HolderHasRoom
  BY <1>2 DEF SchedulersOK, HolderHasRoom
<1>4. PodsOK
  BY ConstantsAssumption DEF Init, PodsOK, Placed
<1>5. ASSUME NEW x \in Fitting, Of(x) # {} PROVE Room(x, 0)
  <2>1. Waiting = DOMAIN Old /\ \A p \in DOMAIN Old : sel[p] = Old[p]
    BY ConstantsAssumption DEF Init, Waiting
  <2>2. Cardinality(Need(x)) <= Cardinality(NodesOf(x))
    BY <1>5, <2>1 DEF Fitting, OldFit, Of, Need
  <2>3. Free(NodesOf(x)) = NodesOf(x)
    BY ConstantsAssumption DEF Init, Free, NodesOf
  <2>4. Cardinality(Owing(x)) = 0
    BY FS_EmptySet DEF Init, Owing
  <2> QED
    BY <1>1, <2>2, <2>3, <2>4, SetsType DEF Room
<1>6. OthersHaveRoom
  BY <1>5 DEF OthersHaveRoom
<1> QED
  BY <1>1, <1>3, <1>4, <1>6 DEF Inv

(* With pods, labels and lock as they were, room is as it was.             *)
LEMMA SameRoom ==
  ASSUME UNCHANGED <<where, sel, unlocked>>
  PROVE  /\ \A x, k : Room(x, k)' <=> Room(x, k)
         /\ \A x : Of(x)' = Of(x)
         /\ PodsOK' <=> PodsOK
<1>1. \A x : Need(x)' = Need(x) /\ Owing(x)' = Owing(x) /\ NodesOf(x)' = NodesOf(x)
             /\ Free(NodesOf(x))' = Free(NodesOf(x)) /\ Of(x)' = Of(x)
  BY DEF Need, Owing, NodesOf, Free, Of, Waiting
<1>2. PodsOK' <=> PodsOK
  BY DEF PodsOK, Placed, Active, Waiting, NodesOf
<1> QED
  BY <1>1, <1>2 DEF Room

LEMMA HolderUnchanged ==
  ASSUME Inv, TypeOK', UNCHANGED <<lock, sch>>, PodsOK',
         \A x \in Fitting : Of(x)' \ unlocked' # {} => Of(x) \ unlocked # {},
         \A x \in Selector, k \in Nat : Room(x, k) => Room(x, k)'
  PROVE  Inv'
<1>1. SchedulersOK'
  BY DEF Inv, SchedulersOK, NodesOf
<1>2. OthersHaveRoom'
  BY FittingSelectors DEF Inv, OthersHaveRoom
<1>3. \A s \in Scheduler : sch[s].slots \in Nat /\ sch[s].x \in Selector
  BY Finite DEF Inv, TypeOK, Local
<1>4. HolderHasRoom'
  BY <1>3 DEF Inv, HolderHasRoom
<1> QED
  BY <1>1, <1>2, <1>4 DEF Inv

LEMMA BindInv ==
  ASSUME Inv, NEW p \in Pod, NEW n \in Node, Bind(p, n)
  PROVE  Inv'
<1>1. /\ TypeOK /\ PodsOK /\ p \in Waiting /\ where' = [where EXCEPT ![p] = n]
      /\ n \in Free(NodesOf(sel[p]))
      /\ UNCHANGED <<sel, offered, lock, sch, unlocked, losses, flaps>>
  BY DEF Bind, Inv
<1>2. TypeOK'
  BY <1>1 DEF TypeOK
<1>3. PodsOK'
  <2>1. \A q \in Placed' : q = p \/ (q \in Placed /\ where'[q] = where[q])
    BY <1>1 DEF Placed, TypeOK
  <2>2. \A q \in Placed : where[q] # n
    BY <1>1 DEF Free, Placed
  <2>3. n \in NodesOf(sel[p]) /\ where'[p] = n
    BY <1>1 DEF Free, TypeOK
  <2>4. \A y : NodesOf(y)' = NodesOf(y)
    BY DEF NodesOf
  <2>5. \A q \in Placed' : where'[q] \in NodesOf(sel'[q])
    BY <1>1, <2>1, <2>3, <2>4 DEF PodsOK
  <2>6. \A q, r \in Placed' : where'[q] = where'[r] => q = r
    BY <1>1, <2>1, <2>2, <2>3 DEF PodsOK
  <2>7. unlocked' \subseteq Active'
    BY <1>1 DEF PodsOK, Active, Waiting, Placed, TypeOK
  <2> QED
    BY <1>1, <2>5, <2>6, <2>7, <2>4 DEF PodsOK
<1>4. \A x : Of(x)' \subseteq Of(x)
  BY <1>1, ConstantsAssumption DEF Of, Waiting, TypeOK
<1> QED
  BY <1>1, <1>2, <1>3, <1>4, BindKeepsRoom, HolderUnchanged

LEMMA EndInv ==
  ASSUME Inv, NEW p \in Pod, PodEnds(p)
  PROVE  Inv'
<1>1. /\ TypeOK /\ PodsOK /\ p \in Placed /\ where' = [where EXCEPT ![p] = "none"]
      /\ sel' = [sel EXCEPT ![p] = Idle.x] /\ unlocked' = unlocked \ {p}
      /\ UNCHANGED <<offered, lock, sch, losses, flaps>>
  BY DEF PodEnds, Inv
<1>2. TypeOK'
  <2>1. Idle.x \in Selector
    BY IdleType DEF Local
  <2> QED
    BY <1>1, <2>1 DEF TypeOK
<1>3. PodsOK'
  <2>1. \A q \in Placed' : q \in Placed /\ q # p /\ where'[q] = where[q] /\ sel'[q] = sel[q]
    BY <1>1, ConstantsAssumption DEF Placed, TypeOK
  <2>2. \A y : NodesOf(y)' = NodesOf(y)
    BY DEF NodesOf
  <2>3. \A q \in Placed' : where'[q] \in NodesOf(sel'[q])
    BY <1>1, <2>1, <2>2 DEF PodsOK
  <2>4. \A q, r \in Placed' : where'[q] = where'[r] => q = r
    BY <1>1, <2>1 DEF PodsOK
  <2>5. unlocked' \subseteq Active'
    BY <1>1 DEF PodsOK, Active, Waiting, Placed, TypeOK
  <2> QED
    BY <2>2, <2>3, <2>4, <2>5 DEF PodsOK
<1>4. \A x : p \notin Of(x) /\ Of(x)' \subseteq Of(x)
  BY <1>1, ConstantsAssumption DEF Of, Waiting, Placed, TypeOK
<1>5. \A x : Of(x)' \ unlocked' \subseteq Of(x) \ unlocked
  BY <1>1, <1>4
<1> QED
  BY <1>1, <1>2, <1>3, <1>5, EndKeepsRoom, HolderUnchanged

LEMMA FlapInv ==
  ASSUME Inv, NEW n \in Node, SlotWithdrawn(n) \/ SlotOffered(n)
  PROVE  Inv'
<1>1. UNCHANGED <<where, sel, lock, sch, unlocked, losses>>
  BY DEF SlotWithdrawn, SlotOffered
<1>2. offered' \subseteq Node /\ flaps' \in 0..MaxFlaps
  BY ConstantsAssumption DEF SlotWithdrawn, SlotOffered, Inv, TypeOK
<1>3. TypeOK'
  BY <1>1, <1>2 DEF Inv, TypeOK
<1>4. PodsOK'
  BY <1>1, SameRoom DEF Inv
<1> QED
  BY <1>1, <1>3, <1>4, SameRoom, HolderUnchanged

-----------------------------------------------------------------------------
(* A step of a scheduler that creates no pod.                              *)
LEMMA QuietStep ==
  ASSUME Inv, NEW s \in Scheduler, NEW l \in Local, Become(s, l),
         UNCHANGED <<where, sel, unlocked, offered, flaps>>,
         lock' \in {lock, NoOne, s}, losses' \in 0..MaxLosses,
         l.pc \in {"pods", "create"} => l.x \in Asked,
         l.pc = "pods" => l.total <= Cardinality(NodesOf(l.x)),
         l.pc = "create" => Room(l.x, l.slots)
  PROVE  Inv'
<1>1. sch' = [sch EXCEPT ![s] = l] /\ TypeOK
  BY DEF Become, Inv
<1>2. TypeOK'
  BY <1>1 DEF TypeOK
<1>3. SchedulersOK'
  BY <1>1 DEF Inv, SchedulersOK, TypeOK, NodesOf
<1>4. PodsOK' /\ OthersHaveRoom'
  BY SameRoom DEF Inv, OthersHaveRoom
<1>5. HolderHasRoom'
  <2> SUFFICES ASSUME NEW t \in Scheduler, lock' = t, sch'[t].pc = "create"
               PROVE  Room(sch[t].x, sch[t].slots)'
    BY DEF HolderHasRoom
  <2>1. Room(sch'[t].x, sch'[t].slots)
    BY <1>1, ConstantsAssumption DEF Inv, HolderHasRoom, TypeOK
  <2> QED
    BY <2>1 DEF Room, Need, Owing, NodesOf, Free, Waiting
<1> QED
  BY <1>2, <1>3, <1>4, <1>5 DEF Inv

LEMMA LockInv == ASSUME Inv, NEW s \in Scheduler, Lock(s) PROVE Inv'
<1> DEFINE l == [Idle EXCEPT !.pc = "pools"]
<1>1. l \in Local /\ l.pc = "pools"
  BY IdleType DEF Local, PCs
<1> QED
  BY <1>1, QuietStep DEF Lock, Inv, TypeOK

LEMMA ListNodesInv ==
  ASSUME Inv, NEW s \in Scheduler, NEW x \in Asked, ListNodes(s, x)
  PROVE  Inv'
<1> DEFINE n == Cardinality(NodesOf(x) \intersect offered)
           l == [Idle EXCEPT !.pc = "pods", !.x = x, !.total = n]
<1>1. TypeOK /\ NodesOf(x) \subseteq Node /\ x \in Selector
  BY SetsType, ConstantsAssumption DEF Inv
<1>2. n \in 0..Cardinality(Node) /\ n <= Cardinality(NodesOf(x))
  BY <1>1, Finite
<1>3. l \in Local /\ l.pc = "pods" /\ l.x = x /\ l.total = n
  BY <1>1, <1>2, IdleType DEF Local, PCs
<1>4. Become(s, l) /\ UNCHANGED <<where, sel, offered, lock, unlocked, losses, flaps>>
  BY DEF ListNodes
<1> QED
  BY <1>2, <1>3, <1>4, QuietStep DEF Inv, TypeOK

LEMMA ListPodsInv == ASSUME Inv, NEW s \in Scheduler, ListPods(s) PROVE Inv'
<1> DEFINE x == sch[s].x
           active == Cardinality({p \in Pod : Counts(p, x)})
           l == [Idle EXCEPT !.pc = "create", !.x = x, !.slots = sch[s].total - active]
           idle == [Idle EXCEPT !.pc = "pools"]
<1>1. /\ TypeOK /\ sch[s] \in Local /\ x \in Asked /\ sch[s].pc = "pods"
      /\ sch[s].total <= Cardinality(NodesOf(x))
      /\ UNCHANGED <<where, sel, offered, lock, unlocked, losses, flaps>>
  BY DEF ListPods, At, Inv, TypeOK, SchedulersOK
<1>2. active \in Nat /\ Cardinality(Node) \in Nat
  BY Finite
<1>3. sch[s].total \in 0..Cardinality(Node) /\ x \in Selector
  BY <1>1 DEF Local
<1>4. CASE sch[s].total > active
  <2>1. Become(s, l)
    BY <1>4 DEF ListPods
  <2>2. sch[s].total - active \in 0..Cardinality(Node)
    BY <1>2, <1>3, <1>4
  <2>3. l \in Local /\ l.pc = "create" /\ l.x = x /\ l.slots = sch[s].total - active
    <3> HIDE DEF active, x
    <3> QED
      BY <1>3, <2>2, IdleType DEF Local, PCs
  <2>4. Room(x, sch[s].total - active)
    <3>1. sch[s].total \in Nat
      BY <1>2, <1>3
    <3> QED
      BY <1>1, <1>3, <1>4, <3>1, CountedRoom
  <2>5. losses \in 0..MaxLosses
    BY <1>1 DEF TypeOK
  <2> HIDE DEF l
  <2> QED
    BY <1>1, <2>1, <2>3, <2>4, <2>5, QuietStep
<1>5. CASE ~(sch[s].total > active)
  <2>1. Become(s, idle)
    BY <1>5 DEF ListPods
  <2>2. idle \in Local /\ idle.pc = "pools"
    BY IdleType DEF Local, PCs
  <2> HIDE DEF idle
  <2> QED
    BY <1>1, <2>1, <2>2, QuietStep DEF TypeOK
<1> QED
  BY <1>4, <1>5

LEMMA LeaveInv ==
  ASSUME Inv, NEW s \in Scheduler, NextPool(s) \/ Ends(s)
  PROVE  Inv'
<1>1. /\ [Idle EXCEPT !.pc = "pools"] \in Local /\ [Idle EXCEPT !.pc = "pools"].pc = "pools"
      /\ Idle \in Local /\ Idle.pc = "idle"
  BY IdleType DEF Local, PCs, Idle
<1>2. CASE NextPool(s)
  BY <1>1, <1>2, QuietStep DEF NextPool, Inv, TypeOK
<1>3. CASE Ends(s)
  BY <1>1, <1>3, QuietStep DEF Ends, Release, Inv, TypeOK
<1> QED
  BY <1>2, <1>3

LEMMA LossInv == ASSUME Inv, NEW s \in Scheduler, LoseConnection(s) PROVE Inv'
<1>1. /\ TypeOK /\ lock' = NoOne /\ losses < MaxLosses /\ losses' = losses + 1
      /\ UNCHANGED <<where, sel, offered, sch, unlocked, flaps>>
  BY DEF LoseConnection, Inv
<1>2. TypeOK'
  BY <1>1, ConstantsAssumption DEF TypeOK
<1>3. SchedulersOK' /\ PodsOK' /\ OthersHaveRoom'
  BY <1>1, SameRoom DEF Inv, SchedulersOK, OthersHaveRoom, NodesOf
<1>4. HolderHasRoom'
  BY <1>1, ConstantsAssumption DEF HolderHasRoom
<1> QED
  BY <1>2, <1>3, <1>4 DEF Inv

LEMMA CreateInv ==
  ASSUME Inv, NEW s \in Scheduler, NEW p \in Pod, CreatePod(s, p)
  PROVE  Inv'
<1> DEFINE l == [sch[s] EXCEPT !.slots = @ - 1]
<1>1. /\ TypeOK /\ SchedulersOK /\ PodsOK /\ sch[s] \in Local
      /\ sch[s].pc = "create" /\ sch[s].slots > 0 /\ where[p] = "none"
      /\ where' = [where EXCEPT ![p] = "waiting"]
      /\ sel' = [sel EXCEPT ![p] = sch[s].x] /\ sch' = [sch EXCEPT ![s] = l]
      /\ unlocked' = (IF lock = s THEN unlocked ELSE unlocked \union {p})
      /\ UNCHANGED <<offered, lock, losses, flaps>>
  BY DEF CreatePod, Inv, At, Become, TypeOK
<1>2. /\ sch[s].slots \in Nat /\ sch[s].slots - 1 \in Nat
      /\ sch[s].slots - 1 \in 0..Cardinality(Node)
  <2>1. sch[s].slots \in 0..Cardinality(Node) /\ Cardinality(Node) \in Nat
    BY <1>1, Finite DEF Local
  <2> QED
    BY <1>1, <2>1
<1>3. l \in Local /\ l.pc = "create" /\ l.x = sch[s].x /\ l.slots = sch[s].slots - 1
  BY <1>1, <1>2 DEF Local
<1>4. TypeOK'
  <2>1. sch[s].x \in Selector
    BY <1>1 DEF Local
  <2> QED
    BY <1>1, <1>3, <2>1 DEF TypeOK
<1>5. SchedulersOK'
  BY <1>1, <1>3 DEF SchedulersOK, TypeOK, NodesOf
<1>6. PodsOK'
  <2>1. \A q \in Placed' : q \in Placed /\ q # p /\ where'[q] = where[q] /\ sel'[q] = sel[q]
    BY <1>1, ConstantsAssumption DEF Placed, TypeOK
  <2>2. \A q \in Placed' : where'[q] \in NodesOf(sel'[q])
    BY <1>1, <2>1 DEF PodsOK
  <2>3. \A q, r \in Placed' : where'[q] = where'[r] => q = r
    BY <1>1, <2>1 DEF PodsOK
  <2>4. unlocked' \subseteq Active'
    BY <1>1 DEF PodsOK, Active, Waiting, Placed, TypeOK
  <2> QED
    BY <2>2, <2>3, <2>4 DEF PodsOK, NodesOf
<1>7. \A x \in Selector, k \in Nat :
        sch[s].x = x /\ lock = s /\ k + 1 = sch[s].slots => Room(x, k + 1)
  BY <1>1 DEF Inv, HolderHasRoom
<1>8. \A x \in Selector, k \in Nat :
        sch[s].x = x /\ lock = s /\ k + 1 = sch[s].slots =>
          Cardinality(Need(x))' + k
            <= Cardinality(Free(NodesOf(x)))' + Cardinality(Owing(x))'
  <2>1. \A x \in Selector, k \in Nat :
          sch[s].x = x /\ lock = s /\ k + 1 = sch[s].slots => Room(x, k)'
    BY <1>7, CreateRoom
  <2> QED
    BY <2>1 DEF Room
<1>9. ASSUME NEW x \in Fitting, Of(x)' \ unlocked' # {}
      PROVE  Room(x, 0)'
  <2>0. x \in Strict /\ x \in Selector
    BY FittingSelectors
  <2>1. CASE lock = s /\ sch[s].x = x
    <3>1. Cardinality(Need(x))' + (sch[s].slots - 1)
            <= Cardinality(Free(NodesOf(x)))' + Cardinality(Owing(x))'
      BY <1>2, <1>8, <2>0, <2>1
    <3>2. /\ Cardinality(Need(x))' \in Nat
          /\ (Cardinality(Free(NodesOf(x))) \in Nat /\ Cardinality(Owing(x)) \in Nat)'
      <4>1. /\ Need(x)' \subseteq Pod /\ Owing(x)' \subseteq Pod
            /\ Free(NodesOf(x))' \subseteq Node
        BY <1>4 DEF Need, Owing, Free, NodesOf, Waiting, TypeOK
      <4> QED
        BY <4>1, Finite
    <3> QED
      BY <3>1, <3>2, <1>2 DEF Room
  <2>2. CASE ~(lock = s /\ sch[s].x = x)
    <3>1. Of(x)' \ unlocked' \subseteq Of(x) \ unlocked
      BY <1>1, <2>2 DEF Of, Waiting, TypeOK
    <3>2. Room(x, 0)
      BY <1>9, <3>1 DEF Inv, OthersHaveRoom
    <3> QED
      BY <3>2, <2>0, <2>2, CreateRoom
  <2> QED
    BY <2>1, <2>2
<1>10. HolderHasRoom'
  <2> SUFFICES ASSUME NEW t \in Scheduler, lock = t, sch'[t].pc = "create"
               PROVE  Room(sch[t].x, sch[t].slots)'
    BY <1>1 DEF HolderHasRoom
  <2>0. sch'[t].x \in Selector
    BY <1>4 DEF TypeOK, Local
  <2>1. CASE t = s
    <3>1. sch'[t].x = sch[s].x /\ sch'[t].slots = sch[s].slots - 1
      BY <1>1, <1>3, <2>1 DEF TypeOK
    <3>2. \A x \in Selector : sch[s].x = x =>
            Cardinality(Need(x))' + (sch[s].slots - 1)
              <= Cardinality(Free(NodesOf(x)))' + Cardinality(Owing(x))'
      BY <1>2, <1>8, <2>1
    <3> QED
      BY <2>0, <3>1, <3>2 DEF Room, Need, Owing, Free, NodesOf, Waiting
  <2>2. CASE t # s
    <3>1. sch'[t] = sch[t] /\ sch[t].slots \in Nat
      BY <1>1, <2>2, Finite DEF TypeOK, Local
    <3>2. Room(sch[t].x, sch[t].slots)
      BY <3>1 DEF Inv, HolderHasRoom
    <3>3. \A x \in Selector, k \in Nat : Room(x, k) => Room(x, k)'
      BY <2>2, CreateRoom
    <3>4. \A x \in Selector, k \in Nat : Room(x, k) =>
            Cardinality(Need(x))' + k
              <= Cardinality(Free(NodesOf(x)))' + Cardinality(Owing(x))'
      BY <3>3 DEF Room
    <3> QED
      BY <2>0, <3>1, <3>2, <3>4 DEF Room, Need, Owing, Free, NodesOf, Waiting
  <2> QED
    BY <2>1, <2>2
<1> QED
  BY <1>4, <1>5, <1>6, <1>9, <1>10 DEF Inv, OthersHaveRoom

LEMMA StepInv == Inv /\ [Next]_vars => Inv'
<1> SUFFICES ASSUME Inv, [Next]_vars PROVE Inv'
  OBVIOUS
<1>1. CASE UNCHANGED vars
  <2>1. UNCHANGED <<where, sel, offered, lock, sch, unlocked, losses, flaps>>
    BY <1>1 DEF vars
  <2>2. TypeOK'
    BY <2>1 DEF Inv, TypeOK
  <2> QED
    BY <2>1, <2>2, SameRoom, HolderUnchanged DEF Inv
<1>2. CASE Next
  BY <1>2, BindInv, EndInv, FlapInv, LockInv, ListNodesInv, ListPodsInv, LeaveInv, LossInv,
     CreateInv DEF Next
<1> QED
  BY <1>1, <1>2

-----------------------------------------------------------------------------
LEMMA InvImplies ==
  ASSUME \A x \in Strict : OldFit(x) PROVE Inv => TypeOK /\ PodsHaveNodes
<1> SUFFICES ASSUME Inv, NEW x \in Strict
             PROVE  Cardinality(Of(x))
                      <= Cardinality(Free(NodesOf(x))) + Cardinality(unlocked \intersect Active)
  BY DEF Inv, PodsHaveNodes, Of
<1>1. TypeOK /\ unlocked \subseteq Active /\ Active \subseteq Pod
  BY DEF Inv, PodsOK, Active, Waiting, Placed
<1>2. unlocked \intersect Active = unlocked /\ unlocked \subseteq Pod
  BY <1>1
<1>3. /\ Of(x) \subseteq Pod /\ Of(x) \subseteq Need(x) /\ Owing(x) \subseteq unlocked
  BY DEF Of, Need, Owing, Waiting, Strict
<1>4. /\ Cardinality(Of(x)) \in Nat /\ Cardinality(unlocked) \in Nat
      /\ Cardinality(Of(x)) <= Cardinality(Need(x))
      /\ Cardinality(Owing(x)) <= Cardinality(unlocked)
  BY <1>1, <1>2, <1>3, Finite, SetsType
<1>5. /\ Cardinality(Need(x)) \in Nat /\ Cardinality(Owing(x)) \in Nat
      /\ Cardinality(Free(NodesOf(x))) \in Nat
      /\ Cardinality(unlocked \intersect Active) = Cardinality(unlocked)
  BY <1>1, <1>2, SetsType
<1>6. CASE Of(x) \ unlocked = {}
  <2>1. Of(x) \subseteq unlocked
    BY <1>6
  <2>2. Cardinality(Of(x)) <= Cardinality(unlocked)
    BY <2>1, <1>2, Finite
  <2> QED
    BY <1>4, <1>5, <2>2
<1>7. CASE Of(x) \ unlocked # {}
  <2>1. Room(x, 0)
    BY <1>7 DEF Inv, OthersHaveRoom, Fitting
  <2> QED
    BY <1>4, <1>5, <2>1 DEF Room
<1> QED
  BY <1>6, <1>7

(* Take a pool such that all jobs for its board name a provider, and whose *)
(* nodes are enough for the pods there are at the start, if any are its    *)
(* own.  Its waiting pods have nodes to wait for, in whatever way pods     *)
(* without a provider are placed and connections lost, short of the pods   *)
(* created without the lock.                                               *)
THEOREM EveryPodHasItsNode ==
  ASSUME \A x \in Strict : OldFit(x)
  PROVE  Spec => [](TypeOK /\ PodsHaveNodes)
<1>1. Init => Inv
  BY InitInv
<1> QED
  BY <1>1, StepInv, InvImplies, PTL DEF Spec

-----------------------------------------------------------------------------
(* In a placing of all waiting pods only those counted for x take nodes of *)
(* x.  There are fewer of them than free nodes, so one is left.            *)
LEMMA CreatedPodFits ==
  ASSUME Inv, NEW s \in Scheduler, NEW p \in Pod, CreatePod(s, p), unlocked' = {}, Placeable
  PROVE  Placeable'
<1> DEFINE x == sch[s].x
           F == Free(NodesOf(x))
<1>1. /\ TypeOK /\ where[p] = "none" /\ where' = [where EXCEPT ![p] = "waiting"]
      /\ sel' = [sel EXCEPT ![p] = x] /\ sch[s].pc = "create" /\ x \in Selector
      /\ sch[s].slots > 0 /\ sch[s].slots \in Nat /\ lock = s /\ unlocked = {}
  BY Finite DEF Inv, TypeOK, Local, CreatePod, At
<1>2. PICK f \in [Waiting -> Node] :
        /\ \A q \in Waiting : f[q] \in Free(NodesOf(sel[q]))
        /\ \A q, r \in Waiting : f[q] = f[r] => q = r
  BY DEF Placeable
<1>3. Cardinality(Need(x)) < Cardinality(F)
  <2>1. Room(x, sch[s].slots)
    BY <1>1 DEF Inv, HolderHasRoom
  <2>2. Owing(x) = {} /\ Cardinality({}) = 0
    BY <1>1, FS_EmptySet DEF Owing
  <2>3. Cardinality(Need(x)) \in Nat /\ Cardinality(F) \in Nat
    BY <1>1, SetsType
  <2> QED
    BY <1>1, <2>1, <2>2, <2>3 DEF Room
<1>4. \A q \in Waiting : f[q] \in NodesOf(x) => q \in Need(x)
  BY <1>2 DEF Need, Free, NodesOf
<1>5. PICK n \in F : \A q \in Waiting : f[q] # n
  <2>1. SUFFICES ASSUME \A n \in F : \E q \in Waiting : f[q] = n PROVE FALSE
    OBVIOUS
  <2> DEFINE h == [n \in F |-> CHOOSE q \in Waiting : f[q] = n]
  <2>2. \A n \in F : h[n] \in Waiting /\ f[h[n]] = n
    BY <2>1
  <2>3. \A n \in F : h[n] \in Need(x)
    BY <1>4, <2>2 DEF Free
  <2>4. h \in Injection(F, Need(x))
    <3>1. \A m, n \in F : h[m] = h[n] => m = n
      BY <2>2
    <3>2. h \in [F -> Need(x)]
      BY <2>3
    <3> HIDE DEF h, F
    <3> QED
      BY <3>1, <3>2 DEF Injection, IsInjective
  <2>5. IsFiniteSet(Need(x)) /\ Cardinality(Need(x)) \in Nat /\ Cardinality(F) \in Nat
    BY <1>1, SetsType, Finite
  <2>6. Cardinality(F) <= Cardinality(Need(x))
    <3> HIDE DEF h, F
    <3> QED
      BY <2>4, <2>5, FS_Injection
  <2> QED
    BY <1>3, <2>5, <2>6
<1>6. Waiting' = Waiting \union {p} /\ p \notin Waiting
  BY <1>1 DEF Waiting, TypeOK
<1>7. PICK g : g = [q \in Waiting' |-> IF q = p THEN n ELSE f[q]]
  OBVIOUS
<1>8. /\ g \in [Waiting' -> Node]
      /\ \A q, r \in Waiting' : g[q] = g[r] => q = r
  <2>1. n \in Node
    BY <1>5 DEF Free, NodesOf
  <2> QED
    BY <1>2, <1>5, <1>6, <1>7, <2>1
<1>9. ASSUME NEW q \in Waiting'
       PROVE  g[q] \in Free(NodesOf(sel'[q]))
  <2>1. CASE q = p
    BY <1>1, <1>5, <1>7, <2>1 DEF TypeOK
  <2>2. CASE q # p
    <3>1. q \in Waiting /\ sel'[q] = sel[q] /\ g[q] = f[q]
      BY <1>1, <1>6, <1>7, <2>2 DEF TypeOK
    <3> QED
      BY <1>2, <3>1
  <2> QED
    BY <2>1, <2>2
<1>10. \A m \in Node : (\A r \in Pod : where[r] # m) => (\A r \in Pod : where'[r] # m)
  BY <1>1, ConstantsAssumption DEF TypeOK
<1>11. ASSUME NEW q \in Waiting'
       PROVE  /\ g[q] \in Node
              /\ Labels[g[q]].board = sel'[q].board
              /\ sel'[q].provider \in {AnyProvider, Labels[g[q]].provider}
              /\ \A r \in Pod : where'[r] # g[q]
  BY <1>9, <1>10 DEF Free, NodesOf
<1> HIDE DEF x, F
<1> QED
  BY <1>8, <1>11 DEF Placeable, Free, NodesOf

(* Only demandMatch makes a pod wait.                                      *)
LEMMA NewWaits ==
  ASSUME TypeOK, [Next]_vars, Waiting' \ Waiting # {}
  PROVE  \E s \in Scheduler, p \in Pod : CreatePod(s, p)
<1>1. where' # where
  BY DEF Waiting
<1>2. ASSUME NEW p \in Pod, PodEnds(p) \/ \E n \in Node : Bind(p, n) PROVE FALSE
  <2>1. \E v \in {"none"} \union Node : where' = [where EXCEPT ![p] = v]
    BY <1>2 DEF PodEnds, Bind
  <2> QED
    BY <2>1, ConstantsAssumption DEF Waiting, TypeOK
<1> QED
  BY <1>1, <1>2 DEF Next, vars, SlotWithdrawn, SlotOffered, Lock, ListPods, NextPool, Ends,
     LoseConnection, ListNodes

(* With any mix of selectors, and whatever waits or is placed already,     *)
(* demandMatch never creates the one pod too many: if all that waited      *)
(* could be placed before, all that waits can be placed after.             *)
THEOREM CreationKeepsRoom == Spec => CreationLeavesRoom
<1>1. Inv /\ [Next]_vars =>
        [Waiting' \ Waiting # {} /\ unlocked' = {} /\ Placeable => Placeable']_where
  BY NewWaits, CreatedPodFits DEF Inv
<1> QED
  BY <1>1, InitInv, StepInv, PTL DEF Spec, CreationLeavesRoom

=============================================================================
