-------------------------- MODULE DevicePluginProofs --------------------------
(***************************************************************************)
(* Proofs about DevicePlugin, for any hardware, threshold, interval, limit *)
(* and number of faults.  A registered plugin is past LabelNode, which it  *)
(* reaches only with a board that Detect knows (Labelled).  The watchdog's *)
(* file has the ages of its restarts in order (Ordered), and counted from  *)
(* its end they are those of the last restarts, as far as the file goes;   *)
(* what is not in it is an hour old (FileAgrees).                          *)
(***************************************************************************)
EXTENDS DevicePlugin, SequenceTheorems, FiniteSetTheorems, TLAPS

PastLabel == {"serve", "register", "watch", "blind"} \union Watching

Labelled ==
  /\ pc \in {"label"} \union PastLabel => Detect(hw) # Unknown
  /\ pc \in PastLabel => label = Detect(hw)
  /\ reg => pc \in PastLabel

(* The k-th entry of a file from its end.                                  *)
FromEnd(h, k) == IF k <= Len(h) THEN h[Len(h) + 1 - k] ELSE Hour
FileAgrees == \A k \in 1..HourLimit : last[k] = FromEnd(history, k)

InOrder(h) == \A i, j \in 1..Len(h) : i <= j => h[i] >= h[j]
Ordered == InOrder(history)

Inv == TypeOK /\ Labelled /\ FileAgrees /\ Ordered

-----------------------------------------------------------------------------
(* What the watchdog does with its file.                                   *)

LEMMA LaterType ==
  /\ \A age \in 0..Hour : /\ Later(age) \in 0..Hour /\ age + 1 >= Later(age)
                          /\ Later(age) >= 1
  /\ \A a, b \in 0..Hour : a >= b => Later(a) >= Later(b)
  /\ Later(Hour) = Hour /\ Hour \in Nat /\ Hour >= 1
BY ConstantsAssumption DEF Later

LEMMA AgedType ==
  ASSUME Inv
  PROVE  /\ Aged \in Seq(0..Hour) /\ Len(Aged) = Len(history) /\ Len(history) \in Nat
         /\ \A i \in 1..Len(history) : Aged[i] = Later(history[i]) /\ Aged[i] \in 0..Hour
         /\ InOrder(Aged)
<1>1. history \in Seq(0..Hour) /\ Len(history) \in Nat /\ DOMAIN history = 1..Len(history)
  BY DEF Inv, TypeOK
<1>2. \A i \in 1..Len(history) : history[i] \in 0..Hour
  BY <1>1, ElementOfSeq
<1>3. Aged = [i \in 1..Len(history) |-> Later(history[i])]
  BY <1>1 DEF Aged
<1>4. /\ Aged \in Seq(0..Hour) /\ Len(Aged) = Len(history)
      /\ \A i \in 1..Len(history) : Aged[i] = Later(history[i]) /\ Aged[i] \in 0..Hour
  BY <1>1, <1>2, <1>3, LaterType
<1>5. InOrder(Aged)
  <2> SUFFICES ASSUME NEW i \in 1..Len(history), NEW j \in 1..Len(history), i <= j
               PROVE  Aged[i] >= Aged[j]
    BY <1>4 DEF InOrder
  <2>1. history[i] >= history[j]
    BY DEF Inv, Ordered, InOrder
  <2> QED
    BY <2>1, <1>2, <1>4, LaterType
<1> QED
  BY <1>1, <1>4, <1>5

(* The restarts of the history, a timer run later.                         *)
LEMMA OlderType ==
  ASSUME Inv
  PROVE  /\ Older \in [1..HourLimit -> 0..Hour]
         /\ \A k \in 1..HourLimit : Older[k] = Later(last[k]) /\ last[k] \in 0..Hour
BY LaterType DEF Inv, TypeOK, Older

(* Entries grow older in step with the restarts.                           *)
LEMMA AgedFile ==
  ASSUME Inv
  PROVE  \A k \in 1..HourLimit : Older[k] = FromEnd(Aged, k)
<1> SUFFICES ASSUME NEW k \in 1..HourLimit PROVE Older[k] = FromEnd(Aged, k)
  OBVIOUS
<1>1. k \in Nat /\ k >= 1
  BY ConstantsAssumption
<1>2. last[k] = FromEnd(history, k) /\ Older[k] = Later(last[k])
  BY OlderType DEF Inv, FileAgrees
<1>3. CASE k <= Len(history)
  <2>1. Len(history) + 1 - k \in 1..Len(history)
    BY <1>1, <1>3, AgedType
  <2> QED
    BY <1>2, <1>3, <2>1, AgedType DEF FromEnd
<1>4. CASE ~(k <= Len(history))
  BY <1>2, <1>4, AgedType, LaterType DEF FromEnd
<1> QED
  BY <1>3, <1>4

(* What has expired is the beginning of the file.                          *)
LEMMA ExpiredFirst ==
  ASSUME Inv
  PROVE  /\ Expired \in 0..Len(history)
         /\ \A i \in 1..Len(history) : Aged[i] = Hour <=> i <= Expired
<1> DEFINE n == Len(history)
           Old == {i \in 1..n : Aged[i] = Hour}
           c == Cardinality(Old)
<1>1. n \in Nat /\ DOMAIN history = 1..n /\ Expired = c
  <2>1. n \in Nat /\ DOMAIN history = 1..n
    BY DEF Inv, TypeOK
  <2>2. {i \in DOMAIN history : Aged[i] = Hour} = Old
    BY <2>1
  <2> QED
    BY <2>1, <2>2 DEF Expired
<1>2. \A m \in 0..n : IsFiniteSet(1..m) /\ Cardinality(1..m) = m
  <2> SUFFICES ASSUME NEW m \in 0..n PROVE IsFiniteSet(1..m) /\ Cardinality(1..m) = m
    OBVIOUS
  <2>1. 1 \in Int /\ m \in Int /\ m \in Nat
    BY <1>1
  <2>2. IsFiniteSet(1..m) /\ Cardinality(1..m) = IF 1 > m THEN 0 ELSE m - 1 + 1
    BY <2>1, FS_Interval, Zenon
  <2> QED
    BY <2>1, <2>2
<1>3. IsFiniteSet(Old) /\ c \in Nat /\ c <= n
  <2>1. Old \in SUBSET (1..n) /\ n \in 0..n
    BY <1>1
  <2>2. IsFiniteSet(Old) /\ c <= Cardinality(1..n)
    BY <2>1, <1>2, FS_Subset
  <2>3. Cardinality(1..n) = n
    BY <2>1, <1>2
  <2> QED
    BY <2>2, <2>3, FS_CardinalityType
<1>4. ASSUME NEW i \in Old, NEW j \in 1..n, j <= i PROVE j \in Old
  <2>1. Aged[j] >= Aged[i] /\ Aged[i] = Hour /\ Aged[j] \in 0..Hour
    BY <1>1, <1>4, AgedType DEF InOrder
  <2> QED
    BY <2>1, LaterType
<1>5. \A m \in 0..n : 1..m \subseteq Old => m <= c
  <2> SUFFICES ASSUME NEW m \in 0..n, 1..m \in SUBSET Old PROVE m <= c
    OBVIOUS
  <2>1. Cardinality(1..m) <= c
    BY <1>3, FS_Subset
  <2> QED
    BY <2>1, <1>2
<1>6. \A m \in 0..n : Old \subseteq 1..m => c <= m
  <2> SUFFICES ASSUME NEW m \in 0..n, Old \in SUBSET (1..m) PROVE c <= m
    OBVIOUS
  <2>1. c <= Cardinality(1..m)
    BY <1>2, FS_Subset
  <2> QED
    BY <2>1, <1>2
<1> HIDE DEF c, Old
<1>7. ASSUME NEW i \in 1..n, i \in Old PROVE i <= c
  <2>1. i \in 0..n /\ 1..i \subseteq 1..n
    BY <1>1
  <2>2. 1..i \subseteq Old
    BY <2>1, <1>1, <1>4, <1>7
  <2> QED
    BY <2>1, <2>2, <1>5
<1>8. ASSUME NEW i \in 1..n, i \notin Old PROVE ~(i <= c)
  <2>1. Old \subseteq 1..(i - 1)
    <3> SUFFICES ASSUME NEW j \in Old, ~(j \in 1..(i - 1)) PROVE FALSE
      OBVIOUS
    <3>1. j \in 1..n
      BY DEF Old
    <3>2. i <= j
      BY <3>1, <1>1
    <3> QED
      BY <3>2, <1>4, <1>8
  <2>2. i - 1 \in 0..n
    BY <1>1
  <2>3. c <= i - 1
    BY <2>1, <2>2, <1>6
  <2> QED
    BY <2>3, <1>1, <1>3
<1> QED
  BY <1>1, <1>3, <1>7, <1>8 DEF Old

(* Pruning keeps all restarts of the last hour, in their places from the   *)
(* end.                                                                    *)
LEMMA PrunedFile ==
  ASSUME Inv
  PROVE  /\ InLastHour \in Seq(0..Hour) /\ InOrder(InLastHour)
         /\ \A k \in 1..HourLimit : Older[k] = FromEnd(InLastHour, k)
<1> DEFINE n == Len(history)
           e == Expired
<1>1. /\ n \in Nat /\ e \in Nat /\ e <= n
      /\ \A i \in 1..n : Aged[i] = Hour <=> i <= e
  BY ExpiredFirst, AgedType
<1>2. /\ Aged \in Seq(0..Hour) /\ Len(Aged) = n /\ InOrder(Aged)
      /\ \A i \in 1..n : Aged[i] \in 0..Hour
  BY AgedType
<1>3. InLastHour = SubSeq(Aged, e + 1, n)
  BY <1>2 DEF InLastHour
<1> HIDE DEF n, e
<1>4. /\ InLastHour \in Seq(0..Hour) /\ Len(InLastHour) = n - e
      /\ \A i \in 1..(n - e) : InLastHour[i] = Aged[e + i]
  <2>1. e + 1 \in Int /\ n \in Int /\ \A i \in (e + 1)..n : Aged[i] \in 0..Hour
    BY <1>1, <1>2
  <2>2. /\ SubSeq(Aged, e + 1, n) \in Seq(0..Hour)
        /\ Len(SubSeq(Aged, e + 1, n)) = IF e + 1 <= n THEN n - (e + 1) + 1 ELSE 0
        /\ \A i \in 1..(n - (e + 1) + 1) : SubSeq(Aged, e + 1, n)[i] = Aged[(e + 1) + i - 1]
    BY <2>1, SubSeqProperties
  <2>3. /\ n - (e + 1) + 1 = n - e /\ (~(e + 1 <= n) => n - e = 0)
        /\ \A i \in 1..(n - e) : (e + 1) + i - 1 = e + i
    BY <1>1
  <2> QED
    BY <1>3, <2>2, <2>3
<1>5. InOrder(InLastHour)
  <2> SUFFICES ASSUME NEW i \in 1..(n - e), NEW j \in 1..(n - e), i <= j
               PROVE  InLastHour[i] >= InLastHour[j]
    BY <1>4 DEF InOrder
  <2>1. e + i \in 1..n /\ e + j \in 1..n /\ e + i <= e + j
    BY <1>1
  <2> QED
    BY <2>1, <1>2, <1>4 DEF InOrder
<1>6. ASSUME NEW k \in 1..HourLimit PROVE FromEnd(Aged, k) = FromEnd(InLastHour, k)
  <2>1. k \in Nat /\ k >= 1
    BY ConstantsAssumption
  <2>2. CASE k <= n - e
    <3>1. (n - e) + 1 - k \in 1..(n - e) /\ e + ((n - e) + 1 - k) = n + 1 - k /\ k <= n
      BY <2>1, <2>2, <1>1
    <3> QED
      BY <2>2, <3>1, <1>2, <1>4 DEF FromEnd
  <2>3. CASE ~(k <= n - e) /\ k <= n
    <3>1. n + 1 - k \in 1..n /\ n + 1 - k <= e
      BY <2>1, <2>3, <1>1
    <3> QED
      BY <2>3, <3>1, <1>1, <1>2, <1>4 DEF FromEnd
  <2>4. CASE ~(k <= n)
    <3>1. ~(k <= n - e)
      BY <2>1, <2>4, <1>1
    <3> QED
      BY <2>4, <3>1, <1>2, <1>4 DEF FromEnd
  <2> QED
    BY <2>2, <2>3, <2>4
<1> QED
  BY <1>4, <1>5, <1>6, AgedFile

(* A restart is the new last entry, and all others move up.                *)
LEMMA AppendedFile ==
  ASSUME NEW h \in Seq(0..Hour), InOrder(h)
  PROVE  /\ Append(h, 0) \in Seq(0..Hour) /\ InOrder(Append(h, 0))
         /\ FromEnd(Append(h, 0), 1) = 0
         /\ \A k \in Nat \ {0, 1} : FromEnd(Append(h, 0), k) = FromEnd(h, k - 1)
<1> DEFINE m == Append(h, 0)
           n == Len(h)
<1>1. Hour \in Nat /\ 0 \in 0..Hour /\ n \in Nat
  BY LaterType
<1>2. /\ m \in Seq(0..Hour) /\ Len(m) = n + 1 /\ m[n + 1] = 0
      /\ \A i \in 1..n : m[i] = h[i]
  BY <1>1, AppendProperties
<1>3. \A i \in 1..n : h[i] \in 0..Hour
  BY ElementOfSeq
<1> HIDE DEF m, n
<1>4. InOrder(m)
  <2> SUFFICES ASSUME NEW i \in 1..(n + 1), NEW j \in 1..(n + 1), i <= j
               PROVE  m[i] >= m[j]
    BY <1>2 DEF InOrder
  <2>1. CASE j = n + 1
    <3>1. m[i] \in 0..Hour
      BY <1>2, ElementOfSeq
    <3> QED
      BY <2>1, <3>1, <1>2, <1>1
  <2>2. CASE j # n + 1
    <3>1. i \in 1..n /\ j \in 1..n
      BY <2>2, <1>1
    <3> QED
      BY <3>1, <1>2 DEF InOrder, n
  <2> QED
    BY <2>1, <2>2
<1>5. FromEnd(m, 1) = 0
  <2>1. 1 <= n + 1 /\ (n + 1) + 1 - 1 = n + 1
    BY <1>1
  <2> QED
    BY <2>1, <1>2 DEF FromEnd
<1>6. ASSUME NEW k \in Nat \ {0, 1} PROVE FromEnd(m, k) = FromEnd(h, k - 1)
  <2>1. CASE k <= n + 1
    <3>1. k - 1 <= n /\ (n + 1) + 1 - k \in 1..n /\ n + 1 - (k - 1) = (n + 1) + 1 - k
      BY <2>1, <1>1
    <3> QED
      BY <2>1, <3>1, <1>2 DEF FromEnd, n
  <2>2. CASE ~(k <= n + 1)
    <3>1. ~(k - 1 <= n)
      BY <2>2, <1>1
    <3> QED
      BY <2>2, <3>1, <1>2 DEF FromEnd, n
  <2> QED
    BY <2>1, <2>2
<1> QED
  BY <1>2, <1>4, <1>5, <1>6 DEF m

-----------------------------------------------------------------------------
LEMMA InitInv == Init => Inv
<1> SUFFICES ASSUME Init PROVE Inv
  OBVIOUS
<1>1. TypeOK
  <2>1. hw \in Hardware /\ pc \in PCs /\ label \in Boards \union {"none"}
        /\ kubelet \in {"up", "hung", "down"}
    BY DEF Init, PCs
  <2>2. sock \in BOOLEAN /\ reg \in BOOLEAN /\ missed \in BOOLEAN
    BY DEF Init
  <2>3. events \in 0..MaxEvents /\ fails \in 0..Threshold
        /\ last \in [1..HourLimit -> 0..Hour] /\ faults \in 0..MaxFaults
    BY ConstantsAssumption DEF Init
  <2>4. history \in Seq(0..Hour)
    BY EmptySeq DEF Init
  <2> QED
    BY <2>1, <2>2, <2>3, <2>4 DEF TypeOK
<1>2. Labelled
  BY DEF Init, Labelled, PastLabel, Watching
<1>3. history = <<>> /\ Len(history) = 0 /\ last = [k \in 1..HourLimit |-> Hour]
  BY DEF Init
<1>4. FileAgrees /\ Ordered
  BY <1>3, ConstantsAssumption DEF FileAgrees, FromEnd, Ordered, InOrder
<1> QED
  BY <1>1, <1>2, <1>4 DEF Inv

(* The plugin, and the kubelet, leave the watchdog's files alone.          *)
LEMMA PluginInv ==
  ASSUME Inv, PluginStep \/ PluginStops \/ KubeletStarts \/ KubeletStops \/ KubeletHangs
  PROVE  Inv'
<1> USE ConstantsAssumption
<1>1. hw' = hw /\ UNCHANGED watchdog
  BY DEF PluginStep, PodStarts, Detects, LabelNode, Serve, Register, WatchKubelet, Wakes,
         Reserve, Reregister, PluginStops, KubeletStarts, KubeletStops, KubeletHangs
<1>2. FileAgrees' /\ Ordered'
  BY <1>1 DEF Inv, FileAgrees, Ordered, watchdog
<1>3. (fails \in 0..Threshold /\ history \in Seq(0..Hour) /\ last \in [1..HourLimit -> 0..Hour])'
  BY <1>1 DEF Inv, TypeOK, watchdog
<1>4. faults' \in 0..MaxFaults
  <2>1. UNCHANGED faults \/ Fault
    BY DEF PluginStep, PodStarts, Detects, LabelNode, Serve, Register, WatchKubelet,
           Wakes, Reserve, Reregister, PluginStops, KubeletStarts, KubeletStops,
           KubeletHangs, NoFault
  <2> QED
    BY <2>1 DEF Inv, TypeOK, Fault
<1>5. /\ pc \in PCs /\ label \in Boards \union {"none"}
      /\ events \in 0..MaxEvents /\ kubelet \in {"up", "hung", "down"}
      /\ sock \in BOOLEAN /\ reg \in BOOLEAN /\ missed \in BOOLEAN
      /\ Labelled /\ Detect(hw) \in Boards
  BY DEF Inv, TypeOK, Boards
<1>6. (sock \in BOOLEAN /\ reg \in BOOLEAN /\ missed \in BOOLEAN)'
  <2>1. CASE PodStarts
    BY ONLY <2>1, <1>5, Zenon DEF PodStarts, plugin, Goto
  <2>2. CASE Detects
    BY ONLY <2>2, <1>5, Zenon DEF Detects, Exits, plugin, Goto
  <2>3. CASE LabelNode
    BY ONLY <2>3, <1>5, Zenon DEF LabelNode, Exits, plugin, Goto
  <2>4. CASE Serve
    BY ONLY <2>4, <1>5, Zenon DEF Serve, Exits, plugin, Goto
  <2>5. CASE Register
    BY ONLY <2>5, <1>5, Zenon DEF Register, Exits, plugin, Goto
  <2>6. CASE WatchKubelet
    BY ONLY <2>6, <1>5, Zenon DEF WatchKubelet, plugin, Goto
  <2>7. CASE Wakes
    BY ONLY <2>7, <1>5, Zenon DEF Wakes, Woken, plugin, Goto
  <2>8. CASE Reserve
    BY ONLY <2>8, <1>5, Zenon DEF Reserve, RestartServer, plugin, Goto
  <2>9. CASE Reregister
    BY ONLY <2>9, <1>5, Zenon DEF Reregister, plugin, Goto
  <2>10. CASE PluginStops
    BY ONLY <2>10, <1>5, Zenon DEF PluginStops, Exits, plugin, Goto
  <2>11. CASE KubeletStarts
    BY ONLY <2>11, <1>5, Zenon DEF KubeletStarts, plugin, Goto
  <2>12. CASE KubeletStops
    BY ONLY <2>12, <1>5, Zenon DEF KubeletStops, plugin, Goto
  <2>13. CASE KubeletHangs
    BY ONLY <2>13, <1>5, Zenon DEF KubeletHangs, plugin, Goto
  <2> QED
    BY <2>1, <2>2, <2>3, <2>4, <2>5, <2>6, <2>7, <2>8, <2>9, <2>10, <2>11, <2>12, <2>13 DEF PluginStep
<1> DEFINE Rest == /\ (pc \in PCs /\ label \in Boards \union {"none"})'
                   /\ (events \in 0..MaxEvents /\ kubelet \in {"up", "hung", "down"})'
                   /\ Labelled'
<1>7. SUFFICES Rest
  BY <1>1, <1>2, <1>3, <1>4, <1>6 DEF Inv, TypeOK
<1> USE DEF Labelled, PastLabel, PCs, Watching, plugin, Goto
<1>8. CASE PodStarts
  BY <1>8, <1>1, <1>5 DEF PodStarts
<1>9. CASE Detects
  BY <1>9, <1>1, <1>5 DEF Detects, Exits
<1>10. CASE LabelNode
  BY <1>10, <1>1, <1>5 DEF LabelNode, Exits
<1>11. CASE Serve
  BY <1>11, <1>1, <1>5 DEF Serve, Exits
<1>12. CASE Register
  BY <1>12, <1>1, <1>5 DEF Register, Exits
<1>13. CASE WatchKubelet
  BY <1>13, <1>1, <1>5 DEF WatchKubelet
<1>14. CASE Wakes
  BY <1>14, <1>1, <1>5 DEF Wakes, Woken
<1>15. CASE Reserve
  BY <1>15, <1>1, <1>5 DEF Reserve, RestartServer
<1>16. CASE Reregister
  BY <1>16, <1>1, <1>5 DEF Reregister
<1>17. CASE PluginStops
  BY <1>17, <1>1, <1>5 DEF PluginStops, Exits
<1>18. CASE KubeletStarts
  BY <1>18, <1>1, <1>5 DEF KubeletStarts
<1>19. CASE KubeletStops
  BY <1>19, <1>1, <1>5 DEF KubeletStops
<1>20. CASE KubeletHangs
  BY <1>20, <1>1, <1>5 DEF KubeletHangs
<1> QED
  BY <1>8, <1>9, <1>10, <1>11, <1>12, <1>13, <1>14, <1>15, <1>16, <1>17, <1>18, <1>19, <1>20
     DEF PluginStep

(* A run of the watchdog leaves the plugin alone, and the file agrees with *)
(* the restarts after it.                                                  *)
LEMMA ProbeInv ==
  ASSUME Inv, Probe
  PROVE  Inv'
<1> USE ConstantsAssumption
<1>1. TypeOK /\ Labelled
  BY DEF Inv
<1>2. UNCHANGED <<hw, plugin, faults>> /\ kubelet' \in {kubelet, "down"}
      /\ (reg' = reg \/ reg' = FALSE)
  BY DEF Probe, Healthy, CountsFailure, RateLimited, RestartKubelet
<1>3. Labelled'
  BY <1>1, <1>2 DEF Labelled, plugin
<1>4. ASSUME fails' \in 0..Threshold, history' \in Seq(0..Hour),
             last' \in [1..HourLimit -> 0..Hour]
      PROVE  TypeOK'
  BY <1>1, <1>2, <1>4 DEF TypeOK, plugin
<1>5. CASE Healthy \/ CountsFailure
  <2>1. history' = Aged /\ last' = Older /\ fails' \in 0..Threshold
    BY <1>1, <1>5 DEF Healthy, CountsFailure, TypeOK
  <2>2. TypeOK'
    BY <1>4, <2>1, AgedType, OlderType
  <2>3. FileAgrees' /\ Ordered'
    BY <2>1, AgedType, AgedFile DEF FileAgrees, Ordered, FromEnd
  <2> QED
    BY <1>3, <2>2, <2>3 DEF Inv
<1>6. CASE RateLimited
  <2>1. history' = InLastHour /\ last' = Older /\ fails' \in 0..Threshold
    BY <1>6 DEF RateLimited
  <2>2. TypeOK'
    BY <1>4, <2>1, PrunedFile, OlderType
  <2>3. FileAgrees' /\ Ordered'
    BY <2>1, PrunedFile DEF FileAgrees, Ordered, FromEnd
  <2> QED
    BY <1>3, <2>2, <2>3 DEF Inv
<1>7. CASE RestartKubelet
  <2>1. /\ history' = Append(InLastHour, 0) /\ fails' = 0
        /\ last' = [k \in 1..HourLimit |-> IF k = 1 THEN 0 ELSE Older[k - 1]]
    BY <1>1, <1>7 DEF RestartKubelet, TypeOK
  <2>2. \A k \in 1..HourLimit : k # 1 => k - 1 \in 1..HourLimit /\ k \in Nat \ {0, 1}
    OBVIOUS
  <2>3. history' \in Seq(0..Hour) /\ Ordered'
    BY <2>1, PrunedFile, AppendedFile DEF Ordered
  <2>4. last' \in [1..HourLimit -> 0..Hour]
    <3>1. ASSUME NEW k \in 1..HourLimit
          PROVE  (IF k = 1 THEN 0 ELSE Older[k - 1]) \in 0..Hour
      <4>1. CASE k = 1
        BY <4>1, LaterType
      <4>2. CASE k # 1
        <5>1. k - 1 \in 1..HourLimit
          BY <4>2, <2>2
        <5>2. Older[k - 1] = Later(last[k - 1]) /\ last[k - 1] \in 0..Hour
          BY <5>1, OlderType
        <5> QED
          BY <4>2, <5>2, LaterType
      <4> QED
        BY <4>1, <4>2
    <3> QED
      BY <2>1, <3>1
  <2>5. ASSUME NEW k \in 1..HourLimit PROVE last'[k] = FromEnd(Append(InLastHour, 0), k)
    <3>1. CASE k = 1
      BY <3>1, <2>1, PrunedFile, AppendedFile
    <3>2. CASE k # 1
      <4>1. last'[k] = Older[k - 1] /\ k - 1 \in 1..HourLimit /\ k \in Nat \ {0, 1}
        BY <3>2, <2>1, <2>2
      <4>2. Older[k - 1] = FromEnd(InLastHour, k - 1)
        BY <4>1, PrunedFile
      <4> QED
        BY <4>1, <4>2, PrunedFile, AppendedFile
    <3> QED
      BY <3>1, <3>2
  <2>6. FileAgrees'
    BY <2>1, <2>5 DEF FileAgrees, FromEnd
  <2>7. TypeOK'
    BY <1>4, <2>1, <2>3, <2>4
  <2> QED
    BY <1>3, <2>3, <2>6, <2>7 DEF Inv
<1> QED
  BY <1>5, <1>6, <1>7 DEF Probe

(* What the watchdog has asked of its file before a restart.               *)
LEMMA RestartStep ==
  ASSUME Inv, RestartKubelet
  PROVE  last[1] + 1 >= MinInterval /\ Older[HourLimit] = Hour
<1>1. 1 \in 1..HourLimit /\ HourLimit \in 1..HourLimit /\ MinInterval \in Nat
      /\ MinInterval <= Hour /\ HourLimit \in Nat
  BY ConstantsAssumption
<1>2. /\ InLastHour \in Seq(0..Hour) /\ Len(InLastHour) \in Nat
      /\ InLastHour = <<>> <=> Len(InLastHour) = 0
      /\ \A k \in 1..HourLimit : Older[k] = FromEnd(InLastHour, k)
  BY PrunedFile
<1>3. ~TooSoon(InLastHour) /\ Len(InLastHour) < HourLimit
  BY DEF RestartKubelet
<1>4. Older[HourLimit] = Hour
  BY <1>1, <1>2, <1>3 DEF FromEnd
<1>5. Older[1] >= MinInterval
  <2>1. CASE InLastHour = <<>>
    BY <2>1, <1>1, <1>2, LaterType DEF FromEnd
  <2>2. CASE InLastHour # <<>>
    <3>0. Len(InLastHour) \in 1..Len(InLastHour)
      BY <2>2, <1>2
    <3>1. InLastHour[Len(InLastHour)] \in 0..Hour
      BY <3>0, <1>2, ElementOfSeq
    <3>2. InLastHour[Len(InLastHour)] >= MinInterval
      BY <2>2, <3>1, <1>1, <1>3 DEF TooSoon
    <3>3. 1 <= Len(InLastHour) /\ Len(InLastHour) + 1 - 1 = Len(InLastHour)
      BY <2>2, <1>2
    <3> QED
      BY <3>2, <3>3, <1>1, <1>2 DEF FromEnd
  <2> QED
    BY <2>1, <2>2
<1>6. Older[1] = Later(last[1]) /\ last[1] \in 0..Hour /\ last[1] + 1 >= Later(last[1])
      /\ Later(last[1]) \in 0..Hour
  BY <1>1, OlderType, LaterType
<1> QED
  BY <1>1, <1>4, <1>5, <1>6, LaterType

LEMMA StepInv == Inv /\ [Next]_vars => Inv'
<1> SUFFICES ASSUME Inv, [Next]_vars PROVE Inv'
  OBVIOUS
<1>1. CASE UNCHANGED vars
  <2>1. UNCHANGED <<hw, pc, label, sock, events, missed, kubelet, reg, fails, history,
                    last, faults>>
    BY <1>1 DEF vars, plugin, watchdog
  <2>2. TypeOK'
    BY <2>1 DEF Inv, TypeOK
  <2>3. Labelled' /\ FileAgrees' /\ Ordered'
    BY <2>1 DEF Inv, Labelled, FileAgrees, Ordered
  <2> QED
    BY <2>2, <2>3 DEF Inv
<1>2. CASE Next
  BY <1>2, PluginInv, ProbeInv DEF Next
<1> QED
  BY <1>1, <1>2

-----------------------------------------------------------------------------
THEOREM Invariant == Spec => []Inv
BY InitInv, StepInv, PTL DEF Spec

(* Every variable keeps its type.                                          *)
THEOREM TypeCorrect == Spec => []TypeOK
<1>1. Inv => TypeOK
  BY DEF Inv
<1> QED
  BY <1>1, Invariant, PTL

(* What Detect takes for another board is known only by its device tree,   *)
(* which has an entry that starts like that board's.                       *)
LEMMA DetectMeans ==
  ASSUME NEW h \in Hardware, Detect(h) # Unknown, Detect(h) # h.board
  PROVE  /\ h.probe \notin DOMAIN socs
         /\ \E i \in DOMAIN deviceTrees :
               deviceTrees[i].board = Detect(h) /\ Matches(i, h.compatible)
<1>1. h.probe \notin DOMAIN socs
  BY TriplesAssumption DEF Detect
<1> DEFINE first == {i \in DOMAIN deviceTrees :
                       /\ Matches(i, h.compatible)
                       /\ \A j \in 1..(i - 1) : ~Matches(j, h.compatible)}
           found == CHOOSE i \in first : TRUE
<1>2. Detect(h) = IF first = {} THEN Unknown ELSE deviceTrees[found].board
  BY <1>1 DEF Detect, FromDeviceTree
<1>3. found \in first
  BY <1>2
<1> QED
  BY <1>1, <1>2, <1>3

(* A slot is offered under a wrong label only where detection goes by the  *)
(* start of a device tree's entry, for any hardware whose triples are its  *)
(* own, through any restart of the plugin and of the kubelet, and whatever *)
(* label the node had.                                                     *)
THEOREM MislabelledOnlyThere == Spec => []MislabelledByEntryOnly
<1>1. Inv => MislabelledByEntryOnly
  <2> SUFFICES ASSUME Inv, reg, label # hw.board
               PROVE  /\ hw.probe \notin DOMAIN socs
                      /\ \E i \in DOMAIN deviceTrees :
                            deviceTrees[i].board = label /\ Matches(i, hw.compatible)
    BY DEF MislabelledByEntryOnly
  <2>1. hw \in Hardware /\ label = Detect(hw) /\ Detect(hw) # Unknown
    BY DEF Inv, TypeOK, Labelled, PastLabel, Watching
  <2> QED
    BY <2>1, DetectMeans
<1> QED
  BY <1>1, Invariant, PTL

(* However the kubelet fails, its restarts by the watchdog are at least    *)
(* MIN_INTERVAL apart, and at most HOUR_LIMIT in any hour.                 *)
THEOREM RestartsAreSpaced == Spec => RestartsSpaced
<1>1. Inv /\ [Next]_vars =>
        [RestartKubelet => /\ last[1] + 1 >= MinInterval
                           /\ Older[HourLimit] = Hour]_vars
  BY RestartStep
<1> QED
  BY <1>1, Invariant, PTL DEF Spec, RestartsSpaced

=============================================================================
