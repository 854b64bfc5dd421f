---------------------------- MODULE DevicePlugin ----------------------------
(***************************************************************************)
(* What makes a node offer its one riseproject.com/runner: the device      *)
(* plugin (main, SoC detection, labeler, plugin) and kubelet-watchdog,     *)
(* around a kubelet that stops, hangs and starts again.                    *)
(*                                                                         *)
(* A kubelet that starts empties its device-plugins directory, knows no    *)
(* plugin, and creates its own socket; the plugin watches for that file    *)
(* and registers again.  Asked to register, a kubelet dials the plugin's   *)
(* socket before it answers.  DaemonSet pods are restarted by the kubelet. *)
(*                                                                         *)
(* Time is counted in runs of the watchdog's timer.  A fault of a kind in  *)
(* FaultKinds may happen at any time, MaxFaults in all.                    *)
(***************************************************************************)
EXTENDS Naturals, Sequences, FiniteSets, SequencesExt

CONSTANTS
  Hardware,      \* what a node may be: [probe, compatible, board]
  Threshold,     \* THRESHOLD: failed probes in a row before a restart
  MinInterval,   \* MIN_INTERVAL, in timer runs
  HourLimit,     \* HOUR_LIMIT
  Hour,          \* an hour, in timer runs
  MaxEvents,     \* bound: unread creations of kubelet.sock (more repeat it)
  MaxFaults      \* bound: number of faults

ASSUME ConstantsAssumption ==
  /\ Threshold \in Nat \ {0} /\ MinInterval \in Nat \ {0}
  /\ HourLimit \in Nat \ {0} /\ Hour \in Nat /\ MinInterval <= Hour
  /\ MaxEvents \in Nat \ {0} /\ MaxFaults \in Nat

VARIABLES
  hw,        \* the node's hardware
  pc,        \* the plugin process
  label,     \* the node's label riseproject.dev/board
  sock,      \* the plugin's socket file leads to its running server
  events,    \* creations of kubelet.sock its watcher has not yet delivered
  kubelet,   \* "up", "hung" or "down"
  reg,       \* the kubelet has the plugin registered and offers the slot
  missed,    \* history: nothing will tell the plugin to register again
  fails,     \* the watchdog's STATE
  history,   \* its HISTORY: the ages of its restarts, oldest first
  last,      \* history: last[k] is the timer runs since its k-th last restart
  faults

plugin   == <<pc, label, sock, events, missed>>
watchdog == <<fails, history, last>>
vars     == <<hw, plugin, kubelet, reg, watchdog, faults>>

Unknown == "unknown"

(* socs: the boards of the triples riscv_hwprobe returns.                  *)
socs == [K1 |-> "spacemit-k1", K3 |-> "spacemit-k3", V100 |-> "spacemit-v100",
         DP1000 |-> "ultrarisc-dp-1000"]

(* The boards known by an entry of the device tree's "compatible", in the  *)
(* order they are tried, for a kernel without the system call or a triple  *)
(* that is not listed.  It is enough that an entry starts like the board's *)
(* (HasPrefix): an entry is a sequence of pieces here.                     *)
deviceTrees == <<[board |-> "scaleway-em-rv1", entry |-> "scaleway,em-rv1"],
                 [board |-> "spacemit-k3", entry |-> "spacemit,k3"],
                 [board |-> "zhihe-a210", entry |-> "zhihe,a210"]>>

Matches(i, compatible) == \E e \in compatible : IsPrefix(<<deviceTrees[i].entry>>, e)

FromDeviceTree(compatible) ==
  LET first == {i \in DOMAIN deviceTrees :
                  Matches(i, compatible) /\ \A j \in 1..(i - 1) : ~Matches(j, compatible)}
  IN IF first = {} THEN Unknown ELSE deviceTrees[CHOOSE i \in first : TRUE].board

(* Mutant: hardware that is not recognized is taken for the usual board.   *)
DetectAnything(h) ==
  IF h.probe \in DOMAIN socs THEN socs[h.probe] ELSE "scaleway-em-rv1"
Detect(h) ==
  IF h.probe \in DOMAIN socs THEN socs[h.probe] ELSE FromDeviceTree(h.compatible)

(* A triple identifies the hardware it is read from.                       *)
ASSUME TriplesAssumption ==
  \A h \in Hardware : h.probe \in DOMAIN socs => socs[h.probe] = h.board

Boards == {Detect(h) : h \in Hardware}
Watching == {"watching", "woken", "reregister"}    \* the watcher is set
PCs == {"down", "start", "label", "serve", "register", "watch", "blind"} \union Watching

TypeOK ==
  /\ hw \in Hardware
  /\ pc \in PCs
  /\ label \in Boards \union {"none"}
  /\ sock \in BOOLEAN /\ reg \in BOOLEAN /\ missed \in BOOLEAN
  /\ events \in 0..MaxEvents
  /\ kubelet \in {"up", "hung", "down"}
  /\ fails \in 0..Threshold
  /\ history \in Seq(0..Hour)
  /\ last \in [1..HourLimit -> 0..Hour]
  /\ faults \in 0..MaxFaults

(* The node may have the label of an earlier life or release.              *)
Init ==
  /\ hw \in Hardware
  /\ label \in Boards \union {"none"}
  /\ pc = "down" /\ sock = FALSE /\ events = 0
  /\ kubelet = "up" /\ reg = FALSE /\ missed = FALSE
  /\ fails = 0 /\ history = <<>> /\ last = [k \in 1..HourLimit |-> Hour]
  /\ faults = 0

Fault == faults < MaxFaults /\ faults' = faults + 1
NoFault == UNCHANGED faults

-----------------------------------------------------------------------------
(* The plugin's process: main, then the goroutine watchKubelet.            *)

Goto(next) == pc' = next /\ UNCHANGED <<label, sock, events, missed>>

(* klog.Fatal, a signal or a crash: the server and its streams are gone.   *)
Exits ==
  /\ pc' = "down" /\ sock' = FALSE /\ events' = 0 /\ missed' = FALSE /\ reg' = FALSE
  /\ UNCHANGED label

PodStarts ==
  /\ pc = "down" /\ kubelet = "up"
  /\ Goto("start")
  /\ UNCHANGED <<hw, kubelet, reg, watchdog, faults>>

Detects ==
  /\ pc = "start"
  /\ IF Detect(hw) = Unknown THEN Exits ELSE Goto("label") /\ UNCHANGED reg
  /\ UNCHANGED <<hw, kubelet, watchdog, faults>>

LabelNode ==
  /\ pc = "label"
  /\ \/ /\ NoFault /\ pc' = "serve" /\ label' = Detect(hw)
        /\ UNCHANGED <<sock, events, missed, reg>>
     \/ Fault /\ Exits
  /\ UNCHANGED <<hw, kubelet, watchdog>>

(* Start: serve, register, and only then watch.                            *)
Serve ==
  /\ pc = "serve"
  /\ \/ /\ NoFault /\ pc' = "register" /\ sock' = TRUE
        /\ UNCHANGED <<label, events, missed, reg>>
     \/ Fault /\ Exits
  /\ UNCHANGED <<hw, kubelet, watchdog>>

Reachable == kubelet = "up" /\ sock

Register ==
  /\ pc = "register"
  /\ \/ NoFault /\ Reachable /\ reg' = TRUE /\ Goto("watch")
     \/ NoFault /\ ~Reachable /\ Exits
     \/ Fault /\ Exits
  /\ UNCHANGED <<hw, kubelet, watchdog>>

WatchKubelet ==
  /\ pc = "watch"
  /\ \/ NoFault /\ Goto("watching")
     \/ Fault /\ Goto("blind")
  /\ UNCHANGED <<hw, kubelet, reg, watchdog>>

(* An event: sleep for a second.                                           *)
Woken ==
  /\ pc = "watching" /\ events > 0
  /\ pc' = "woken" /\ events' = events - 1
  /\ UNCHANGED <<label, sock, missed>>

Wakes == Woken /\ UNCHANGED <<hw, kubelet, reg, watchdog, faults>>

(* Stop the server, which ends its streams, and serve on a new socket.     *)
(* Mutant: the server, whose socket file is gone, is kept.                 *)
RestartServerNot == pc' = "reregister" /\ UNCHANGED <<label, sock, events, missed, reg>>
RestartServer ==
  /\ pc' = "reregister" /\ sock' = TRUE /\ reg' = FALSE
  /\ UNCHANGED <<label, events, missed>>

Reserve ==
  /\ pc = "woken"
  /\ \/ NoFault /\ RestartServer
     \/ /\ Fault /\ pc' = "watching" /\ sock' = FALSE /\ reg' = FALSE
        /\ missed' = (events = 0)
        /\ UNCHANGED <<label, events>>
  /\ UNCHANGED <<hw, kubelet, watchdog>>

(* An error is logged.  The next creation of the socket is another chance; *)
(* with a kubelet that is well and no event left there will be none.       *)
Reregister ==
  /\ pc = "reregister"
  /\ pc' = "watching"
  /\ \/ NoFault /\ Reachable /\ reg' = TRUE /\ missed' = FALSE
     \/ NoFault /\ ~Reachable /\ UNCHANGED <<reg, missed>>
     \/ Fault /\ UNCHANGED reg /\ missed' = (kubelet = "up" /\ events = 0)
  /\ UNCHANGED <<hw, label, sock, events, kubelet, watchdog>>

(* The process is killed, or the DaemonSet is rolled out.                  *)
PluginStops ==
  /\ pc # "down" /\ Fault /\ Exits
  /\ UNCHANGED <<hw, kubelet, watchdog>>

PluginStep ==
  \/ PodStarts \/ Detects \/ LabelNode \/ Serve \/ Register \/ WatchKubelet
  \/ Wakes \/ Reserve \/ Reregister

-----------------------------------------------------------------------------
(* The kubelet.                                                            *)

KubeletStarts ==
  /\ kubelet = "down"
  /\ kubelet' = "up" /\ sock' = FALSE
  /\ events' = IF pc \in Watching /\ events < MaxEvents THEN events + 1 ELSE events
  /\ missed' = (missed \/ pc \in {"watch", "blind"})
  /\ UNCHANGED <<hw, pc, label, reg, watchdog, faults>>

KubeletStops ==
  /\ kubelet # "down" /\ Fault
  /\ kubelet' = "down" /\ reg' = FALSE
  /\ UNCHANGED <<hw, plugin, watchdog>>

KubeletHangs ==
  /\ kubelet = "up" /\ Fault
  /\ kubelet' = "hung"
  /\ UNCHANGED <<hw, plugin, reg, watchdog>>

-----------------------------------------------------------------------------
(* kubelet-watchdog, run by its timer.                                     *)

Later(age) == IF age < Hour THEN age + 1 ELSE Hour
Aged == [i \in DOMAIN history |-> Later(history[i])]
Older == [k \in DOMAIN last |-> Later(last[k])]

(* awk: the restarts of the last hour, which are the last in the file.     *)
Expired == Cardinality({i \in DOMAIN history : Aged[i] = Hour})
InLastHour == SubSeq(Aged, Expired + 1, Len(Aged))

(* tail -1; mutant: head -1.                                               *)
TooSoonFirst(h) == h # <<>> /\ h[1] < MinInterval
TooSoon(h) == h # <<>> /\ h[Len(h)] < MinInterval

Healthy ==
  /\ kubelet = "up"
  /\ fails' = 0 /\ history' = Aged /\ last' = Older
  /\ UNCHANGED <<hw, plugin, kubelet, reg, faults>>

CountsFailure ==
  /\ kubelet # "up" /\ fails + 1 < Threshold
  /\ fails' = fails + 1 /\ history' = Aged /\ last' = Older
  /\ UNCHANGED <<hw, plugin, kubelet, reg, faults>>

RateLimited ==
  /\ kubelet # "up" /\ fails + 1 >= Threshold
  /\ TooSoon(InLastHour) \/ Len(InLastHour) >= HourLimit
  /\ fails' = Threshold /\ history' = InLastHour /\ last' = Older
  /\ UNCHANGED <<hw, plugin, kubelet, reg, faults>>

(* Exit 1, and ExecStopPost restarts the kubelet.                          *)
RestartKubelet ==
  /\ kubelet # "up" /\ fails + 1 >= Threshold
  /\ ~TooSoon(InLastHour) /\ Len(InLastHour) < HourLimit
  /\ fails' = 0 /\ history' = Append(InLastHour, 0)
  /\ last' = [k \in DOMAIN last |-> IF k = 1 THEN 0 ELSE Older[k - 1]]
  /\ kubelet' = "down" /\ reg' = FALSE
  /\ UNCHANGED <<hw, plugin, faults>>

Probe == Healthy \/ CountsFailure \/ RateLimited \/ RestartKubelet

-----------------------------------------------------------------------------
Next == PluginStep \/ PluginStops \/ KubeletStarts \/ KubeletStops \/ KubeletHangs \/ Probe

Spec == Init /\ [][Next]_vars

(* The plugin and its pod go on, systemd starts the kubelet, the timer     *)
(* fires.  Only the watchdog ends a hang.                                  *)
FairSpec == Spec /\ WF_vars(PluginStep) /\ WF_vars(KubeletStarts) /\ WF_vars(Probe)

-----------------------------------------------------------------------------
(* Properties.                                                             *)

(* Whatever label the node had before and however the plugin is restarted, *)
(* hardware with a listed triple is offered as what it is, and any other   *)
(* under another board's label only if its device tree has an entry that   *)
(* starts like that board's; all else "fails loudly".                      *)
MislabelledByEntryOnly ==
  reg /\ label # hw.board =>
    /\ hw.probe \notin DOMAIN socs
    /\ \E i \in DOMAIN deviceTrees :
          deviceTrees[i].board = label /\ Matches(i, hw.compatible)

(* A node of a known board that does not offer its slot will, however      *)
(* stops, hangs and starts of the kubelet fall in with the plugin's steps, *)
(* unless the plugin has missed a start: one between register and the      *)
(* watcher, or one it answered with a call that failed.                    *)
SlotComesBack == (~reg /\ Detect(hw) # Unknown) ~> (reg \/ missed)

(* The watchdog's restarts are MIN_INTERVAL apart, and no more than        *)
(* HOUR_LIMIT in an hour, though it finds them in a file that it prunes.   *)
RestartsSpaced ==
  [][RestartKubelet => /\ last[1] + 1 >= MinInterval
                       /\ Older[HourLimit] = Hour]_vars

=============================================================================
