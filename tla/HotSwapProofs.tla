---------------------------- MODULE HotSwapProofs ----------------------------
(***************************************************************************)
(* What main() may have taken from the controller, in every order of       *)
(* cables, uevents, commands, failures and restarts, and that Bluetooth    *)
(* and the cable hand the driver over without losing it: the invariants of *)
(* HotSwap, for every set of commands and faults and any number of events. *)
(***************************************************************************)
EXTENDS HotSwap, TLAPS

\* A connection that is lost is still one.  Without this a scan could claim an
\* interface for a connection that is already marked as lost.
LostIsConnected == lost => phy # "none"

\* A stopped daemon holds no connection.  Without this a start could meet one
\* whose format it has just forgotten.
StoppedIsIdle == ~running => phy = "none"

Safe == NoNodeLeftHidden /\ FormatMatchesLink /\ HandsOff /\ LostIsConnected /\ StoppedIsIdle

IInv == TypeOK /\ Safe

-----------------------------------------------------------------------------
(* Types *)

\* A uevent is of a link or a stale one.
LEMMA AddedIsTyped ==
  ASSUME TypeOK, NEW bus \in Buses
  PROVE  Added(bus) \in Seq({"usb", "bt", "stale"})
  BY DEF TypeOK, Added, Buses

\* A bind leaves a driver or none.
LEMMA BindIsTyped ==
  ASSUME NEW d \in [Buses -> {"absent", "bound", "refused", "unbound", "claimed"}],
         NEW bus \in Buses
  PROVE  /\ Bind(d, bus) \in [Buses -> {"absent", "bound", "refused", "unbound", "claimed"}]
         /\ \A b \in Buses : Bind(d, bus)[b] \in {d[b], "bound"}
         /\ d["usb"] # "claimed" => Bind(d, bus)["usb"] # "claimed"
         /\ d["usb"] = "claimed" => Bind(d, bus)["usb"] = "claimed"
  BY DEF Bind, Buses

\* Giving the controller back leaves nothing claimed but what was lost.
LEMMA ReleasedIsTyped ==
  ASSUME TypeOK
  PROVE  /\ Released(dev) \in [Buses -> {"absent", "bound", "refused", "unbound", "claimed"}]
         /\ HandsOff => Released(dev)["usb"] # "claimed"
  BY DEF TypeOK, Released, Probed, HandsOff, Buses

\* What a restore may lead to.
LEMMA RestoredIsTyped ==
  ASSUME NEW d \in [Buses -> {"absent", "bound", "refused", "unbound", "claimed"}]
  PROVE  /\ Restored(d) \in [Buses -> {"absent", "bound", "refused", "unbound", "claimed"}]
         /\ d["usb"] # "claimed" => Restored(d)["usb"] # "claimed"
<1>1. "bt" \in Buses
  BY DEF Buses
<1> QED BY <1>1, BindIsTyped DEF Restored

\* The nodes a scan finds belong to one of the links.
LEMMA CandidatesAreTyped ==
  ASSUME TypeOK
  PROVE  /\ find_physical_ds4 \in Buses \cup {"none"}
         /\ Candidates \subseteq Buses \cup {"stale"}
         /\ Candidates # {} => hides
  BY DEF TypeOK, find_physical_ds4, Candidates, scans_bus, hid_bus_scan_existing, Bound, Buses

-----------------------------------------------------------------------------
(* One lemma for each group of actions. *)

\* Nothing is hidden before the daemon starts.
LEMMA InitEstablishesIInv == Init => IInv
<1> SUFFICES ASSUME Init PROVE IInv
  OBVIOUS
<1>1. budget \in 0 .. MaxEvents
  BY HotSwapAssumption DEF Init
<1>2. uevents \in Seq({"usb", "bt", "stale"})
  BY DEF Init
<1>3. TypeOK
  BY <1>1, <1>2 DEF Init, TypeOK, Buses
<1>4. Safe
  BY DEF Init, Safe, NoNodeLeftHidden, FormatMatchesLink, HandsOff, LostIsConnected, StoppedIsIdle, Buses
<1> QED BY <1>3, <1>4 DEF IInv

\* Without a connection nothing is hidden or claimed, so a scan starts clean.
LEMMA ScanPreserves == IInv /\ scan => IInv'
<1> SUFFICES ASSUME IInv, scan PROVE IInv'
  OBVIOUS
<1>1. /\ phy = "none" /\ hidden = {} /\ via \in {"hidraw", "libusb", "bpf"} /\ ~lost
      /\ dev["usb"] # "claimed" /\ running /\ (~hides => via = "hidraw")
  BY DEF IInv, TypeOK, Safe, NoNodeLeftHidden, HandsOff, LostIsConnected, StoppedIsIdle, scan,
       Scanning, Pass, Buses
<1>2. /\ pending' \in {"none", "usb", "bt", "stale"}
      /\ UNCHANGED <<settings, uevents, suppressed, budget>> /\ at' = "poll"
  BY DEF IInv, TypeOK, scan, Pass
<1>3. ASSUME NEW id, open_legacy(id) PROVE IInv'
  <2>1. /\ is_bluetooth' \in BOOLEAN
        /\ find_physical_ds4 # "none" => is_bluetooth' = (find_physical_ds4 = "bt")
    <3> DEFINE b == find_physical_ds4
    <3>1. is_bluetooth' = IF b = "none" THEN id \in {"bt", "stale"} ELSE b = "bt"
      BY <1>3 DEF open_legacy
    <3> HIDE DEF b
    <3>2. CASE b = "none"
      <4>1. is_bluetooth' = (id \in {"bt", "stale"})
        BY <3>1, <3>2
      <4> QED BY <3>2, <4>1 DEF b
    <3>3. CASE b # "none"
      <4>1. is_bluetooth' = (b = "bt")
        BY <3>1, <3>3
      <4> QED BY <4>1 DEF b
    <3> QED BY <3>2, <3>3
  <2>2. /\ phy' = find_physical_ds4 /\ via' = "hidraw" /\ UNCHANGED <<dev, lost>>
        /\ hidden' = IF hides /\ find_physical_ds4 # "none" THEN {find_physical_ds4} ELSE hidden
    BY <1>3 DEF open_legacy
  <2> QED BY <1>1, <1>2, <2>1, <2>2, CandidatesAreTyped DEF IInv, TypeOK, Safe, NoNodeLeftHidden,
       FormatMatchesLink, HandsOff, LostIsConnected, StoppedIsIdle, settings, Buses
<1>4. ASSUME NEW id \in Candidates, CanOpen(id), open_unbind(id) PROVE IInv'
  <2>1. id \in Buses /\ hides
    BY <1>4, CandidatesAreTyped DEF IInv, CanOpen, Buses
  <2> QED BY <1>1, <1>2, <1>4, <2>1 DEF IInv, TypeOK, Safe, NoNodeLeftHidden, FormatMatchesLink,
             HandsOff, LostIsConnected, StoppedIsIdle, settings, open_unbind, Buses
<1> QED BY <1>3, <1>4 DEF scan

\* A device that cannot be created gives the controller back.
LEMMA CreateFailsPreserves == IInv /\ create_fails => IInv'
<1> SUFFICES ASSUME IInv, create_fails PROVE IInv'
  OBVIOUS
<1>1. /\ phy = "none" /\ dev["usb"] # "claimed"
      /\ UNCHANGED <<settings, hidden, phy, via, lost, suppressed>> /\ at' = "poll"
      /\ pending' \in {"none", "usb", "bt", "stale"} /\ budget' \in 0 .. MaxEvents
  BY HotSwapAssumption DEF IInv, TypeOK, Safe, HandsOff, create_fails, Scanning, Pass, Spend
<1>2. /\ dev' \in [Buses -> {"absent", "bound", "refused", "unbound", "claimed"}]
      /\ dev'["usb"] # "claimed" /\ is_bluetooth' \in BOOLEAN
      /\ uevents' \in Seq({"usb", "bt", "stale"})
  <2>1. is_bluetooth' \in BOOLEAN
    BY DEF create_fails
  <2>2. \/ UNCHANGED <<dev, uevents>>
        \/ dev' = [dev EXCEPT !["usb"] = Probed(dev["bt"])] /\ uevents' = Added("usb")
    BY DEF create_fails, environment
  <2>3. Probed(dev["bt"]) \in {"refused", "bound"} /\ "usb" \in Buses
    BY DEF Probed, Buses
  <2>4. dev \in [Buses -> {"absent", "bound", "refused", "unbound", "claimed"}]
    BY DEF IInv, TypeOK
  <2>5. /\ dev' \in [Buses -> {"absent", "bound", "refused", "unbound", "claimed"}]
        /\ dev'["usb"] # "claimed"
    BY <1>1, <2>2, <2>3, <2>4
  <2>6. uevents' \in Seq({"usb", "bt", "stale"})
    BY <2>2, <2>3, AddedIsTyped DEF IInv, TypeOK
  <2> QED BY <2>1, <2>5, <2>6
<1>3. TypeOK'
  <2>1. /\ method' \in {"unbind", "legacy"} /\ hides' \in BOOLEAN
        /\ ignore_physical' \in BOOLEAN /\ running' \in BOOLEAN
    BY <1>1 DEF IInv, TypeOK, settings
  <2>2. /\ hidden' \subseteq Buses /\ phy' \in Buses \cup {"none"}
        /\ via' \in {"hidraw", "libusb", "bpf"} /\ lost' \in BOOLEAN
        /\ suppressed' \in {"none", "this", "stale"} /\ at' \in {"top", "poll", "rest"}
    BY <1>1 DEF IInv, TypeOK
  <2> QED BY <1>1, <1>2, <2>1, <2>2, Zenon DEF TypeOK
<1>4. Safe'
  BY <1>1, <1>2 DEF IInv, Safe, NoNodeLeftHidden, FormatMatchesLink, HandsOff, LostIsConnected,
     StoppedIsIdle, settings
<1> QED BY <1>3, <1>4 DEF IInv

\* The Bluetooth connection is given up, and a Bluetooth connection claims no
\* interface.
LEMMA HotSwapPreserves == IInv /\ hot_swap => IInv'
<1> SUFFICES ASSUME IInv, hot_swap PROVE IInv'
  OBVIOUS
<1>1. phy = "bt" /\ dev["usb"] # "claimed"
  BY DEF IInv, Safe, FormatMatchesLink, HandsOff, hot_swap
<1>2. /\ Unbound \in [Buses -> {"absent", "bound", "refused", "unbound", "claimed"}]
      /\ Unbound["usb"] # "claimed"
  BY <1>1 DEF IInv, TypeOK, Unbound, Buses
<1>3. /\ dev' \in [Buses -> {"absent", "bound", "refused", "unbound", "claimed"}]
      /\ dev'["usb"] # "claimed"
  BY <1>2, BindIsTyped DEF hot_swap, Buses
<1>4. suppressed' \in {"none", "this", "stale"}
  BY DEF hot_swap, BtId
<1>5. /\ UNCHANGED <<settings, is_bluetooth, uevents, pending, budget>> /\ at' = "poll"
      /\ \/ phy' = "none" /\ via' = "hidraw" /\ lost' = FALSE /\ hidden' = hidden \ {phy}
         \/ lost' = TRUE /\ hidden' = hidden \ {"bt"} /\ UNCHANGED <<phy, via>>
  BY DEF hot_swap, release_physical_connection, Pass
<1> QED BY <1>1, <1>3, <1>4, <1>5 DEF IInv, TypeOK, Safe, NoNodeLeftHidden, FormatMatchesLink,
           HandsOff, LostIsConnected, StoppedIsIdle, settings, Buses

\* Steps of an iteration that take and give nothing.
LEMMA PassesPreserve == IInv /\ (top_skips \/ read_uevent \/ rest_skips \/ resume_physical) => IInv'
<1> SUFFICES ASSUME IInv, top_skips \/ read_uevent \/ rest_skips \/ resume_physical PROVE IInv'
  OBVIOUS
<1>1. /\ UNCHANGED <<dev, connection, suppressed, budget, hidden, hides, running, method>>
      /\ at' \in {"top", "poll", "rest"} /\ ignore_physical' \in BOOLEAN
  BY DEF IInv, TypeOK, top_skips, read_uevent, rest_skips, resume_physical, Pass, settings,
     environment
<1>2. pending' \in {"none", "usb", "bt", "stale"} /\ uevents' \in Seq({"usb", "bt", "stale"})
  <2>1. CASE read_uevent
    BY <2>1 DEF IInv, TypeOK, read_uevent
  <2>2. CASE ~read_uevent
    BY <2>2 DEF IInv, TypeOK, top_skips, rest_skips, resume_physical, environment
  <2> QED BY <2>1, <2>2
<1>3. TypeOK'
  <2>1. /\ method' \in {"unbind", "legacy"} /\ hides' \in BOOLEAN /\ running' \in BOOLEAN
        /\ dev' \in [Buses -> {"absent", "bound", "refused", "unbound", "claimed"}]
        /\ hidden' \subseteq Buses /\ suppressed' \in {"none", "this", "stale"}
        /\ budget' \in 0 .. MaxEvents
    BY <1>1 DEF IInv, TypeOK
  <2>2. /\ phy' \in Buses \cup {"none"} /\ via' \in {"hidraw", "libusb", "bpf"}
        /\ lost' \in BOOLEAN /\ is_bluetooth' \in BOOLEAN
    BY <1>1 DEF IInv, TypeOK, connection
  <2>3. at' \in {"top", "poll", "rest"} /\ ignore_physical' \in BOOLEAN
    BY <1>1
  <2> QED BY <1>2, <2>1, <2>2, <2>3, Zenon DEF TypeOK
<1>4. Safe'
  BY <1>1 DEF IInv, Safe, NoNodeLeftHidden, FormatMatchesLink, HandsOff, LostIsConnected,
     StoppedIsIdle, connection
<1> QED BY <1>3, <1>4 DEF IInv

\* A lost interface is not claimed any more.
LEMMA DropPreserves == IInv /\ drop => IInv'
<1> SUFFICES ASSUME IInv, drop PROVE IInv'
  OBVIOUS
<1>1. dev["usb"] # "claimed"
  BY DEF IInv, Safe, HandsOff, drop
<1>2. /\ dev' \in [Buses -> {"absent", "bound", "refused", "unbound", "claimed"}]
      /\ dev'["usb"] # "claimed"
  BY <1>1, RestoredIsTyped DEF IInv, TypeOK, drop
<1> QED BY <1>2 DEF IInv, TypeOK, Safe, NoNodeLeftHidden, FormatMatchesLink, HandsOff,
           LostIsConnected, StoppedIsIdle, drop, release_physical_connection, settings, Pass

\* release_physical_connection() gives everything back.
LEMMA LettingGo ==
  ASSUME IInv, letting_go
  PROVE  /\ dev' \in [Buses -> {"absent", "bound", "refused", "unbound", "claimed"}]
         /\ dev'["usb"] # "claimed" /\ uevents' \in Seq({"usb", "bt", "stale"})
         /\ suppressed' = "none" /\ phy' = "none" /\ via' = "hidraw" /\ lost' = FALSE /\ hidden' = {}
<1>1. /\ Released(dev) \in [Buses -> {"absent", "bound", "refused", "unbound", "claimed"}]
      /\ Released(dev)["usb"] # "claimed"
  BY ReleasedIsTyped DEF IInv, Safe
<1>2. ReleaseEvents \in Seq({"usb", "bt", "stale"})
  BY AddedIsTyped DEF IInv, TypeOK, ReleaseEvents, Buses
<1> QED BY <1>1, <1>2, RestoredIsTyped DEF IInv, TypeOK, Safe, NoNodeLeftHidden, letting_go,
           release_physical_connection

\* Every command that lets the controller go leaves nothing taken.
LEMMA CommandsPreserve == IInv /\ (set_type \/ release_physical) => IInv'
<1> SUFFICES ASSUME IInv, set_type \/ release_physical PROVE IInv'
  OBVIOUS
<1>1. budget' \in 0 .. MaxEvents
  BY HotSwapAssumption DEF IInv, TypeOK, set_type, release_physical, Spend
<1>2. /\ at' = "top" /\ hides' \in BOOLEAN /\ ignore_physical' \in BOOLEAN
      /\ UNCHANGED <<method, running, is_bluetooth, pending>>
  BY DEF IInv, TypeOK, set_type, release_physical, Pass
<1>3. CASE letting_go
  <2>1. Safe'
    BY <1>2, <1>3, LettingGo DEF Safe, NoNodeLeftHidden, FormatMatchesLink, HandsOff,
         LostIsConnected, StoppedIsIdle
  <2>2. TypeOK'
    BY <1>1, <1>2, <1>3, LettingGo DEF IInv, TypeOK
  <2> QED BY <2>1, <2>2 DEF IInv
<1>4. CASE UNCHANGED <<dev, uevents, suppressed, phy, via, lost, hidden, hides>>
  <2>1. Safe'
    BY <1>2, <1>4 DEF IInv, Safe, NoNodeLeftHidden, FormatMatchesLink, HandsOff, LostIsConnected,
         StoppedIsIdle
  <2>2. TypeOK'
    BY <1>1, <1>2, <1>4 DEF IInv, TypeOK
  <2> QED BY <2>1, <2>2 DEF IInv
<1>5. CASE set_type
  BY <1>5, <1>3 DEF set_type
<1>6. CASE release_physical
  BY <1>6, <1>3, <1>4 DEF release_physical
<1> QED BY <1>5, <1>6

\* What the rebind script may lead to.
LEMMA ReboundIsTyped ==
  ASSUME NEW d \in [Buses -> {"absent", "bound", "refused", "unbound", "claimed"}]
  PROVE  /\ Rebound(d) \in [Buses -> {"absent", "bound", "refused", "unbound", "claimed"}]
         /\ d["usb"] # "claimed" => Rebound(d)["usb"] # "claimed"
<1>1. "usb" \in Buses /\ "bt" \in Buses
  BY DEF Buses
<1>2. /\ Bind(d, "usb") \in [Buses -> {"absent", "bound", "refused", "unbound", "claimed"}]
      /\ d["usb"] # "claimed" => Bind(d, "usb")["usb"] # "claimed"
  BY <1>1, BindIsTyped
<1> QED BY <1>1, <1>2, BindIsTyped DEF Rebound

\* The end of the daemon gives everything back, and the script that runs around
\* it claims nothing.
LEMMA RestartsPreserve == IInv /\ (shutdown \/ start) => IInv'
<1> SUFFICES ASSUME IInv, shutdown \/ start PROVE IInv'
  OBVIOUS
<1>1. CASE shutdown
  <2>1. /\ Released(dev) \in [Buses -> {"absent", "bound", "refused", "unbound", "claimed"}]
        /\ Released(dev)["usb"] # "claimed"
    BY ReleasedIsTyped DEF IInv, Safe
  <2>2. /\ dev' \in [Buses -> {"absent", "bound", "refused", "unbound", "claimed"}]
        /\ dev'["usb"] # "claimed"
    BY <1>1, <2>1, RestoredIsTyped, ReboundIsTyped DEF shutdown
  <2>3. uevents' \in Seq({"usb", "bt", "stale"})
    BY <1>1 DEF shutdown
  <2> QED BY <1>1, <2>2, <2>3 DEF IInv, TypeOK, Safe, NoNodeLeftHidden, FormatMatchesLink, HandsOff,
             LostIsConnected, StoppedIsIdle, shutdown, release_physical_connection, Pass
<1>2. CASE start
  <2>1. ~running /\ dev["usb"] # "claimed"
    BY <1>2 DEF IInv, Safe, HandsOff, start
  <2>2. /\ dev' \in [Buses -> {"absent", "bound", "refused", "unbound", "claimed"}]
        /\ dev'["usb"] # "claimed"
    BY <1>2, <2>1, ReboundIsTyped DEF IInv, TypeOK, start
  <2>3. budget' \in 0 .. MaxEvents
    BY <1>2, HotSwapAssumption DEF IInv, TypeOK, start, Spend
  <2>4. /\ running' = TRUE /\ ignore_physical' = FALSE /\ is_bluetooth' = FALSE
        /\ UNCHANGED <<method, at, hides, uevents, hidden, phy, via, lost, suppressed, pending>>
    BY <1>2 DEF start
  <2>5. Safe'
    BY <2>1, <2>2, <2>4 DEF IInv, Safe, NoNodeLeftHidden, FormatMatchesLink, HandsOff,
       LostIsConnected, StoppedIsIdle
  <2>6. TypeOK'
    <3>1. running' \in BOOLEAN /\ ignore_physical' \in BOOLEAN /\ is_bluetooth' \in BOOLEAN
      BY <2>4
    <3>2. /\ method' \in {"unbind", "legacy"} /\ hides' \in BOOLEAN /\ hidden' \subseteq Buses
          /\ phy' \in Buses \cup {"none"} /\ via' \in {"hidraw", "libusb", "bpf"} /\ lost' \in BOOLEAN
          /\ suppressed' \in {"none", "this", "stale"} /\ at' \in {"top", "poll", "rest"}
          /\ uevents' \in Seq({"usb", "bt", "stale"}) /\ pending' \in {"none", "usb", "bt", "stale"}
      BY <2>4 DEF IInv, TypeOK
    <3> QED BY <2>2, <2>3, <3>1, <3>2, Zenon DEF TypeOK
  <2> QED BY <2>5, <2>6 DEF IInv
<1> QED BY <1>1, <1>2

\* A link that goes takes its nodes with it.
LEMMA EnvironmentPreserves == IInv /\ (User \/ kernel_retries) => IInv'
<1> SUFFICES ASSUME IInv, User \/ kernel_retries PROVE IInv'
  OBVIOUS
<1>1. ASSUME NEW bus \in Buses, connect(bus) PROVE IInv'
  BY <1>1, AddedIsTyped, HotSwapAssumption DEF IInv, TypeOK, Safe, NoNodeLeftHidden,
     FormatMatchesLink, HandsOff, LostIsConnected, StoppedIsIdle, connect, settings, connection,
          Spend, Probed, Buses
<1>2. ASSUME NEW bus \in Buses, disconnect(bus) PROVE IInv'
  <2>1. /\ suppressed' \in {"none", "this", "stale"} /\ pending' \in {"none", "usb", "bt", "stale"}
        /\ uevents' \in Seq({"usb", "bt", "stale"})
    BY <1>2 DEF IInv, TypeOK, disconnect, Aged, Buses
  <2>2. /\ budget' \in 0 .. MaxEvents /\ UNCHANGED <<settings, at, phy, via, is_bluetooth>>
        /\ dev' = [dev EXCEPT ![bus] = "absent"] /\ hidden' = hidden \ {bus}
        /\ lost' = (lost \/ phy = bus)
    BY <1>2, HotSwapAssumption DEF IInv, TypeOK, disconnect, Spend
  <2> QED BY <2>1, <2>2 DEF IInv, TypeOK, Safe, NoNodeLeftHidden, FormatMatchesLink, HandsOff,
             LostIsConnected, StoppedIsIdle, settings, Buses
<1>3. CASE kernel_retries
  BY <1>3 DEF IInv, TypeOK, Safe, NoNodeLeftHidden, FormatMatchesLink, HandsOff, LostIsConnected,
       StoppedIsIdle,
     kernel_retries, settings, connection, Buses
<1> QED BY <1>1, <1>2, <1>3 DEF User

\* One case per step of the main loop, command and event.
LEMMA NextPreservesIInv == IInv /\ [Next]_vars => IInv'
<1> SUFFICES ASSUME IInv, [Next]_vars PROVE IInv'
  OBVIOUS
<1>1. CASE Daemon
  BY <1>1, ScanPreserves, HotSwapPreserves, PassesPreserve, DropPreserves DEF Daemon
<1>2. CASE create_fails
  BY <1>2, CreateFailsPreserves
<1>3. CASE Client
  BY <1>3, CommandsPreserve, PassesPreserve DEF Client
<1>4. CASE shutdown \/ start
  BY <1>4, RestartsPreserve
<1>5. CASE User \/ kernel_retries
  BY <1>5, EnvironmentPreserves
<1>6. CASE UNCHANGED vars
  BY <1>6 DEF IInv, TypeOK, Safe, NoNodeLeftHidden, FormatMatchesLink, HandsOff, LostIsConnected,
       StoppedIsIdle,
     vars, settings, environment, connection
<1> QED BY <1>1, <1>2, <1>3, <1>4, <1>5, <1>6 DEF Next

\* The inductive invariant of the hot-swap.
THEOREM InductiveInvariant == Spec => []IInv
  BY InitEstablishesIInv, NextPreservesIInv, PTL DEF Spec

\* Every variable keeps its type.
THEOREM TypeCorrect == Spec => []TypeOK
<1>1. IInv => TypeOK
  BY DEF IInv
<1> QED BY <1>1, InductiveInvariant, PTL

\* No node stays private once its connection is gone (release_physical_connection).
THEOREM NodesAreGivenBack == Spec => []NoNodeLeftHidden
<1>1. IInv => NoNodeLeftHidden
  BY DEF IInv, Safe
<1> QED BY <1>1, InductiveInvariant, PTL

\* is_bluetooth always agrees with the descriptor in use.
THEOREM FormatIsRight == Spec => []FormatMatchesLink
<1>1. IInv => FormatMatchesLink
  BY DEF IInv, Safe
<1> QED BY <1>1, InductiveInvariant, PTL

\* An interface is claimed only by a running daemon that uses and hides the
\* controller, and type none takes nothing.
THEOREM HandsStayOff == Spec => []HandsOff
<1>1. IInv => HandsOff
  BY DEF IInv, Safe
<1> QED BY <1>1, InductiveInvariant, PTL

-----------------------------------------------------------------------------
(* Bluetooth, while the cable has the driver *)

\* suppressed_bt_hid_id names a link without a driver, and only a running daemon
\* remembers one; a controller that was released is not in use.  Without the
\* second part a restart could lose the memory, without the third a hot-swap
\* could be refused to a connection in use.
TakenIsRemembered ==
  /\ suppressed = "this" => dev["bt"] = "unbound"
  /\ ~running => suppressed = "none"
  /\ ignore_physical => phy = "none"

\* A bind gives the driver to Bluetooth, unless the cable has it and keeps it.
LEMMA BindGivesADriver ==
  ASSUME NEW d \in [Buses -> {"absent", "bound", "refused", "unbound", "claimed"}],
         d["bt"] = "unbound"
  PROVE  "bound" \in {Bind(d, "bt")["bt"], Bind(d, "bt")["usb"]}
  BY DEF Bind, Other, Buses

\* A scan and a device that cannot be created leave Bluetooth as it is.
LEMMA ScanRemembers ==
  IInv /\ TakenIsRemembered /\ (scan \/ create_fails) => TakenIsRemembered'
<1> SUFFICES ASSUME IInv, TakenIsRemembered, scan \/ create_fails PROVE TakenIsRemembered'
  OBVIOUS
<1>1. /\ running /\ ~ignore_physical
      /\ UNCHANGED <<running, ignore_physical, suppressed>>
  BY DEF scan, create_fails, Scanning, Pass, settings
<1>2. dev' = dev \/ \E x : dev' = [dev EXCEPT !["usb"] = x]
  BY DEF scan, create_fails, open_legacy, open_unbind, environment
<1>3. dev'["bt"] = dev["bt"]
  BY <1>2 DEF IInv, TypeOK, Buses
<1> QED BY <1>1, <1>3 DEF TakenIsRemembered

\* A hot-swap remembers the link it takes the driver from, or one that ended.
LEMMA HotSwapRemembers == IInv /\ TakenIsRemembered /\ hot_swap => TakenIsRemembered'
<1> SUFFICES ASSUME IInv, TakenIsRemembered, hot_swap PROVE TakenIsRemembered'
  OBVIOUS
<1>1. /\ running /\ ~ignore_physical /\ suppressed' = BtId
      /\ UNCHANGED <<running, ignore_physical>> /\ dev' = Bind(Unbound, "usb")
  BY DEF hot_swap, Pass, settings
<1>2. ASSUME BtId = "this" PROVE dev'["bt"] = "unbound"
  BY <1>1, <1>2 DEF IInv, TypeOK, Unbound, Bind, Buses
<1> QED BY <1>1, <1>2 DEF TakenIsRemembered

\* Whoever lets the controller go, or stops the daemon, forgets the link too.
LEMMA LettingGoForgets ==
  IInv /\ TakenIsRemembered /\ (drop \/ Client \/ shutdown \/ start) => TakenIsRemembered'
<1> SUFFICES ASSUME IInv, TakenIsRemembered, drop \/ Client \/ shutdown \/ start
             PROVE  TakenIsRemembered'
  OBVIOUS
<1>1. CASE drop
  BY <1>1 DEF drop, Pass, release_physical_connection, settings, TakenIsRemembered
<1>2. CASE set_type \/ shutdown
  BY <1>2 DEF set_type, letting_go, shutdown, Pass, release_physical_connection, TakenIsRemembered
<1>3. CASE release_physical
  BY <1>3 DEF release_physical, letting_go, Pass, release_physical_connection, TakenIsRemembered
<1>4. CASE resume_physical
  BY <1>4 DEF resume_physical, Pass, environment, connection, TakenIsRemembered
<1>5. CASE start
  BY <1>5 DEF start, TakenIsRemembered
<1> QED BY <1>1, <1>2, <1>3, <1>4, <1>5 DEF Client

\* A link without a driver is not probed again, and one that goes is stale.
LEMMA EnvironmentRemembers ==
  IInv /\ TakenIsRemembered /\ (User \/ kernel_retries) => TakenIsRemembered'
<1> SUFFICES ASSUME IInv, TakenIsRemembered, User \/ kernel_retries PROVE TakenIsRemembered'
  OBVIOUS
<1>1. UNCHANGED <<running, ignore_physical, phy>>
  BY DEF User, connect, disconnect, kernel_retries, settings, connection
<1>2. suppressed' \in {suppressed, "stale"} /\ (suppressed = "none" => suppressed' = "none")
  BY DEF User, connect, disconnect, kernel_retries
<1>3. ASSUME suppressed' = "this" PROVE dev'["bt"] = "unbound"
  <2>1. suppressed = "this" /\ dev["bt"] = "unbound"
    BY <1>2, <1>3 DEF TakenIsRemembered
  <2>2. \E bus \in Buses \ {"bt"} : \E x : dev' = [dev EXCEPT ![bus] = x]
    BY <1>3, <2>1 DEF User, connect, disconnect, kernel_retries
  <2> QED BY <2>1, <2>2 DEF IInv, TypeOK, Buses
<1> QED BY <1>1, <1>2, <1>3 DEF TakenIsRemembered

\* main() remembers Bluetooth only while it is without the driver that was
\* taken from it.
THEOREM RememberedIsTaken == Spec => []TakenIsRemembered
<1>1. Init => TakenIsRemembered
  BY DEF Init, TakenIsRemembered
<1>2. TakenIsRemembered /\ (top_skips \/ read_uevent \/ rest_skips) => TakenIsRemembered'
  BY DEF top_skips, read_uevent, rest_skips, Pass, settings, environment, connection,
     TakenIsRemembered
<1>3. TakenIsRemembered /\ UNCHANGED vars => TakenIsRemembered'
  BY DEF vars, settings, environment, connection, TakenIsRemembered
<1>4. IInv /\ TakenIsRemembered /\ [Next]_vars => TakenIsRemembered'
  BY <1>2, <1>3, ScanRemembers, HotSwapRemembers, LettingGoForgets, EnvironmentRemembers
     DEF Next, Daemon
<1> QED BY <1>1, <1>4, InductiveInvariant, PTL DEF Spec

\* When main() forgets that it took the driver from Bluetooth, one of the two
\* links has a driver: HandBackSucceeds fails at most next to a cable that works.
OneLinkKeepsADriver ==
  [][suppressed = "this" /\ suppressed' = "none" => "bound" \in {dev'["bt"], dev'["usb"]}]_vars

\* restore_suppressed_bluetooth() after a real disconnect, a command or the end
\* of the daemon never leaves the controller without a driver on both links.
THEOREM HandBackLeavesADriver == Spec => OneLinkKeepsADriver
<1>1. ASSUME IInv, TakenIsRemembered, [Next]_vars, suppressed = "this", suppressed' = "none"
      PROVE  "bound" \in {dev'["bt"], dev'["usb"]}
  <2>1. dev["bt"] = "unbound" /\ running
    BY <1>1 DEF TakenIsRemembered
  <2>2. drop \/ letting_go \/ shutdown
    <3>1. CASE Daemon
      BY <1>1, <3>1 DEF Daemon, scan, hot_swap, BtId, top_skips, read_uevent, rest_skips
    <3>2. CASE Client
      BY <1>1, <3>2 DEF Client, set_type, release_physical, resume_physical
    <3>3. CASE create_fails \/ start \/ User \/ kernel_retries
      BY <1>1, <2>1, <3>3 DEF create_fails, start, User, connect, disconnect, kernel_retries
    <3>4. CASE UNCHANGED vars
      BY <1>1, <3>4 DEF vars
    <3> QED BY <1>1, <3>1, <3>2, <3>3, <3>4 DEF Next
  <2>3. /\ Released(dev) \in [Buses -> {"absent", "bound", "refused", "unbound", "claimed"}]
        /\ Released(dev)["bt"] = "unbound"
    BY <1>1, <2>1, ReleasedIsTyped DEF IInv, TypeOK, Released, Buses
  <2>4. CASE drop
    BY <1>1, <2>1, <2>4, BindGivesADriver DEF IInv, TypeOK, drop, Restored
  <2>5. CASE letting_go
    BY <1>1, <2>3, <2>5, BindGivesADriver DEF letting_go, Restored
  <2>6. CASE shutdown
    <3> DEFINE given == Bind(Released(dev), "bt")
    <3>1. /\ given \in [Buses -> {"absent", "bound", "refused", "unbound", "claimed"}]
          /\ "bound" \in {given["bt"], given["usb"]} /\ "usb" \in Buses /\ "bt" \in Buses
      BY <2>3, BindGivesADriver, BindIsTyped DEF Buses
    <3>2. dev' = Bind(Bind(given, "usb"), "bt")
      BY <1>1, <2>6 DEF shutdown, Rebound, Restored
    <3> HIDE DEF given
    <3>3. /\ Bind(given, "usb") \in [Buses -> {"absent", "bound", "refused", "unbound", "claimed"}]
          /\ "bound" \in {Bind(given, "usb")["bt"], Bind(given, "usb")["usb"]}
      BY <3>1, BindIsTyped
    <3> QED BY <3>1, <3>2, <3>3, BindIsTyped
  <2> QED BY <2>2, <2>4, <2>5, <2>6
<1> QED BY <1>1, InductiveInvariant, RememberedIsTaken, PTL DEF Spec, OneLinkKeepsADriver

\* While a Bluetooth connection is in use and a cable is plugged in, only its
\* turn in the loop is missing for a hot-swap: what main() checks there holds.
SwapIsPossible ==
  phy = "bt" /\ ~lost /\ dev["usb"] # "absent" =>
    is_bluetooth /\ ~ignore_physical /\ find_usb_ds4_hid_id /\ BtId = "this"

\* The hot-swap of a connection in use gives the cable the driver.
SwapGivesDriver == [][hot_swap /\ ~lost => dev'["usb"] = "bound"]_vars

\* Nothing but the loss of a link or a command keeps main() from moving to the
\* cable: the safety part of UsbTakesOver.
THEOREM CableIsNotMissed == Spec => []SwapIsPossible /\ SwapGivesDriver
<1>1. IInv /\ TakenIsRemembered => SwapIsPossible
  BY DEF IInv, TypeOK, Safe, FormatMatchesLink, HandsOff, TakenIsRemembered, SwapIsPossible,
     find_usb_ds4_hid_id, BtId, Buses
<1>2. ASSUME IInv, hot_swap, ~lost PROVE dev'["usb"] = "bound"
  <2>1. /\ Unbound = [dev EXCEPT !["bt"] = "unbound"] /\ dev' = Bind(Unbound, "usb")
        /\ dev["usb"] \in {"bound", "refused", "unbound"}
    BY <1>2 DEF hot_swap, Unbound, BtId, find_usb_ds4_hid_id
  <2> QED BY <1>2, <2>1 DEF IInv, TypeOK, Bind, Other, Buses
<1> QED BY <1>1, <1>2, InductiveInvariant, RememberedIsTaken, PTL DEF Spec, SwapGivesDriver
=============================================================================
