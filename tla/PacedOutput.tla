---------------------------- MODULE PacedOutput ----------------------------
(***************************************************************************)
(* What the daemon promises about output reports to a Bluetooth            *)
(* controller, without threads, locks or timers: a one-place register that *)
(* holds the newest report, and a wire that takes at most one report per   *)
(* kMinInterval (src/main.cpp, comment of BtOutputPacer).                  *)
(***************************************************************************)
EXTENDS Integers

CONSTANTS Reports, NoReport, kMinInterval

VARIABLES
  held,   \* the report waiting for its turn, or NoReport
  wire,   \* the last report written to the controller
  age     \* ticks since that write, saturating at kMinInterval

vars == <<held, wire, age>>

Init ==
  /\ held = NoReport
  /\ wire = NoReport
  /\ age = kMinInterval

\* A report that finds the wire quiet and nothing before it goes straight out.
Pass(r) ==
  /\ held = NoReport
  /\ age >= kMinInterval
  /\ wire' = r
  /\ age' = 0
  /\ UNCHANGED held

\* Any other report replaces the one that waits.
Hold(r) ==
  /\ held' = r
  /\ UNCHANGED <<wire, age>>

Deliver ==
  /\ held # NoReport
  /\ age >= kMinInterval
  /\ wire' = held
  /\ held' = NoReport
  /\ age' = 0

Drop ==
  /\ held' = NoReport
  /\ UNCHANGED <<wire, age>>

Tick ==
  /\ age < kMinInterval
  /\ age' = age + 1
  /\ UNCHANGED <<held, wire>>

Next ==
  \/ \E r \in Reports : Pass(r) \/ Hold(r)
  \/ Deliver
  \/ Drop
  \/ Tick

Spec == Init /\ [][Next]_vars
=============================================================================
