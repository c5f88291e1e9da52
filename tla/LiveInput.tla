------------------------------ MODULE LiveInput ------------------------------
(***************************************************************************)
(* From the controller to the game and to the live view: the reports the   *)
(* daemon reads, translates and sends to the emulated device, and the      *)
(* stream of STATE, NOTE, OUTPUT and TIMING lines it pushes to whoever     *)
(* watches (src/main.cpp), with the view of the desktop UI that connects,  *)
(* reads it and reconnects (InputMonitor, ui/src/inputmonitor.cpp).        *)
(*                                                                         *)
(* What is in a report is in Reports; opening the controller and creating  *)
(* the device, here one step each, are Transport's and Daemon's matter.    *)
(***************************************************************************)
EXTENDS Reports

CONSTANTS
  Pads,        \* the reports a controller may be sending
  Noise,       \* Bluetooth reports that were damaged on the way
  Synthetics,  \* SyntheticStates of `ds4-ctl virtual`
  Types,       \* types the daemon may be started with
  Versions,    \* daemons: TRUE for today's, FALSE for one that knows neither "test all",
               \* the sensors and the touch pad in a STATE line, nor OUTPUT and TIMING lines
  Outputs, Dark,   \* light bar and motors; what they are at the start
  kMeasureWindows,
  MaxLines,    \* pushes that fit into the socket (bound)
  MaxEvents,   \* events of a behaviour (bound)
  NoPad, NoReport, NoState, NoOutput

ASSUME LiveInputAssumption ==
  /\ kMeasureWindows \in Nat \ {0} /\ MaxLines \in Nat \ {0} /\ MaxEvents \in Nat
  /\ \A r \in Noise : ~got_report(r)
  /\ \A r \in Pads :
       /\ got_report(r) /\ r.num_touch \in 0 .. Slots(r.link)
       /\ r.common.status.cable \in BOOLEAN /\ r.common.status.level \in 0 .. 15
       /\ r.common.dpad \in 0 .. 15 /\ r.common.bits \subseteq 1 .. 14
  /\ \A s \in Synthetics : s.dpad \in 0 .. 255
  /\ Dark \in Outputs

Sources == {"virtual", "physical"}

VARIABLES
  \* the controller and the daemon
  pad,               \* the report the controller keeps sending, if it is there
  up, all_known, target_type,
  phy,               \* phy_fd >= 0
  device,            \* there is an emulated device, open and ready
  standalone, synth_state,
  emitted,           \* the last report of the emulated device
  last_phy, last_virtual,
  cur,               \* cur_r, cur_g, cur_b and the motors
  broadcast_output,
  timing,            \* the timing window: "running", "over" a second, or "stale"
  subscriber,        \* the view's subscription: "none", "active", "all"
  orphan,            \* the subscription of a view that has left
  \* the socket
  request, stream,
  eof,               \* "no", "closed", or "refused" as an unknown command
  \* the view
  active, connected, allSources, shown, output, measureWindows, measured,
  spans,             \* history: the windows of this measurement
  budget

link == <<pad, phy, device, standalone, synth_state>>
latest == <<emitted, last_phy, last_virtual>>
program == <<up, all_known, target_type>>
broadcast == <<broadcast_output, timing>>
socket == <<subscriber, orphan, request, stream, eof>>
measuring == <<measureWindows, measured, spans>>
view == <<active, connected, allSources, shown, output, measuring>>
vars == <<link, latest, program, cur, broadcast, socket, view, budget>>

Spend == budget > 0 /\ budget' = budget - 1

controller_type_emulates == target_type \in {"ds4", "dualsense"}
g_has_test_subscribers == subscriber # "none" \/ orphan

-----------------------------------------------------------------------------
(* Reports *)

\* Recorded for the live view only while somebody watches.
Watched(common, num_touch, touches, old) ==
  IF g_has_test_subscribers
  THEN [common |-> common, touch |-> Newest(num_touch, touches)] ELSE old

emit_input_report(common, num_touch, touches, has_real_battery) ==
  /\ emitted' = emitted_report(target_type, common, num_touch, touches, has_real_battery)
  /\ last_virtual' = Watched(common, num_touch, touches, last_virtual)

emit_synthetic(s) ==
  emit_input_report(build_synthetic_common(s), 0, [i \in 1 .. 4 |-> Zeroed], FALSE)

\* A damaged report is dropped.
forwards(r) ==
  IF got_report(r)
  THEN /\ last_phy' = Watched(r.common, r.num_touch, touch_reps(r), last_phy)
       /\ IF device THEN emit_input_report(r.common, r.num_touch, touch_reps(r), TRUE)
          ELSE UNCHANGED <<emitted, last_virtual>>
  ELSE UNCHANGED latest

read_report ==
  /\ up /\ phy /\ pad # NoPad
  /\ forwards(pad)
  /\ UNCHANGED <<link, program, cur, broadcast, socket, view, budget>>

read_noise ==
  /\ up /\ phy /\ pad # NoPad
  /\ \E r \in Noise : r.link = pad.link /\ forwards(r)
  /\ UNCHANGED <<link, program, cur, broadcast, socket, view, budget>>

\* The controller is opened; a device that waits in the grace window is kept.
scan ==
  /\ up /\ ~phy /\ ~standalone /\ pad # NoPad
  /\ phy' = TRUE
  /\ device' = controller_type_emulates
  /\ UNCHANGED <<pad, standalone, synth_state, latest, program, cur, broadcast, socket, view,
                 budget>>

drop ==
  /\ up /\ phy /\ pad = NoPad
  /\ phy' = FALSE
  /\ IF device THEN emit_synthetic(SyntheticState) ELSE UNCHANGED <<emitted, last_virtual>>
  /\ UNCHANGED <<pad, device, standalone, synth_state, last_phy, program, cur, broadcast, socket,
                 view, budget>>

grace_over ==
  /\ up /\ ~phy /\ ~standalone /\ device
  /\ device' = FALSE /\ emitted' = NoReport
  /\ UNCHANGED <<pad, phy, standalone, synth_state, last_phy, last_virtual, program, cur,
                 broadcast, socket, view, budget>>

\* "create-virtual", "input", the heartbeat and "destroy-virtual".
create_virtual ==
  /\ up /\ ~phy /\ ~standalone /\ ~device /\ controller_type_emulates
  /\ Spend
  /\ standalone' = TRUE /\ device' = TRUE /\ synth_state' = SyntheticState
  /\ UNCHANGED <<pad, phy, latest, program, cur, broadcast, socket, view>>

input ==
  /\ up /\ standalone
  /\ Spend
  /\ \E s \in Synthetics : synth_state' = s /\ emit_synthetic(s)
  /\ UNCHANGED <<pad, phy, device, standalone, last_phy, program, cur, broadcast, socket, view>>

heartbeat ==
  /\ up /\ standalone
  /\ emit_synthetic(synth_state)
  /\ UNCHANGED <<link, last_phy, program, cur, broadcast, socket, view, budget>>

\* A neutral report, and the device goes.
destroy_virtual ==
  /\ up /\ standalone
  /\ standalone' = FALSE /\ device' = FALSE /\ synth_state' = SyntheticState
  /\ emitted' = NoReport
  /\ last_virtual' = Watched(build_synthetic_common(SyntheticState), 0, <<>>, last_virtual)
  /\ UNCHANGED <<pad, phy, last_phy, program, cur, broadcast, socket, view, budget>>

\* A subscriber whose socket is full is let go.
LetGo == subscriber' = "none" /\ eof' = "closed"

test_log_event ==
  /\ orphan' = FALSE
  /\ IF subscriber # "none" /\ Len(stream) = MaxLines THEN LetGo ELSE UNCHANGED <<subscriber, eof>>

\* An output report of the game, which the UHID backend logs and the FunctionFS
\* backend does not.
set_output ==
  /\ up /\ device
  /\ Spend
  /\ cur' \in Outputs
  /\ \/ IF cur' # cur THEN test_log_event ELSE UNCHANGED <<subscriber, orphan, eof>>
     \/ UNCHANGED <<subscriber, orphan, eof>>
  /\ UNCHANGED <<link, latest, program, broadcast, request, stream, view>>

-----------------------------------------------------------------------------
(* The stream *)

Silent == [kind |-> "absent", state |-> NoState]
Note == [kind |-> "note", state |-> NoState]

\* What the daemon that runs tells of a state.
AsTold(state) == IF all_known THEN state ELSE older_state(state)

state_line(l) ==
  [kind |-> "state",
   state |-> parse_state(format_state_line(AsTold(input_state(l.common, l.touch))))]

virtual_line ==
  IF controller_type_emulates /\ device /\ last_virtual # NoState
  THEN state_line(last_virtual) ELSE Note

\* last_phy stays after the controller has left.
physical_line == IF last_phy = NoState THEN Note ELSE state_line(last_phy)

Lines(all) ==
  [s \in Sources |->
     IF s = "virtual" /\ (all \/ controller_type_emulates) THEN virtual_line
     ELSE IF s = "physical" /\ (all \/ ~controller_type_emulates) THEN physical_line
     ELSE Silent]

\* "test" and "test all"; the header tells the output, which is otherwise only
\* sent when it changes.
subscribe ==
  /\ up /\ request # "none"
  /\ request' = "none"
  /\ IF request = "all" /\ ~all_known
     THEN eof' = "refused" /\ UNCHANGED <<subscriber, stream>>
     ELSE /\ subscriber' = request
          /\ stream' = <<[lines |-> [s \in Sources |-> Silent],
                          output |-> IF all_known THEN cur ELSE NoOutput, timing |-> "none"]>>
          /\ UNCHANGED eof
  /\ UNCHANGED <<link, latest, program, cur, broadcast, orphan, view, budget>>

\* test_broadcast_state(), which also finds out that a subscriber has left.
tick ==
  /\ up /\ g_has_test_subscribers
  /\ orphan' = FALSE
  /\ broadcast_output' = cur
  /\ timing' = "running"
  /\ IF subscriber = "none" THEN UNCHANGED <<subscriber, stream, eof, budget>>
     ELSE IF Len(stream) < MaxLines
     THEN /\ stream' = Append(stream,
               [lines |-> Lines(subscriber = "all"),
                output |-> IF ~all_known \/ broadcast_output = cur THEN NoOutput ELSE cur,
                timing |-> IF ~all_known \/ timing = "running" THEN "none" ELSE timing])
          /\ UNCHANGED <<subscriber, eof, budget>>
     ELSE Spend /\ LetGo /\ UNCHANGED stream
  /\ UNCHANGED <<link, latest, program, cur, request, view>>

\* A second of the window has passed; nobody closes it while nobody watches.
time_passes ==
  /\ up
  /\ \/ timing = "running" /\ timing' = "over"
     \/ timing = "over" /\ ~g_has_test_subscribers /\ timing' = "stale"
  /\ UNCHANGED <<link, latest, program, cur, broadcast_output, socket, view, budget>>

stop ==
  /\ up /\ Spend
  /\ up' = FALSE
  /\ phy' = FALSE /\ device' = FALSE /\ standalone' = FALSE /\ synth_state' = SyntheticState
  /\ emitted' = NoReport /\ last_phy' = NoState /\ last_virtual' = NoState
  /\ cur' = Dark /\ broadcast_output' = NoOutput /\ timing' = "running"
  /\ eof' = IF connected /\ eof = "no" THEN "closed" ELSE eof
  /\ subscriber' = "none" /\ orphan' = FALSE /\ request' = "none"
  /\ UNCHANGED <<pad, all_known, target_type, stream, view>>

start ==
  /\ ~up
  /\ up' = TRUE
  /\ all_known' \in Versions
  /\ UNCHANGED <<link, latest, target_type, cur, broadcast, socket, view, budget>>

-----------------------------------------------------------------------------
(* InputMonitor *)

Nothing == [s \in Sources |-> NoState]

\* connect and write; a daemon that is not there is tried again.
connects ==
  IF up
  THEN /\ connected' = TRUE
       /\ request' = IF allSources THEN "all" ELSE "active"
       /\ UNCHANGED <<subscriber, orphan, stream, eof>>
  ELSE UNCHANGED <<connected, socket>>

disconnectStream ==
  /\ connected' = FALSE
  /\ shown' = Nothing
  /\ output' = NoOutput
  /\ stream' = <<>> /\ eof' = "no" /\ request' = "none"
  /\ subscriber' = "none"
  /\ orphan' = (orphan \/ subscriber # "none")

setActive ==
  /\ Spend
  /\ active' = ~active
  /\ IF active' THEN connects /\ UNCHANGED <<shown, output>> ELSE disconnectStream
  /\ UNCHANGED <<link, latest, program, cur, broadcast, allSources, measuring>>

\* Every two seconds.
tryConnect ==
  /\ active /\ ~connected
  /\ connects
  /\ UNCHANGED <<link, latest, program, cur, broadcast, active, allSources, shown, output,
                 measuring, budget>>

measure ==
  /\ Spend
  /\ measureWindows' = kMeasureWindows /\ measured' = FALSE /\ spans' = {}
  /\ UNCHANGED <<link, latest, program, cur, broadcast, socket, active, connected, allSources,
                 shown, output>>

Mut_applyTiming(window) ==
  IF window = "none" \/ measureWindows = 0 THEN UNCHANGED measuring
  ELSE /\ measureWindows' = IF phy THEN measureWindows - 1 ELSE measureWindows
       /\ measured' = (measureWindows' = 0)
       /\ spans' = spans \cup {window}

applyTiming(window) ==
  IF window = "none" \/ measureWindows = 0 THEN UNCHANGED measuring
  ELSE /\ measureWindows' = measureWindows - 1
       /\ measured' = (measureWindows' = 0)
       /\ spans' = spans \cup {window}

\* An older daemon's note does not say which source it is about.
handleLines(lines) ==
  shown' = [s \in Sources |->
    IF lines[s].kind = "state" THEN lines[s].state
    ELSE IF lines[s].kind = "note" \/ (~all_known /\ \E t \in Sources : lines[t].kind = "note")
    THEN NoState ELSE shown[s]]

onReadable ==
  /\ connected
  /\ IF stream # <<>>
     THEN /\ stream' = Tail(stream)
          /\ handleLines(Head(stream).lines)
          /\ output' = IF Head(stream).output = NoOutput THEN output ELSE Head(stream).output
          /\ applyTiming(Head(stream).timing)
          /\ UNCHANGED <<connected, allSources, subscriber, orphan, request, eof>>
     ELSE /\ eof # "no"
          /\ disconnectStream
          /\ allSources' = (allSources /\ eof # "refused")
          /\ UNCHANGED measuring
  /\ UNCHANGED <<link, latest, program, cur, broadcast, active, budget>>

-----------------------------------------------------------------------------

\* The user presses something, plugs or unplugs.
user ==
  /\ Spend
  /\ pad' \in Pads \cup {NoPad}
  /\ pad # NoPad /\ pad' # NoPad => pad'.link = pad.link
  /\ pad = NoPad => ~phy
  /\ UNCHANGED <<phy, device, standalone, synth_state, latest, program, cur, broadcast, socket,
                 view>>

Init ==
  /\ pad = NoPad
  /\ up = TRUE /\ all_known \in Versions /\ target_type \in Types
  /\ phy = FALSE /\ device = FALSE /\ standalone = FALSE /\ synth_state = SyntheticState
  /\ emitted = NoReport /\ last_phy = NoState /\ last_virtual = NoState
  /\ cur = Dark /\ broadcast_output = NoOutput /\ timing = "running"
  /\ subscriber = "none" /\ orphan = FALSE
  /\ request = "none" /\ stream = <<>> /\ eof = "no"
  /\ active = FALSE /\ connected = FALSE /\ allSources = TRUE
  /\ shown = Nothing /\ output = NoOutput
  /\ measureWindows = 0 /\ measured = FALSE /\ spans = {}
  /\ budget = MaxEvents

Physical == read_report \/ read_noise \/ scan \/ drop \/ grace_over
Standalone == create_virtual \/ input \/ heartbeat \/ destroy_virtual
Stream == subscribe \/ tick \/ time_passes
View == setActive \/ tryConnect \/ measure \/ onReadable

Next == Physical \/ Standalone \/ Stream \/ View \/ set_output \/ stop \/ start \/ user
Spec == Init /\ [][Next]_vars

\* The main loop serves its descriptors and its clock, the event loop its own;
\* the controller keeps sending.
FairSpec ==
  /\ Spec
  /\ WF_vars(read_report) /\ WF_vars(scan) /\ WF_vars(drop)
  /\ WF_vars(subscribe) /\ WF_vars(tick) /\ WF_vars(time_passes)
  /\ WF_vars(tryConnect) /\ WF_vars(onReadable)

-----------------------------------------------------------------------------
(* Properties *)

\* What a game is told by `report` of the controller's report r: the buttons,
\* the charge rounded down within five percent, no finger that is not there, and
\* the newest position of the fingers that fits (a DualShock 4 gets the first
\* three of a Bluetooth batch of four).
Told(report, r) ==
  LET charge == decode_ds4_battery(r.common.status)
      host == HostBattery(report)
      touching == {r.touches[i] : i \in 1 .. r.num_touch}
  IN  /\ HostInput(report) = [axes |-> r.common.axes, dpad |-> r.common.dpad, bits |-> r.common.bits]
      /\ host.state = charge.state
      /\ host.percent \in AtLeast(5, charge.percent) - 5 .. AtLeast(5, charge.percent)
      /\ Fingers(report) \subseteq UNION {{rep[1], rep[2]} : rep \in touching}
      /\ r.num_touch \in 1 .. 3 => HostTouch(report) = r.touches[r.num_touch]

\* Every report of the emulated device tells the game what the controller
\* reported, what the client of a standalone one asked for, or, once the
\* controller is gone, that nothing is pressed (emit_input_report()).
HostSeesPad ==
  [][emitted' \notin {emitted, NoReport} =>
       IF phy /\ pad # NoPad THEN Told(emitted', pad)
       ELSE emitted' = synthetic_report(target_type, IF standalone' THEN synth_state'
                                                     ELSE SyntheticState)]_vars

\* Without a stream the view shows nothing, so no state of an earlier connection
\* passes for a live one (disconnectStream()).
NothingShownOffline == ~connected => shown = Nothing /\ output = NoOutput

\* The sources the view's command asks for.
Followed ==
  (IF allSources \/ ~controller_type_emulates THEN {"physical"} ELSE {})
    \cup (IF device THEN {"virtual"} ELSE {})

\* While a controller stays connected, every source the view follows ends up
\* showing it, through restarts of the daemon, lost streams, older daemons (which
\* tell less of it) and the line protocol ("a dropped stream is retried").
ViewFollowsPad ==
  <>[](active /\ up /\ phy /\ pad # NoPad) =>
    <>[](pad # NoPad /\ \A s \in Followed :
           shown[s] = AsTold(input_state(pad.common, Newest(pad.num_touch, touch_reps(pad)))))

\* A measurement ends while a daemon that measures runs and somebody watches,
\* whether or not a controller reports.
MeasurementEnds ==
  measureWindows > 0 ~> measureWindows = 0 \/ ~active \/ ~up \/ ~all_known

\* "How many one-second windows a measurement averages" (inputmonitor.cpp).
WindowsAreSeconds == "stale" \notin spans

\* "keep displaying its reason instead of a stale snapshot": without a
\* controller the view shows the daemon's note (handleLine()).
NoStaleSnapshot ==
  <>[](active /\ up /\ ~phy) => <>[](shown["physical"] = NoState)

\* "Restart ds4-translator after updating it to watch both."
BothAfterUpdate == <>[](active /\ up /\ all_known) => <>[]allSources
=============================================================================
