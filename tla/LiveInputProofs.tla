---------------------------- MODULE LiveInputProofs ----------------------------
(***************************************************************************)
(* What a game is told, for every report a controller may send, what is    *)
(* left of a state after the line protocol, and that the live view shows   *)
(* nothing that was not reported.                                          *)
(***************************************************************************)
EXTENDS LiveInput, TLAPS

-----------------------------------------------------------------------------
(* The encodings of Reports *)

\* A touch point survives its packing into three bytes.
THEOREM TouchPointsRoundTrip ==
  ASSUME NEW x \in 0 .. 4095, NEW y \in 0 .. 4095
  PROVE  LET point == decode_touch_point(PackedPoint(x, y))
         IN  point.active /\ point.x = x /\ point.y = y
<1> DEFINE a == x \div 256
           b == x % 256
           c == y \div 16
           d == y % 16
           bytes == PackedPoint(x, y)
<1>1. a \in 0 .. 15 /\ b \in 0 .. 255 /\ x = 256 * a + b
  OBVIOUS
<1>2. c \in 0 .. 255 /\ d \in 0 .. 15 /\ y = 16 * c + d
  OBVIOUS
<1>3. bytes[1] = 0 /\ bytes[2] = b /\ bytes[3] = a + 16 * d /\ bytes[4] = c
  BY DEF PackedPoint
<1> HIDE DEF a, b, c, d, bytes
<1>4. /\ decode_touch_point(bytes).active
      /\ decode_touch_point(bytes).x = 256 * a + b
      /\ decode_touch_point(bytes).y = 16 * c + d
  <2>1. (a + 16 * d) % 16 = a /\ (a + 16 * d) \div 16 = d
    BY <1>1, <1>2, SMTT(60)
  <2>2. bytes[3] % 16 = a /\ bytes[3] \div 16 = d
    BY <1>3, <2>1
  <2> DEFINE down == bytes[1] < 128
             px == bytes[2] + 256 * (bytes[3] % 16)
             py == (bytes[3] \div 16) + 16 * bytes[4]
  <2>3. down /\ px = 256 * a + b /\ py = 16 * c + d
    BY <1>1, <1>2, <1>3, <2>2, SMTT(60)
  <2>4. decode_touch_point(bytes) = [active |-> down, x |-> px, y |-> py]
    BY DEF decode_touch_point
  <2> HIDE DEF down, px, py
  <2> QED BY <2>3, <2>4
<1>5. 256 * a + b = x /\ 16 * c + d = y
  BY <1>1, <1>2, SMTT(60)
<1>6. decode_touch_point(bytes).active /\ decode_touch_point(bytes).x = x /\ decode_touch_point(bytes).y = y
  BY <1>4, <1>5, Zenon
<1> QED BY <1>6, SMTT(60) DEF bytes

\* The three lists of buttons agree, so a state survives the way from its bits
\* into the line and back.
THEOREM StatesSurviveTheLine ==
  ASSUME NEW state, state = [axes |-> state.axes, dpad |-> state.dpad, buttons |-> state.buttons,
                             motion |-> state.motion, touch |-> state.touch],
         state.dpad \in 0 .. 15, state.buttons \subseteq Buttons
  PROVE  parse_state(format_state_line(state)) = state
<1>1. \A pressed \in SUBSET Buttons : decode_buttons(Bits(FormatOrder, pressed)) = pressed
  <2> SUFFICES ASSUME NEW pressed \in SUBSET Buttons
               PROVE  decode_buttons(Bits(FormatOrder, pressed)) = pressed
    OBVIOUS
  <2>1. DOMAIN FormatOrder = 1 .. 14 /\ \A i \in 1 .. 14 : DecodeOrder[i] = FormatOrder[i]
    BY DEF FormatOrder, DecodeOrder
  <2>2. decode_buttons(Bits(FormatOrder, pressed)) =
       {FormatOrder[i] : i \in {j \in 1 .. 14 : FormatOrder[j] \in pressed}}
    BY <2>1 DEF decode_buttons, Bits
  <2>3. \A b \in Buttons : \E i \in 1 .. 14 : FormatOrder[i] = b
    BY DEF FormatOrder, Buttons
  <2> QED BY <2>2, <2>3
<1>2. (state.dpad % 16) % 16 = state.dpad
  OBVIOUS
<1> QED BY <1>1, <1>2 DEF parse_state, format_state_line

\* A charge in the STATE line is the one that was parsed.
LEMMA ChargesAgree ==
  ASSUME NEW status, status.cable \in BOOLEAN, status.level \in 0 .. 15,
         NEW report,
         \/ report.type = "ds4" /\ report.common.status = status
         \/ /\ report.type = "dualsense"
            /\ report.status = encode_dualsense_battery(decode_ds4_battery(status))
  PROVE  /\ HostBattery(report).state = decode_ds4_battery(status).state
         /\ HostBattery(report).percent \in
              AtLeast(5, decode_ds4_battery(status).percent) - 5
                   .. AtLeast(5, decode_ds4_battery(status).percent)
<1> DEFINE p == decode_ds4_battery(status).percent
           s == decode_ds4_battery(status).state
<1>1. PICK k \in 0 .. 10 : p = 10 * k /\ (s = "full" => k = 10)
  BY DEF decode_ds4_battery
<1> HIDE DEF p, s
<1>2. CASE report.type = "ds4"
  <2>1. HostBattery(report) = decode_ds4_battery(status)
    BY <1>2 DEF HostBattery
  <2> QED BY <1>1, <2>1 DEF AtLeast, p, s
<1>3. CASE report.type = "dualsense"
  <2>1. (10 * k - 5) \div 10 = k - 1
    BY <1>1
  <2>2. report.status = [state |-> s, level |-> AtMost(10, AtLeast(0, (p - 5) \div 10))]
    BY <1>3 DEF encode_dualsense_battery, p, s
  <2>3. report.status.state = s /\ report.status.level = IF k = 0 THEN 0 ELSE k - 1
    BY <1>1, <2>1, <2>2 DEF AtMost, AtLeast
  <2>4. /\ HostBattery(report).state = s
        /\ HostBattery(report).percent = IF s = "full" THEN 100 ELSE AtMost(100, report.status.level * 10 + 5)
    BY <1>3, <2>3 DEF HostBattery
  <2> QED BY <1>1, <2>3, <2>4 DEF AtLeast, AtMost, p, s
<1> QED BY <1>2, <1>3

\* What emitted_report() makes of a report tells the game what is in it.
LEMMA ReportsTell ==
  ASSUME NEW type, NEW r \in Pads
  PROVE  Told(emitted_report(type, r.common, r.num_touch, touch_reps(r), TRUE), r)
<1> DEFINE reps == touch_reps(r)
           report == emitted_report(type, r.common, r.num_touch, reps, TRUE)
           touching == {r.touches[i] : i \in 1 .. r.num_touch}
<1>1. /\ r.num_touch \in 0 .. 4
      /\ r.common.status.cable \in BOOLEAN /\ r.common.status.level \in 0 .. 15
      /\ \A i \in 1 .. r.num_touch : i \in 1 .. 4 /\ reps[i] = r.touches[i]
  BY LiveInputAssumption DEF Slots, touch_reps
<1>2. CASE type = "ds4"
  <2>1. /\ report.type = "ds4" /\ report.common = r.common
        /\ report.num_touch = AtMost(3, r.num_touch)
        /\ \A i \in 1 .. 3 : report.touches[i] = IF i <= r.num_touch THEN reps[i] ELSE NotTouched
    BY <1>2 DEF emitted_report, ds4_report
  <2> HIDE DEF report, reps
  <2>2. Fingers(report) \subseteq UNION {{rep[1], rep[2]} : rep \in touching}
    <3>1. ASSUME NEW point \in Fingers(report)
          PROVE  point \in UNION {{rep[1], rep[2]} : rep \in touching}
      <4>1. PICK i \in 1 .. 3 : point \in {report.touches[i][1], report.touches[i][2]} /\ point[1] < 128
        BY <2>1 DEF Fingers
      <4>2. i <= r.num_touch
        BY <2>1, <4>1 DEF NotTouched, Lifted
      <4>3. i \in 1 .. r.num_touch /\ report.touches[i] = r.touches[i]
        BY <1>1, <2>1, <4>2
      <4> QED BY <4>1, <4>3
    <3> QED BY <3>1
  <2>3. r.num_touch \in 1 .. 3 => HostTouch(report) = r.touches[r.num_touch]
    BY <1>1, <2>1 DEF HostTouch, AtMost
  <2>4. HostInput(report) = [axes |-> r.common.axes, dpad |-> r.common.dpad, bits |-> r.common.bits]
    BY <2>1 DEF HostInput
  <2>5. /\ HostBattery(report).state = decode_ds4_battery(r.common.status).state
        /\ HostBattery(report).percent \in
             AtLeast(5, decode_ds4_battery(r.common.status).percent) - 5
               .. AtLeast(5, decode_ds4_battery(r.common.status).percent)
    BY <1>1, <2>1, ChargesAgree
  <2>6. Told(report, r)
    BY <2>2, <2>3, <2>4, <2>5 DEF Told
  <2> QED BY <2>6 DEF report, reps
<1>3. CASE type # "ds4"
  <2>1. /\ report.type = "dualsense"
        /\ report.axes = r.common.axes /\ report.dpad = r.common.dpad /\ report.bits = r.common.bits
        /\ report.touch = IF r.num_touch = 0 THEN NotTouched ELSE reps[AtMost(4, r.num_touch)]
        /\ report.status = encode_dualsense_battery(decode_ds4_battery(r.common.status))
    BY <1>3 DEF emitted_report, dualsense_report
  <2> HIDE DEF report, reps
  <2>2. r.num_touch # 0 => r.num_touch \in 1 .. r.num_touch /\ report.touch = r.touches[r.num_touch]
    BY <1>1, <2>1 DEF AtMost
  <2>3. Fingers(report) \subseteq UNION {{rep[1], rep[2]} : rep \in touching}
    <3>1. ASSUME NEW point \in Fingers(report)
          PROVE  point \in UNION {{rep[1], rep[2]} : rep \in touching}
      <4>1. point \in {report.touch[1], report.touch[2]} /\ point[1] < 128
        BY <2>1 DEF Fingers
      <4>2. r.num_touch # 0
        BY <2>1, <4>1 DEF NotTouched, Lifted
      <4> QED BY <2>2, <4>1, <4>2
    <3> QED BY <3>1
  <2>4. r.num_touch \in 1 .. 3 => HostTouch(report) = r.touches[r.num_touch]
    BY <1>1, <2>1, <2>2 DEF HostTouch
  <2>5. HostInput(report) = [axes |-> r.common.axes, dpad |-> r.common.dpad, bits |-> r.common.bits]
    BY <2>1 DEF HostInput
  <2>6. /\ HostBattery(report).state = decode_ds4_battery(r.common.status).state
        /\ HostBattery(report).percent \in
             AtLeast(5, decode_ds4_battery(r.common.status).percent) - 5
               .. AtLeast(5, decode_ds4_battery(r.common.status).percent)
    BY <1>1, <2>1, ChargesAgree
  <2>7. Told(report, r)
    BY <2>3, <2>4, <2>5, <2>6 DEF Told
  <2> QED BY <2>7 DEF report, reps
<1> QED BY <1>2, <1>3

-----------------------------------------------------------------------------
(* The stream of reports *)

\* A standalone device and a controller exclude each other; without this a
\* heartbeat could overwrite what the controller reports.
IInv ==
  /\ pad \in Pads \cup {NoPad}
  /\ standalone => ~phy

\* Most steps keep IInv by leaving its variables alone.
LEMMA InvIsInductive == (Init => IInv) /\ (IInv /\ [Next]_vars => IInv')
<1>1. Init => IInv
  BY DEF Init, IInv
<1>2. IInv /\ [Next]_vars => IInv'
  BY DEF IInv, Next, Physical, Standalone, Stream, View, vars, link, read_report, read_noise, scan, drop,
     grace_over, create_virtual, input, heartbeat, destroy_virtual, subscribe, tick, time_passes, setActive,
     tryConnect, measure, onReadable, set_output, stop, start, user
<1> QED BY <1>1, <1>2

\* A new report tells what the controller says, or the client without one.
LEMMA EmittedTells ==
  ASSUME IInv, [Next]_vars, emitted' \notin {emitted, NoReport}
  PROVE  IF phy /\ pad # NoPad THEN Told(emitted', pad)
         ELSE emitted' = synthetic_report(target_type, IF standalone' THEN synth_state' ELSE SyntheticState)
<1>1. read_report \/ read_noise \/ drop \/ input \/ heartbeat
  BY DEF Next, Physical, Standalone, Stream, View, vars, latest, scan, grace_over, create_virtual,
     destroy_virtual, subscribe, tick, time_passes, setActive, tryConnect, measure, onReadable, set_output,
     stop, start, user
<1>2. CASE read_report
  <2>1. emitted' = emitted_report(target_type, pad.common, pad.num_touch, touch_reps(pad), TRUE)
    BY <1>2 DEF read_report, forwards, emit_input_report, latest
  <2>2. phy /\ pad # NoPad /\ pad \in Pads
    BY <1>2 DEF read_report, IInv
  <2> QED BY <2>1, <2>2, ReportsTell
<1>3. CASE read_noise
  BY <1>3, LiveInputAssumption DEF read_noise, forwards, latest
<1>4. CASE drop
  <2>1. emitted' = synthetic_report(target_type, SyntheticState) /\ ~standalone' /\ pad = NoPad
    BY <1>4 DEF drop, emit_synthetic, emit_input_report, synthetic_report, IInv
  <2> QED BY <2>1
<1>5. CASE input
  <2>1. emitted' = synthetic_report(target_type, synth_state') /\ standalone' /\ ~phy
    BY <1>5 DEF input, emit_synthetic, emit_input_report, synthetic_report, IInv
  <2> QED BY <2>1
<1>6. CASE heartbeat
  <2>1. emitted' = synthetic_report(target_type, synth_state') /\ standalone' /\ ~phy
    BY <1>6 DEF heartbeat, link, emit_synthetic, emit_input_report, synthetic_report, IInv
  <2> QED BY <2>1
<1> QED BY <1>1, <1>2, <1>3, <1>4, <1>5, <1>6

\* Every report of the emulated device tells the game what the controller, or
\* the client of a standalone device, says.
THEOREM GamesSeeThePad == Spec => HostSeesPad
<1>1. Spec => []IInv
  BY InvIsInductive, PTL DEF Spec
<1> QED BY <1>1, EmittedTells, PTL DEF Spec, HostSeesPad

\* The live view shows nothing of a connection that has ended.
THEOREM NothingIsShownOffline == Spec => []NothingShownOffline
<1>1. Init => NothingShownOffline
  BY DEF Init, NothingShownOffline
<1>2. NothingShownOffline /\ [Next]_vars => NothingShownOffline'
  BY DEF NothingShownOffline, Next, Physical, Standalone, Stream, View, vars, view, read_report, read_noise,
     scan, drop, grace_over, create_virtual, input, heartbeat, destroy_virtual, subscribe, tick, time_passes,
     setActive, connects, disconnectStream, tryConnect, measure, onReadable, set_output, stop, start, user
<1> QED BY <1>1, <1>2, PTL DEF Spec

-----------------------------------------------------------------------------
(* The stream and the view *)

\* There is one stream, of the view that is connected: its command waits, or it is
\* subscribed, or it is going to read that the stream has ended.
StreamInv ==
  /\ ~active => ~connected
  /\ ~connected => request = "none" /\ subscriber = "none" /\ eof = "no" /\ stream = <<>>
  /\ connected => request # "none" \/ subscriber # "none" \/ eof # "no"
  /\ request # "none" => subscriber = "none" /\ eof = "no" /\ stream = <<>>
  /\ subscriber # "none" => eof = "no"

\* A view that was let go is told, by every way a stream ends.
LEMMA NextKeepsStream == StreamInv /\ [Next]_vars => StreamInv'
<1> SUFFICES ASSUME StreamInv, [Next]_vars PROVE StreamInv'
  OBVIOUS
<1> USE DEF StreamInv
<1>1. CASE read_report \/ read_noise \/ scan \/ drop \/ grace_over \/ Standalone \/ time_passes
           \/ measure \/ start \/ user
  <2>1. UNCHANGED <<subscriber, request, stream, eof, active, connected>>
    BY <1>1 DEF read_report, read_noise, scan, drop, grace_over, Standalone, create_virtual, input,
       heartbeat, destroy_virtual, time_passes, measure, start, user, socket, view
  <2> QED BY <2>1
<1>2. CASE set_output
  BY <1>2 DEF set_output, test_log_event, LetGo, view
<1>3. CASE subscribe
  BY <1>3 DEF subscribe, view
<1>4. CASE tick
  BY <1>4 DEF tick, LetGo, view
<1>5. CASE stop
  BY <1>5 DEF stop, view
<1>6. CASE setActive
  BY <1>6 DEF setActive, connects, disconnectStream, socket
<1>7. CASE tryConnect
  BY <1>7 DEF tryConnect, connects, socket
<1>8. CASE onReadable
  BY <1>8 DEF onReadable, disconnectStream
<1>9. CASE UNCHANGED vars
  BY <1>9 DEF vars, socket, view
<1> QED BY <1>1, <1>2, <1>3, <1>4, <1>5, <1>6, <1>7, <1>8, <1>9 DEF Next, Physical, Stream, View

\* A connected view never waits for a stream nobody is going to send.
THEOREM ViewIsNotForgotten == Spec => []StreamInv
<1>1. Init => StreamInv
  BY DEF Init, StreamInv
<1> QED BY <1>1, NextKeepsStream, PTL DEF Spec

\* What a controller, a standalone device and the view of either can be showing.
OfPad == {[common |-> r.common, touch |-> Newest(r.num_touch, touch_reps(r))] : r \in Pads}
OfClient ==
  {[common |-> build_synthetic_common(s), touch |-> NotTouched] : s \in Synthetics \cup {SyntheticState}}
Recorded(s) == OfPad \cup IF s = "physical" THEN {} ELSE OfClient
Reads(s) == {input_state(l.common, l.touch) : l \in Recorded(s)}

\* An older daemon leaves out the sensors and the touch pad.
States(s) == Reads(s) \cup {older_state(state) : state \in Reads(s)}

\* A state of the stream and of the view is one that was reported, by a controller
\* where the view shows the controller's: never a damaged report, never one of a
\* standalone device, and none is changed by the line.
Reported(lines) == \A s \in Sources : lines[s].kind = "state" => lines[s].state \in States(s)

LineSets ==
  {lines \in [Sources -> [kind : {"absent", "note", "state"}, state : States("virtual") \cup {NoState}]] :
     Reported(lines)}
Messages ==
  [lines : LineSets, output : Outputs \cup {NoOutput}, timing : {"none", "over", "stale"}]

LatestInv ==
  /\ pad \in Pads \cup {NoPad}
  /\ synth_state \in Synthetics \cup {SyntheticState}
  /\ last_phy \in Recorded("physical") \cup {NoState}
  /\ last_virtual \in Recorded("virtual") \cup {NoState}

ViewShowsReports == \A s \in Sources : shown[s] \in States(s) \cup {NoState}

ViewInv ==
  /\ LatestInv
  /\ cur \in Outputs
  /\ timing \in {"running", "over", "stale"}
  /\ stream \in Seq(Messages)
  /\ ViewShowsReports

\* A recorded report comes out of its line as it went in.
LEMMA LinesAreFaithful ==
  ASSUME NEW s \in Sources, NEW l \in Recorded(s)
  PROVE  state_line(l).kind = "state" /\ state_line(l).state \in States(s)
<1> DEFINE state == input_state(l.common, l.touch)
           told == AsTold(state)
<1>1. l.common.dpad \in 0 .. 15 /\ l.common.bits \subseteq 1 .. 14
  <2>1. CASE l \in OfPad
    BY <2>1, LiveInputAssumption DEF OfPad
  <2>2. CASE l \in OfClient
    <3>1. PICK c \in Synthetics \cup {SyntheticState} : l.common = build_synthetic_common(c)
      BY <2>2 DEF OfClient
    <3>2. c.dpad \in 0 .. 255
      BY LiveInputAssumption DEF SyntheticState
    <3>3. l.common.dpad = c.dpad % 16 /\ l.common.bits \subseteq DOMAIN SynOrder
      BY <3>1 DEF build_synthetic_common, Bits
    <3>4. DOMAIN SynOrder = 1 .. 14
      BY DEF SynOrder
    <3> QED BY <3>2, <3>3, <3>4
  <2> QED BY <2>1, <2>2 DEF Recorded
<1>2. state.dpad \in 0 .. 15 /\ state.buttons \subseteq Buttons
  <2>1. \A i \in 1 .. 14 : DecodeOrder[i] \in Buttons
    BY DEF DecodeOrder, Buttons
  <2> QED BY <1>1, <2>1 DEF input_state, decode_buttons
<1>3. state = [axes |-> state.axes, dpad |-> state.dpad, buttons |-> state.buttons,
               motion |-> state.motion, touch |-> state.touch]
  BY DEF input_state
<1>4. state_line(l) = [kind |-> "state", state |-> parse_state(format_state_line(told))]
  BY DEF state_line
<1>5. state \in Reads(s)
  BY DEF Reads
<1> HIDE DEF state
<1>6. told = state \/ told = older_state(state)
  BY DEF AsTold
<1>7. told = [axes |-> told.axes, dpad |-> told.dpad, buttons |-> told.buttons,
              motion |-> told.motion, touch |-> told.touch]
  BY <1>3, <1>6 DEF older_state
<1>8. told.dpad \in 0 .. 15 /\ told.buttons \subseteq Buttons
  BY <1>2, <1>6 DEF older_state
<1> HIDE DEF told
<1>9. parse_state(format_state_line(told)) = told
  BY <1>7, <1>8, StatesSurviveTheLine
<1> QED BY <1>4, <1>5, <1>6, <1>9 DEF States

\* What test_broadcast_state() sends.
LEMMA LinesAreReported ==
  ASSUME LatestInv, NEW all \in BOOLEAN
  PROVE  Lines(all) \in LineSets
<1>1. ASSUME NEW s \in Sources
      PROVE  /\ Lines(all)[s] \in [kind : {"absent", "note", "state"},
                                   state : States("virtual") \cup {NoState}]
             /\ Lines(all)[s].kind = "state" => Lines(all)[s].state \in States(s)
  <2>1. Lines(all)[s] \in {Silent, Note}
          \/ \E l \in Recorded(s) : Lines(all)[s] = state_line(l)
    <3>1. CASE s = "virtual"
      BY <3>1 DEF Lines, virtual_line, LatestInv
    <3>2. CASE s = "physical"
      BY <3>2 DEF Lines, physical_line, LatestInv
    <3> QED BY <3>1, <3>2 DEF Sources
  <2>2. CASE Lines(all)[s] \in {Silent, Note}
    BY <2>2 DEF Silent, Note
  <2>3. CASE \E l \in Recorded(s) : Lines(all)[s] = state_line(l)
    <3>1. PICK l \in Recorded(s) : Lines(all)[s] = state_line(l)
      BY <2>3
    <3>2. Lines(all)[s] = [kind |-> "state", state |-> state_line(l).state]
      BY <3>1 DEF state_line
    <3>3. state_line(l).state \in States(s)
      BY LinesAreFaithful
    <3>4. States(s) \subseteq States("virtual")
      BY DEF States, Reads, Recorded
    <3> QED BY <3>2, <3>3, <3>4
  <2> QED BY <2>1, <2>2, <2>3
<1>2. Lines(all) = [s \in Sources |-> Lines(all)[s]]
  BY DEF Lines
<1> QED BY <1>1, <1>2 DEF LineSets, Reported

\* A report is recorded as it is, for the source it belongs to.
LEMMA NextKeepsLatest == LatestInv /\ [Next]_vars => LatestInv'
<1> SUFFICES ASSUME LatestInv, [Next]_vars PROVE LatestInv'
  OBVIOUS
<1>1. /\ Recorded("physical") = OfPad /\ Recorded("virtual") = OfPad \cup OfClient
      /\ \A c \in Synthetics \cup {SyntheticState} :
           [common |-> build_synthetic_common(c), touch |-> NotTouched] \in OfClient
      /\ \A r \in Pads :
           [common |-> r.common, touch |-> Newest(r.num_touch, touch_reps(r))] \in OfPad
  BY DEF Recorded, OfPad, OfClient
<1>2. \A touches : Newest(0, touches) = NotTouched
  BY DEF Newest
<1> USE DEF LatestInv
<1>3. CASE read_report
  <2>1. pad \in Pads
    BY <1>3 DEF read_report
  <2> QED BY <1>1, <1>3, <2>1 DEF read_report, forwards, emit_input_report, Watched, latest, link
<1>4. CASE read_noise
  BY <1>4, LiveInputAssumption DEF read_noise, forwards, latest, link
<1>5. CASE drop \/ input \/ heartbeat \/ destroy_virtual
  BY <1>1, <1>2, <1>5 DEF drop, input, heartbeat, destroy_virtual, emit_synthetic,
     emit_input_report, Watched, link
<1>6. CASE scan \/ grace_over \/ create_virtual \/ stop \/ start \/ user
  BY <1>6 DEF scan, grace_over, create_virtual, stop, start, user, latest, link
<1>7. CASE Stream \/ View \/ set_output
  BY <1>7 DEF Stream, View, subscribe, tick, time_passes, setActive, tryConnect, measure,
     onReadable, set_output, latest, link
<1>8. CASE UNCHANGED vars
  BY <1>8 DEF vars, latest, link
<1> QED BY <1>3, <1>4, <1>5, <1>6, <1>7, <1>8 DEF Next, Physical, Standalone

\* The sequences a stream starts and ends with.
LEMMA ShortSequences ==
  ASSUME NEW S
  PROVE  <<>> \in Seq(S) /\ \A m \in S : <<m>> \in Seq(S)
  OBVIOUS

\* The stream carries and the view applies what was recorded.
LEMMA NextKeepsView == ViewInv /\ [Next]_vars => ViewInv'
<1> SUFFICES ASSUME ViewInv, [Next]_vars PROVE ViewInv'
  OBVIOUS
<1>1. LatestInv'
  BY NextKeepsLatest DEF ViewInv
<1>2. [s \in Sources |-> Silent] \in LineSets
  BY DEF LineSets, Reported, Silent
<1> USE DEF ViewInv
<1>3. CASE Physical \/ Standalone \/ time_passes \/ measure \/ start \/ user \/ tryConnect
  <2>1. UNCHANGED <<cur, stream, shown>> /\ timing' \in {"running", "over", "stale"}
    BY <1>3 DEF Physical, read_report, read_noise, scan, drop, grace_over, Standalone,
       create_virtual, input, heartbeat, destroy_virtual, time_passes, measure, start, user,
       tryConnect, connects, socket, view, broadcast
  <2> QED BY <1>1, <2>1 DEF ViewShowsReports
<1>4. CASE set_output
  BY <1>1, <1>4 DEF set_output, view, broadcast, ViewShowsReports
<1>5. CASE subscribe
  <2> DEFINE header == [lines |-> [s \in Sources |-> Silent],
                        output |-> IF all_known THEN cur ELSE NoOutput, timing |-> "none"]
  <2>1. header \in Messages
    BY <1>2 DEF Messages
  <2>2. stream' = stream \/ stream' = <<header>>
    BY <1>5 DEF subscribe
  <2> HIDE DEF header
  <2>3. stream' \in Seq(Messages)
    BY <2>1, <2>2, ShortSequences
  <2> QED BY <1>1, <1>5, <2>3 DEF subscribe, view, broadcast, ViewShowsReports
<1>6. CASE tick
  <2>1. stream' \in Seq(Messages)
    <3> DEFINE message == [lines |-> Lines(subscriber = "all"),
                           output |-> IF ~all_known \/ broadcast_output = cur THEN NoOutput ELSE cur,
                           timing |-> IF ~all_known \/ timing = "running" THEN "none" ELSE timing]
    <3>1. Lines(subscriber = "all") \in LineSets
      BY LinesAreReported
    <3>2. message \in Messages
      BY <3>1 DEF Messages
    <3>3. stream' = stream \/ stream' = Append(stream, message)
      BY <1>6 DEF tick
    <3> HIDE DEF message
    <3> QED BY <3>2, <3>3
  <2> QED BY <1>1, <1>6, <2>1 DEF tick, view, ViewShowsReports
<1>7. CASE stop
  BY <1>1, <1>7, LiveInputAssumption DEF stop, view, ViewShowsReports
<1>8. CASE setActive
  <2>1. stream' \in Seq(Messages)
    <3>1. stream' = stream \/ stream' = <<>>
      BY <1>8 DEF setActive, connects, disconnectStream, socket
    <3> QED BY <3>1, ShortSequences
  <2>2. ViewShowsReports'
    <3>1. shown' = shown \/ shown' = Nothing
      BY <1>8 DEF setActive, disconnectStream
    <3> QED BY <3>1 DEF Nothing, ViewShowsReports
  <2> QED BY <1>1, <1>8, <2>1, <2>2 DEF setActive, broadcast
<1>9. CASE onReadable
  <2>1. CASE stream # <<>>
    <3>1. stream' = Tail(stream) /\ handleLines(Head(stream).lines)
      BY <1>9, <2>1 DEF onReadable
    <3>2. Head(stream).lines \in LineSets /\ stream' \in Seq(Messages)
      <4>1. Head(stream) \in Messages /\ Tail(stream) \in Seq(Messages)
        BY <2>1
      <4> QED BY <3>1, <4>1 DEF Messages
    <3>3. ViewShowsReports'
      BY <3>1, <3>2 DEF handleLines, ViewShowsReports, LineSets, Reported
    <3> QED BY <1>1, <1>9, <3>2, <3>3 DEF onReadable, broadcast
  <2>2. CASE stream = <<>>
    <3>1. stream' \in Seq(Messages) /\ ViewShowsReports'
      BY <1>9, <2>2 DEF onReadable, disconnectStream, Nothing, ViewShowsReports
    <3> QED BY <1>1, <1>9, <3>1 DEF onReadable, broadcast
  <2> QED BY <2>1, <2>2
<1>10. CASE UNCHANGED vars
  BY <1>1, <1>10 DEF vars, view, broadcast, socket, ViewShowsReports
<1> QED BY <1>3, <1>4, <1>5, <1>6, <1>7, <1>8, <1>9, <1>10 DEF Next, Stream, View

\* The live view shows states that were reported and no others, each under the
\* source it is of, through lost streams, restarts and every subscription.
THEOREM ViewShowsOnlyReports == Spec => []ViewShowsReports
<1>1. Init => ViewInv
  BY LiveInputAssumption DEF Init, Nothing, ViewInv, LatestInv, ViewShowsReports
<1>2. ViewInv => ViewShowsReports
  BY DEF ViewInv
<1> QED BY <1>1, <1>2, NextKeepsView, PTL DEF Spec
=============================================================================
