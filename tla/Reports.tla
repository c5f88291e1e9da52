------------------------------- MODULE Reports -------------------------------
(***************************************************************************)
(* What is in a report (src/main.cpp): how the controller's reports are    *)
(* read, how the reports of the emulated DualShock 4 and DualSense are     *)
(* made from them, and the STATE line of the live view, written by the     *)
(* daemon and read by its clients (src/ipc-client.cpp).                    *)
(*                                                                         *)
(* Sticks, triggers and sensors are opaque values, bytes whose bits matter *)
(* are sets of bits or numbers.                                            *)
(***************************************************************************)
EXTENDS Integers, Sequences

CONSTANTS
  Centred, Still,  \* the sticks and sensors nobody moves
  Absent           \* what a line does not tell: has_motion or has_touch is FALSE

-----------------------------------------------------------------------------
(* Buttons and touch: a button's bit is its place in one of these lists,   *)
(* the high half of byte 0, byte 1 and the low bits of byte 2.             *)

Buttons ==
  {"square", "cross", "circle", "triangle", "l1", "r1", "l2", "r2", "share",
   "options", "l3", "r3", "ps", "touchpad"}

\* build_synthetic_common(), decode_buttons() and format_state_line() have a
\* list each.
SynOrder ==
  <<"square", "cross", "circle", "triangle", "l1", "r1", "l2", "r2", "share",
    "options", "l3", "r3", "ps", "touchpad">>
DecodeOrder ==
  <<"square", "cross", "circle", "triangle", "l1", "r1", "l2", "r2", "share",
    "options", "l3", "r3", "ps", "touchpad">>
Mut_FormatOrder ==
  <<"square", "cross", "circle", "triangle", "l1", "r1", "l2", "r2", "options",
    "share", "l3", "r3", "ps", "touchpad">>
FormatOrder ==
  <<"square", "cross", "circle", "triangle", "l1", "r1", "l2", "r2", "share",
    "options", "l3", "r3", "ps", "touchpad">>

Bits(order, pressed) == {i \in DOMAIN order : order[i] \in pressed}
decode_buttons(bits) == {DecodeOrder[i] : i \in bits}

\* A touch point is four bytes: bit 7 of the first while nothing touches, then
\* two numbers of twelve bits.
Lifted == <<128, 0, 0, 0>>
NotTouched == <<Lifted, Lifted>>
Zeroed == <<<<0, 0, 0, 0>>, <<0, 0, 0, 0>>>>      \* memset
PackedPoint(x, y) == <<0, x % 256, (x \div 256) + 16 * (y % 16), y \div 16>>

decode_touch_point(bytes) ==
  [active |-> bytes[1] < 128,
   x |-> bytes[2] + 256 * (bytes[3] % 16),
   y |-> (bytes[3] \div 16) + 16 * bytes[4]]

-----------------------------------------------------------------------------
(* The common part of a report, a DualShock 4's own layout:                *)
(* [axes, dpad, bits, motion, status], status [cable, level].              *)

NoCharge == [cable |-> FALSE, level |-> 0]

\* SyntheticState: [pressed, dpad, axes].
SyntheticState == [pressed |-> {}, dpad |-> 8, axes |-> Centred]

build_synthetic_common(s) ==
  [axes |-> s.axes, dpad |-> s.dpad % 16, bits |-> Bits(SynOrder, s.pressed),
   motion |-> Still, status |-> NoCharge]

\* A report of the controller is [link, common, num_touch, touches, crc]; USB
\* has room for three touch reports, Bluetooth for four, and a checksum.
Slots(link) == IF link = "usb" THEN 3 ELSE 4

got_report(r) == r.link = "usb" \/ r.crc

touch_reps(r) ==
  [i \in 1 .. 4 |-> IF i <= Slots(r.link) /\ i <= r.num_touch THEN r.touches[i] ELSE Zeroed]

\* The newest touch report of a batch, for the live view.
Newest(num_touch, touches) ==
  IF num_touch = 0 THEN NotTouched ELSE touches[IF num_touch > 4 THEN 4 ELSE num_touch]

-----------------------------------------------------------------------------
(* emit_input_report *)

\* [percent, state]
decode_ds4_battery(status) ==
  IF status.cable
  THEN IF status.level > 10 THEN [percent |-> 100, state |-> "full"]
       ELSE [percent |-> status.level * 10, state |-> "charging"]
  ELSE [percent |-> IF status.level > 8 THEN 100 ELSE (status.level + 1) * 10,
        state |-> "discharging"]

AtMost(bound, n) == IF n > bound THEN bound ELSE n
AtLeast(bound, n) == IF n < bound THEN bound ELSE n

encode_dualsense_battery(b) ==
  [state |-> b.state, level |-> AtMost(10, AtLeast(0, (b.percent - 5) \div 10))]

\* The unused slots are marked as not touched.
ds4_report(common, num_touch, touches, has_real_battery) ==
  [type |-> "ds4",
   common |-> IF has_real_battery THEN common
              ELSE [common EXCEPT !.status = [cable |-> TRUE, level |-> 11]],
   num_touch |-> AtMost(3, num_touch),
   touches |-> [i \in 1 .. 3 |-> IF i <= num_touch THEN touches[i] ELSE NotTouched]]

Mut_dualsense_report(common, num_touch, touches, has_real_battery) ==
  [type |-> "dualsense",
   axes |-> common.axes, dpad |-> common.dpad, bits |-> common.bits, motion |-> common.motion,
   touch |-> touches[1],
   status |-> IF has_real_battery
              THEN encode_dualsense_battery(decode_ds4_battery(common.status))
              ELSE [state |-> "full", level |-> 11]]

\* One touch report, and two bits of the third button byte.
dualsense_report(common, num_touch, touches, has_real_battery) ==
  [type |-> "dualsense",
   axes |-> common.axes, dpad |-> common.dpad, bits |-> common.bits, motion |-> common.motion,
   touch |-> IF num_touch = 0 THEN NotTouched ELSE touches[AtMost(4, num_touch)],
   status |-> IF has_real_battery
              THEN encode_dualsense_battery(decode_ds4_battery(common.status))
              ELSE [state |-> "full", level |-> 11]]

emitted_report(type, common, num_touch, touches, has_real_battery) ==
  IF type = "ds4" THEN ds4_report(common, num_touch, touches, has_real_battery)
  ELSE dualsense_report(common, num_touch, touches, has_real_battery)

\* emit_neutral_report(), and every report of a controller nobody touches.
synthetic_report(type, s) ==
  emitted_report(type, build_synthetic_common(s), 0, [i \in 1 .. 4 |-> Zeroed], FALSE)

-----------------------------------------------------------------------------
(* The STATE line *)

\* What the daemon puts into the line: an InputState.
input_state(common, touch) ==
  [axes |-> common.axes, dpad |-> common.dpad, buttons |-> decode_buttons(common.bits),
   motion |-> common.motion, touch |-> [i \in 1 .. 2 |-> decode_touch_point(touch[i])]]

format_state_line(state) ==
  [axes |-> state.axes, dpad |-> state.dpad % 16, bits |-> Bits(FormatOrder, state.buttons),
   motion |-> state.motion, touch |-> state.touch]

\* The line of an older daemon has neither motion nor touch fields.
older_state(state) ==
  [axes |-> state.axes, dpad |-> state.dpad, buttons |-> state.buttons,
   motion |-> Absent, touch |-> Absent]

\* What the line does not tell stays so.
parse_state(line) ==
  [axes |-> line.axes, dpad |-> line.dpad % 16, buttons |-> decode_buttons(line.bits),
   motion |-> line.motion, touch |-> line.touch]

-----------------------------------------------------------------------------
(* The other side: hid-playstation, as the code relies on it. *)

\* What a game is told by a report: buttons, charge within the resolution of
\* the report, and the fingers on the pad.  A DualShock 4's touch reports are
\* processed in order.
HostBattery(report) ==
  IF report.type = "ds4" THEN decode_ds4_battery(report.common.status)
  ELSE [percent |-> IF report.status.state = "full" THEN 100
                    ELSE AtMost(100, report.status.level * 10 + 5),
        state |-> report.status.state]

HostTouch(report) ==
  IF report.type = "dualsense" THEN report.touch
  ELSE IF report.num_touch = 0 THEN NotTouched ELSE report.touches[report.num_touch]

HostInput(report) ==
  IF report.type = "ds4"
  THEN [axes |-> report.common.axes, dpad |-> report.common.dpad, bits |-> report.common.bits]
  ELSE [axes |-> report.axes, dpad |-> report.dpad, bits |-> report.bits]

\* Everything in a report that looks like a finger, for readers that do not
\* count the touch reports (the comment on the remaining slots).
Fingers(report) ==
  LET reps == IF report.type = "ds4" THEN {report.touches[i] : i \in 1 .. 3} ELSE {report.touch}
  IN  {point \in UNION {{rep[1], rep[2]} : rep \in reps} : point[1] < 128}
=============================================================================
