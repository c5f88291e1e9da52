---------------------------- MODULE MCLiveInput ----------------------------
\* Instance of LiveInput for TLC: reports that differ in the buttons, the charge
\* and the batch of touch reports, one of them damaged.
EXTENDS LiveInput

CONSTANTS Tilted, Moving

Common(bits, cable, level) ==
  [axes |-> Tilted, dpad |-> 8, bits |-> bits, motion |-> Moving,
   status |-> [cable |-> cable, level |-> level]]

Finger(x, y) == <<PackedPoint(x, y), Lifted>>

Raw(l, common, touches, crc) ==
  [link |-> l, common |-> common, num_touch |-> Len(touches), touches |-> touches, crc |-> crc]

MCPads ==
  {Raw("usb", Common({9, 11}, TRUE, 0), <<>>, TRUE),
   Raw("usb", Common({}, TRUE, 11), <<Finger(1919, 941), Finger(258, 19)>>, TRUE),
   Raw("bt", Common({13, 14}, FALSE, 4),
        <<Finger(5, 6), Finger(7, 8), Finger(9, 300), Finger(11, 12)>>, TRUE)}

MCNoise == {Raw("bt", Common({1}, FALSE, 9), <<>>, FALSE)}

MCSynthetics == {[pressed |-> {"share", "ps"}, dpad |-> 0, axes |-> Tilted]}
=============================================================================
