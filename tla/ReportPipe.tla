------------------------------ MODULE ReportPipe ------------------------------
(***************************************************************************)
(* What both transports promise the main loop (the comment at the head of  *)
(* usb-hid-transport.h): a descriptor that behaves like a hidraw node.  It *)
(* yields the reports of one connection in order, each once, and hangs up  *)
(* when the controller is lost; after that nothing new arrives.            *)
(***************************************************************************)
EXTENDS Integers, Sequences

VARIABLES
  link,      \* "closed", "open", or "hung_up"
  waiting,   \* the reports poll() would announce
  newest     \* the newest report that ever was in `waiting`

vars == <<link, waiting, newest>>

Init ==
  /\ link = "closed"
  /\ waiting = <<>>
  /\ newest = 0

Open ==
  /\ link = "closed"
  /\ link' = "open"
  /\ waiting' = <<>>
  /\ newest' = 0

Arrive ==
  /\ link = "open"
  /\ newest' \in Nat /\ newest' > newest
  /\ waiting' = Append(waiting, newest')
  /\ UNCHANGED link

Read ==
  /\ waiting # <<>>
  /\ waiting' = Tail(waiting)
  /\ UNCHANGED <<link, newest>>

HangUp ==
  /\ link = "open"
  /\ link' = "hung_up"
  /\ UNCHANGED <<waiting, newest>>

Close ==
  /\ link # "closed"
  /\ link' = "closed"
  /\ waiting' = <<>>
  /\ newest' = 0

Next == Open \/ Arrive \/ Read \/ HangUp \/ Close
Spec == Init /\ [][Next]_vars
=============================================================================
