------------------------ MODULE PhysicalOutputProofs ------------------------
(***************************************************************************)
(* PhysicalOutput for any descriptors, states and number of commands: its  *)
(* threads use the pacer as BtOutputPacer assumes, so what is proved of    *)
(* the pacer holds among them; one thread writes at a time; the controller *)
(* is not left with less than the device last set; and without the OUT     *)
(* thread nothing of a connection outlives it.                             *)
(***************************************************************************)
EXTENDS PhysicalOutput, BtOutputPacerProofs

\* Every report a thread may send is one the pacer takes.
LEMMA ReportsAre ==
  ASSUME NEW f \in Fds \cup {NoFd}, NEW s \in States
  PROVE  <<f, s>> \in Reports /\ <<f, s>>[1] = f
  BY OutputAssumption

\* The steps of a scan, and those that make or destroy the device alone.
Connecting == connect \/ connect_device \/ connect_push
Creating == create_device \/ recreate_device \/ destroy_device

\* What an output report asks for is a state.
LEMMA AskedIsState ==
  ASSUME OutputTypeOK, NEW o \in Outputs
  PROVE  /\ Asked(o) \in States
         /\ output_read(o) => suppress_led' \in BOOLEAN /\ asked' \in Leds
         /\ filtered(o) => last_word' \in Words
<1>1. Asked(o) \in States
  BY DEF OutputTypeOK, Outputs, Asked, LedCounts, States
<1>2. asked \in Leds /\ suppress_led \in BOOLEAN /\ last_word \in Words
  BY DEF OutputTypeOK
<1>3. LedCounts(o) => o.led \in Leds
  BY DEF LedCounts, Outputs
<1>4. output_read(o) => suppress_led' \in BOOLEAN
  BY <1>2 DEF output_read
<1>5. output_read(o) => asked' \in Leds
  BY <1>2, <1>3 DEF output_read
<1>6. filtered(o) => last_word' \in Words
  BY <1>2 DEF filtered, Words
<1> QED BY <1>1, <1>4, <1>5, <1>6

\* Whatever a step does to the pacer's variables is a step of the pacer.
LEMMA StepIsPacerStep == OutputTypeOK /\ [OutputNext]_all_vars => [Next]_vars
<1> SUFFICES ASSUME OutputTypeOK, [OutputNext]_all_vars PROVE [Next]_vars
  OBVIOUS
<1>1. CASE UNCHANGED all_vars
  BY <1>1 DEF all_vars
<1>2. CASE main_submits
  BY <1>2 DEF main_submits, OutputTypeOK, Next
<1>3. ASSUME NEW d \in DupFds, Pusher(d) PROVE [Next]_vars
  <2>1. CASE push_submits(d)
    <3> DEFINE s == Head(push[d].todo)
    <3>1. push[d].todo \in Seq(States \cup {Restore})
      BY DEF OutputTypeOK
    <3>2. Head(push[d].todo) \in States \cup {Restore}
      BY <2>1, <3>1 DEF push_submits
    <3>3. s \in States /\ d \in Fds
      BY <2>1, <3>2 DEF Fds, push_submits
    <3>4. <<d, s>> \in Reports
      BY <3>3, ReportsAre
    <3>5. submit(<<d, s>>)
      BY <2>1 DEF push_submits
    <3> QED BY <3>4, <3>5 DEF Next
  <2>2. CASE push_write_returns(d)
    BY <2>2 DEF push_write_returns, Next
  <2>3. CASE push_reads(d) \/ push_closes(d)
    BY <2>3 DEF push_reads, push_closes, pacer
  <2> QED BY <1>3, <2>1, <2>2, <2>3 DEF Pusher
<1>4. CASE OutLoop
  <2>1. CASE out_picks \/ \E o \in Outputs : out_reads(o)
    BY <2>1 DEF out_reads, out_picks, pacer, OutAt
  <2>2. CASE out_submits
    BY <2>2 DEF out_submits, OutputTypeOK, Next, OutAt
  <2>3. CASE out_write_returns
    BY <2>3 DEF out_write_returns, Next
  <2> QED BY <1>4, <2>1, <2>2, <2>3 DEF OutLoop
<1>5. CASE PacerSteps
  BY <1>5 DEF PacerSteps, Next
<1>6. CASE led_reset \/ identify \/ main_drops \/ main_closes \/ \E s \in States : led_test(s)
  BY <1>6 DEF led_reset, identify, main_drops, main_closes, led_test, pacer
<1>7. CASE Connecting \/ Creating \/ \E o \in Outputs : uhid_output(o)
  BY <1>7 DEF Connecting, Creating, connect, connect_device, connect_push, create_device,
              recreate_device, destroy_device, uhid_output, pacer
<1>8. CASE main_write_returns \/ main_discards \/ main_stops \/ main_exits
  BY <1>8 DEF main_write_returns, main_discards, main_stops, main_exits, Next
<1> QED BY <1>1, <1>2, <1>3, <1>4, <1>5, <1>6, <1>7, <1>8
        DEF OutputNext, MainLoop, Connecting, Creating

Pushes == [DupFds -> [pc : {"idle", "submit", "writing"}, todo : Seq(States \cup {Restore})]]

\* A detached thread that moves on keeps the type of the others.
LEMMA PushMoves ==
  ASSUME push \in Pushes, NEW d \in DupFds,
         NEW p \in {"idle", "submit", "writing"},
         NEW t \in Seq(States \cup {Restore})
  PROVE  [push EXCEPT ![d] = [pc |-> p, todo |-> t]] \in Pushes
<1> DEFINE Push == [pc : {"idle", "submit", "writing"}, todo : Seq(States \cup {Restore})]
<1>1. [pc |-> p, todo |-> t] \in Push
  OBVIOUS
<1> HIDE DEF Push
<1>2. push \in [DupFds -> Push]
  BY DEF Pushes, Push
<1>3. [push EXCEPT ![d] = [pc |-> p, todo |-> t]] \in [DupFds -> Push]
  BY <1>1, <1>2
<1> QED BY <1>3 DEF Pushes, Push

Mains == [pc : MainSteps, report : Reports \cup {NoReport}, own : BOOLEAN]

\* The main loop's places and the reports it is about to submit.
LEMMA MainMoves ==
  /\ \A pc \in MainSteps : MainAt(pc) \in Mains /\ MainAt(pc).pc = pc
  /\ \A r \in Reports, b \in BOOLEAN : [pc |-> "submit", report |-> r, own |-> b] \in Mains
<1>1. \A pc \in MainSteps : MainAt(pc) \in Mains /\ MainAt(pc).pc = pc
  BY DEF MainAt, Mains
<1>2. "submit" \in MainSteps
  BY DEF MainSteps
<1> HIDE DEF MainSteps
<1>3. \A r \in Reports, b \in BOOLEAN : [pc |-> "submit", report |-> r, own |-> b] \in Mains
  BY <1>2 DEF Mains
<1> QED BY <1>1, <1>3

\* The threads' own variables keep their types.
LEMMA TypesAreKept == OutputTypeOK /\ [OutputNext]_all_vars /\ TypeOK' => OutputTypeOK'
<1> SUFFICES ASSUME OutputTypeOK, [OutputNext]_all_vars, TypeOK' PROVE OutputTypeOK'
  OBVIOUS
<1> USE OutputAssumption, ReportsAre
<1>0. PhyFds \subseteq Fds /\ DupFds \subseteq Fds /\ push \in Pushes
  BY DEF Fds, OutputTypeOK, Pushes
<1>1. CASE UNCHANGED all_vars
  BY <1>1 DEF all_vars, output, history, OutputTypeOK
<1>2. ASSUME NEW d \in DupFds, Pusher(d) PROVE OutputTypeOK'
  <2>1. CASE push_submits(d)
    <3>1. Tail(push[d].todo) \in Seq(States \cup {Restore})
      <4>1. push[d].todo \in Seq(States \cup {Restore})
        BY DEF OutputTypeOK
      <4> QED BY <2>1, <4>1 DEF push_submits
    <3> DEFINE p == IF submitting' THEN "writing" ELSE "submit"
    <3>2. p \in {"idle", "submit", "writing"}
      OBVIOUS
    <3>3. push' = [push EXCEPT ![d] = [pc |-> p, todo |-> Tail(push[d].todo)]]
      BY <2>1 DEF push_submits
    <3> HIDE DEF p
    <3>4. push' \in Pushes
      BY <1>0, <3>1, <3>2, <3>3, PushMoves
    <3> QED BY <2>1, <3>4 DEF push_submits, OutputTypeOK, Pushes, Words
  <2>2. CASE push_write_returns(d)
    <3> DEFINE Push == [pc : {"idle", "submit", "writing"}, todo : Seq(States \cup {Restore})]
    <3>1. push \in [DupFds -> Push] /\ push[d] \in Push
      BY <1>0 DEF Pushes
    <3>2. [push[d] EXCEPT !.pc = "submit"] = [pc |-> "submit", todo |-> push[d].todo]
      BY <3>1
    <3>3. push' = [push EXCEPT ![d] = [push[d] EXCEPT !.pc = "submit"]]
      BY <2>2 DEF push_write_returns
    <3>4. push[d].todo \in Seq(States \cup {Restore})
      BY <3>1
    <3>5. push' = [push EXCEPT ![d] = [pc |-> "submit", todo |-> push[d].todo]]
      BY <3>2, <3>3
    <3>6. push' \in Pushes
      <4> DEFINE todo == push[d].todo
      <4>1. todo \in Seq(States \cup {Restore}) /\ "submit" \in {"idle", "submit", "writing"}
        BY <3>4
      <4>2. push' = [push EXCEPT ![d] = [pc |-> "submit", todo |-> todo]]
        BY <3>5
      <4> HIDE DEF todo
      <4> QED BY <1>0, <4>1, <4>2, PushMoves
    <3> QED BY <2>2, <3>6 DEF push_write_returns, history, OutputTypeOK, Pushes
  <2>3. CASE push_closes(d)
    <3>1. push' = [push EXCEPT ![d] = [pc |-> "idle", todo |-> <<>>]]
      BY <2>3 DEF push_closes, Idle
    <3>2. <<>> \in Seq(States \cup {Restore})
      OBVIOUS
    <3>3. push' \in Pushes
      BY <1>0, <3>1, <3>2, PushMoves
    <3> QED BY <2>3, <3>3 DEF push_closes, history, OutputTypeOK, Pushes
  <2>4. CASE push_reads(d)
    <3> DEFINE todo == <<cur>> \o Tail(push[d].todo)
    <3>1. push[d].todo \in Seq(States \cup {Restore}) /\ cur \in States
      BY DEF OutputTypeOK
    <3>2. Tail(push[d].todo) \in Seq(States \cup {Restore}) /\ <<cur>> \in Seq(States \cup {Restore})
      BY <2>4, <3>1 DEF push_reads
    <3>3. todo \in Seq(States \cup {Restore})
      BY <3>2
    <3>4. push' = [push EXCEPT ![d] = [pc |-> "submit", todo |-> todo]]
      BY <2>4 DEF push_reads
    <3> HIDE DEF todo
    <3>5. push' \in Pushes
      <4>1. "submit" \in {"idle", "submit", "writing"}
        OBVIOUS
      <4> QED BY <1>0, <3>3, <3>4, <4>1, PushMoves
    <3> QED BY <2>4, <3>5 DEF push_reads, history, OutputTypeOK, Pushes
  <2> QED BY <1>2, <2>1, <2>2, <2>3, <2>4 DEF Pusher
<1>3. CASE OutLoop
  <2>1. ASSUME NEW o \in Outputs, out_reads(o) PROVE OutputTypeOK'
    <3>1. /\ cur' \in States
          /\ out' \in {out, OutAt("changed")}
          /\ UNCHANGED <<phy_fd, open, vdev, main, push, tests>>
      BY <2>1, AskedIsState DEF out_reads, filtered, OutputTypeOK, OutAt
    <3>2. suppress_led' \in BOOLEAN /\ asked' \in Leds
      BY <2>1, AskedIsState DEF out_reads, OutAt
    <3>3. last_word' \in Words
      BY <2>1, AskedIsState DEF out_reads, OutputTypeOK, OutAt
    <3> QED BY <2>1, <3>1, <3>2, <3>3 DEF out_reads, OutputTypeOK, OutAt
  <2>4. CASE out_picks
    <3>1. <<phy_fd, cur>> \in Reports
      BY <1>0, ReportsAre DEF OutputTypeOK
    <3> QED BY <2>4, <3>1 DEF out_picks, history, OutputTypeOK
  <2>2. CASE out_submits
    BY <2>2 DEF out_submits, OutputTypeOK, OutIdle, Words, OutAt
  <2>3. CASE out_write_returns
    BY <2>3 DEF out_write_returns, history, OutputTypeOK, OutIdle, OutAt
  <2> QED BY <1>3, <2>1, <2>2, <2>3, <2>4 DEF OutLoop
<1>4. CASE PacerSteps
  BY <1>4 DEF PacerSteps, output, history, OutputTypeOK
<1>5. CASE Connecting
  <2>1. CASE connect
    BY <1>0, <2>1 DEF connect, OutputTypeOK, MainSteps, Words, MainAt
  <2>2. CASE connect_device
    <3>1. cur.led \in Leds
      BY DEF OutputTypeOK, States
    <3>2. /\ vdev' \in Devices /\ asked' \in Leds /\ suppress_led' \in BOOLEAN
          /\ main' \in {MainAt("push"), Polling, MainAt("discard")}
      BY <2>2, <3>1 DEF connect_device, created, Devices, OutputTypeOK, MainAt
    <3>3. main' \in Mains /\ main'.pc \in {"push", "poll", "discard"}
      <4>1. {"push", "poll", "discard"} \subseteq MainSteps
        BY DEF MainSteps
      <4> QED BY <3>2, <4>1, MainMoves DEF Polling
    <3> QED BY <2>2, <3>2, <3>3 DEF connect_device, OutputTypeOK, Mains
  <2>3. CASE connect_push
    <3> DEFINE todo == <<[motor |-> MotorsOff, led |-> cur.led]>>
    <3>1. [motor |-> MotorsOff, led |-> cur.led] \in States \cup {Restore}
      BY DEF OutputTypeOK, States
    <3>2. todo \in Seq(States \cup {Restore}) /\ "submit" \in {"idle", "submit", "writing"}
      BY <3>1
    <3>3. detach(todo)
      BY <2>3 DEF connect_push
    <3> HIDE DEF todo
    <3>4. \A d \in DupFds : [push EXCEPT ![d] = [pc |-> "submit", todo |-> todo]] \in Pushes
      BY <1>0, <3>2, PushMoves
    <3>5. push' \in Pushes /\ open' \in SUBSET Fds
      BY <1>0, <3>3, <3>4 DEF detach, OutputTypeOK
    <3> QED BY <2>3, <3>5 DEF connect_push, history, OutputTypeOK, Pushes, MainSteps, Polling, MainAt
  <2> QED BY <1>5, <2>1, <2>2, <2>3 DEF Connecting
<1>12. CASE Creating
  <2>1. cur.led \in Leds
    BY DEF OutputTypeOK, States
  <2>2. vdev' \in Devices /\ asked' \in Leds /\ suppress_led' \in BOOLEAN
    BY <1>12, <2>1 DEF Creating, create_device, recreate_device, destroy_device, created, history,
                       Devices, OutputTypeOK
  <2> QED BY <1>12, <2>2 DEF Creating, create_device, recreate_device, destroy_device, history,
             OutputTypeOK
<1>6. CASE identify
  <2>1. PICK s \in States, t \in States : detach(<<s, t, Restore>>)
    BY <1>6 DEF identify
  <2>2. <<s, t, Restore>> \in Seq(States \cup {Restore})
    OBVIOUS
  <2>3. push' \in Pushes
    <3> DEFINE todo == <<s, t, Restore>>
    <3>1. todo \in Seq(States \cup {Restore}) /\ "submit" \in {"idle", "submit", "writing"}
      BY <2>2
    <3> HIDE DEF todo
    <3>2. \A d \in DupFds : [push EXCEPT ![d] = [pc |-> "submit", todo |-> todo]] \in Pushes
      BY <1>0, <3>1, PushMoves
    <3>3. \/ push' = push
          \/ \E d \in DupFds : push' = [push EXCEPT ![d] = [pc |-> "submit", todo |-> todo]]
      BY <2>1 DEF detach, todo
    <3> QED BY <1>0, <3>2, <3>3
  <2>4. open' \in SUBSET Fds
    BY <1>0, <2>1 DEF detach, OutputTypeOK
  <2> QED BY <1>6, <2>3, <2>4 DEF identify, history, OutputTypeOK, Pushes
<1>7. CASE led_reset
  BY <1>0, <1>7 DEF led_reset, history, OutputTypeOK, MainSteps
<1>8. ASSUME NEW o \in Outputs, uhid_output(o) PROVE OutputTypeOK'
  <2>1. Asked(o) \in States /\ suppress_led' \in BOOLEAN /\ asked' \in Leds
    BY <1>8, AskedIsState DEF uhid_output
  <2>2. last_word' \in Words
    BY <1>8, AskedIsState DEF uhid_output, OutputTypeOK
  <2>3. /\ cur' \in States
        /\ \/ main' = main
           \/ main' = [pc |-> "submit", report |-> <<phy_fd, Asked(o)>>, own |-> TRUE]
        /\ UNCHANGED <<phy_fd, open, vdev, push, out, tests>>
    BY <1>8, <2>1 DEF uhid_output, filtered, OutputTypeOK
  <2>4. <<phy_fd, Asked(o)>> \in Reports
    BY <1>0, <2>1, ReportsAre DEF OutputTypeOK
  <2>5. main' \in Mains /\ (main'.pc = "submit" => main'.report \in Reports)
    <3>1. CASE main' = main
      BY <3>1 DEF OutputTypeOK, Mains
    <3>2. CASE main' = [pc |-> "submit", report |-> <<phy_fd, Asked(o)>>, own |-> TRUE]
      <4> DEFINE r == <<phy_fd, Asked(o)>>
      <4>1. main' = [pc |-> "submit", report |-> r, own |-> TRUE] /\ r \in Reports
        BY <2>4, <3>2
      <4> HIDE DEF r
      <4> QED BY <4>1 DEF Mains, MainSteps
    <3> QED BY <2>3, <3>1, <3>2
  <2> QED BY <2>1, <2>2, <2>3, <2>5 DEF OutputTypeOK, Mains
<1>13. ASSUME NEW s \in States, led_test(s) PROVE OutputTypeOK'
  BY <1>0, <1>13 DEF led_test, history, OutputTypeOK, MainSteps
<1>9. ASSUME main_submits \/ main_write_returns \/ main_drops \/ main_discards \/ main_stops
                \/ main_closes \/ main_exits
      PROVE  OutputTypeOK'
  <2>1. \E pc \in {"poll", "writing", "discard", "close", "join", "down"} : main' = MainAt(pc)
    BY <1>9 DEF main_submits, main_write_returns, main_drops, main_discards, main_stops, main_closes,
               main_exits, Polling
  <2>2. {"poll", "writing", "discard", "close", "join", "down"} \subseteq MainSteps
    BY DEF MainSteps
  <2>3. main' \in Mains /\ main'.pc # "submit"
    BY <2>1, <2>2, MainMoves
  <2>4. open' \in SUBSET Fds /\ phy_fd' \in PhyFds \cup {NoFd} /\ last_word' \in Words
    BY <1>9 DEF main_submits, main_write_returns, main_drops, main_discards, main_stops, main_closes,
               main_exits, history, Words, OutputTypeOK
  <2>5. UNCHANGED <<vdev, cur, suppress_led, push, out, tests, asked>>
    BY <1>9 DEF main_submits, main_write_returns, main_drops, main_discards, main_stops, main_closes,
               main_exits, history
  <2> QED BY <2>3, <2>4, <2>5 DEF OutputTypeOK, Mains
<1> QED BY <1>1, <1>2, <1>3, <1>4, <1>5, <1>6, <1>7, <1>8, <1>9, <1>12, <1>13
        DEF OutputNext, MainLoop, Connecting, Creating

\* Every variable of the threads keeps its type (bt_output_pacer's users in
\* main() and in functionfs-backend.c).
THEOREM OutputTypeCorrect == OutputSpec => []OutputTypeOK
<1>1. OutputInit => OutputTypeOK /\ IInv
  <2> SUFFICES ASSUME OutputInit PROVE OutputTypeOK /\ IInv
    OBVIOUS
  <2>1. IInv
    BY InitEstablishesIInv DEF OutputInit
  <2>2. [motor |-> MotorsOff, led |-> DefaultLed] \in States
    BY OutputAssumption DEF States
  <2>3. push \in Pushes
    <3>1. Idle \in [pc : {"idle", "submit", "writing"}, todo : Seq(States \cup {Restore})]
      BY DEF Idle
    <3> QED BY <3>1 DEF OutputInit, Pushes
  <2> QED BY OutputAssumption, <2>1, <2>2, <2>3
         DEF OutputInit, OutputTypeOK, IInv, Polling, OutIdle, Pushes, MainSteps, Words, Devices, MainAt, OutAt
<1>2. OutputTypeOK /\ IInv /\ [OutputNext]_all_vars => (OutputTypeOK /\ IInv)'
  <2> SUFFICES ASSUME OutputTypeOK, IInv, [OutputNext]_all_vars
               PROVE  OutputTypeOK' /\ IInv'
    OBVIOUS
  <2>1. IInv'
    BY StepIsPacerStep, NextPreservesIInv
  <2>2. TypeOK'
    BY <2>1 DEF IInv
  <2> QED BY <2>1, <2>2, TypesAreKept
<1> QED BY <1>1, <1>2, PTL DEF OutputSpec

\* The main loop, the detached threads and the OUT thread use the pacer as it
\* asks to be used (submit(), discard_pending(), one stop()): their composition
\* is a behaviour of the pacer, so everything proved of it holds here.
THEOREM ThreadsUsePacer == OutputSpec => Spec
<1>1. OutputInit => Init
  BY DEF OutputInit
<1> QED BY <1>1, StepIsPacerStep, OutputTypeCorrect, PTL DEF OutputSpec, Spec

-----------------------------------------------------------------------------
\* What belongs to the present connection, when no OUT thread runs: the report
\* the main loop is about to send, the one the pacer holds and the one that is
\* being written.  From the discard on, until phy_fd is closed, there is none.
Gone == main.pc \in {"close", "join", "down"}

OfConnection(r) == r[1] \in PhyFds => r[1] = phy_fd /\ ~Gone

ConnectionInv ==
  /\ OutputTypeOK
  /\ out = OutIdle
  /\ phy_fd # NoFd => phy_fd \in open
  /\ main.pc = "submit" => main.report[1] = phy_fd
  /\ pending # NoReport => OfConnection(pending)
  /\ Writing => OfConnection(wire)

\* A submit of the main loop or of a detached thread leaves with the pacer only
\* what was there and the report it brings.
LEMMA Submitting ==
  ASSUME NEW r, submit(r)
  PROVE  /\ pending' # NoReport => pending' \in {pending, r}
         /\ Writing' => wire' = r
         /\ ~Writing
<1>1. CASE submit_direct(r)
  BY <1>1 DEF submit, submit_direct, write_locked, Writing, mutex_free
<1>2. CASE submit_throttled(r)
  BY <1>2 DEF submit, submit_throttled, flush_started, notified, Writing, mutex_free
<1> QED BY <1>1, <1>2 DEF submit

\* The flush thread writes nothing but what was held.
LEMMA Flushing ==
  ASSUME FlushThread \/ flush_spurious_wake \/ Tick
  PROVE  /\ pending' # NoReport => pending' = pending
         /\ Writing' => \/ wire' = pending /\ pending # NoReport
                        \/ wire' = wire /\ Writing
  BY DEF FlushThread, flush_loop, flush_parks, flush_waits, flush_writes, write_locked,
         flush_write_returns, flush_timeout, flush_exits, flush_spurious_wake, Tick, Writing

\* No step leaves anything of a connection behind that has ended.
LEMMA ConnectionIsKept ==
  ASSUME ~OutThread
  PROVE  ConnectionInv /\ OutputTypeOK' /\ [OutputNext]_all_vars => ConnectionInv'
<1> SUFFICES ASSUME ConnectionInv, OutputTypeOK', [OutputNext]_all_vars
             PROVE  ConnectionInv'
  OBVIOUS
<1> USE OutputAssumption
    DEF ConnectionInv, OutputTypeOK, OfConnection, Gone, Fds
<1>1. CASE UNCHANGED all_vars
  BY <1>1 DEF all_vars, vars, output, Writing
<1>2. ASSUME NEW d \in DupFds, Pusher(d) PROVE ConnectionInv'
  <2>1. CASE push_submits(d)
    <3> DEFINE s == Head(push[d].todo)
    <3>1. submit(<<d, s>>) /\ UNCHANGED <<phy_fd, open, main, out>>
      BY <2>1 DEF push_submits
    <3>2. OfConnection(<<d, s>>)
      OBVIOUS
    <3> QED BY <3>1, <3>2, Submitting
  <2>2. CASE push_write_returns(d)
    BY <2>2 DEF push_write_returns, submit_returns, Writing
  <2>3. CASE push_reads(d) \/ push_closes(d)
    BY <2>3 DEF push_reads, push_closes, pacer, vars, Writing
  <2> QED BY <1>2, <2>1, <2>2, <2>3 DEF Pusher
<1>3. CASE OutLoop
  BY <1>3 DEF OutLoop, out_reads, out_picks, out_submits, out_write_returns, OutIdle, OutAt
<1>4. CASE PacerSteps
  BY <1>4, Flushing DEF PacerSteps, output
<1>5. CASE Connecting
  BY <1>5 DEF Connecting, connect, connect_device, connect_push, detach, Polling, pacer, vars, Writing, MainAt
<1>15. CASE Creating
  BY <1>15 DEF Creating, create_device, recreate_device, destroy_device, pacer, vars, Writing
<1>6. CASE led_reset \/ (\E s \in States : led_test(s)) \/ \E o \in Outputs : uhid_output(o)
  BY <1>6 DEF led_reset, uhid_output, led_test, pacer, vars, Writing
<1>7. CASE identify
  BY <1>7 DEF identify, detach, pacer, vars, Writing
<1>8. CASE main_submits
  <2>1. /\ submit(main.report) /\ main.pc = "submit"
        /\ main' \in {MainAt("writing"), Polling}
        /\ UNCHANGED <<phy_fd, open, out>>
    BY <1>8 DEF main_submits, MainAt, Polling
  <2>2. main'.pc \in {"writing", "poll"}
    BY <2>1 DEF Polling, MainAt
  <2> QED BY <2>1, <2>2, Submitting
<1>9. CASE main_write_returns
  BY <1>9 DEF main_write_returns, submit_returns, Writing, Polling, MainAt
<1>10. CASE main_drops
  BY <1>10 DEF main_drops, pacer, vars, Writing, MainAt
<1>11. CASE main_discards
  BY <1>11 DEF main_discards, discard_pending, mutex_free, Writing, MainAt
<1>12. CASE main_closes
  BY <1>12 DEF main_closes, pacer, vars, Writing, Polling, MainAt
<1>13. CASE main_stops
  BY <1>13 DEF main_stops, stop, mutex_free, notified, Writing, MainAt
<1>14. CASE main_exits
  BY <1>14 DEF main_exits, stop_returns, Writing, MainAt
<1> QED BY <1>1, <1>2, <1>3, <1>4, <1>5, <1>6, <1>7, <1>8, <1>9, <1>10, <1>11,
           <1>12, <1>13, <1>14, <1>15 DEF OutputNext, MainLoop, Connecting, Creating

\* Without the OUT thread, what the pacer holds or writes for a connection is of
\* the present one, whoever put it there.
THEOREM ConnectionInvariant ==
  ASSUME ~OutThread
  PROVE  OutputSpec => []ConnectionInv
<1>1. OutputInit /\ OutputTypeOK => ConnectionInv
  BY DEF OutputInit, Init, ConnectionInv, Polling, Writing, MainAt
<1> QED BY <1>1, ConnectionIsKept, OutputTypeCorrect, PTL DEF OutputSpec

\* release_physical_connection() leaves nothing queued for the descriptor it
\* closes, for any number of descriptors, commands and detached threads.
THEOREM NothingHeldForTheGone ==
  ASSUME ~OutThread
  PROVE  OutputSpec => []HeldForThisConnection
<1>1. ConnectionInv => HeldForThisConnection
  BY DEF ConnectionInv, OfConnection, HeldForThisConnection
<1> QED BY <1>1, ConnectionInvariant, PTL

\* "so the flush thread can never write to an fd that has since been closed":
\* a write to a descriptor of the connection is to an open one.
THEOREM WritesFindTheConnection ==
  ASSUME ~OutThread
  PROVE  OutputSpec => []OwnDescriptorIsOpen
<1>1. ConnectionInv => OwnDescriptorIsOpen
  <2> SUFFICES ASSUME ConnectionInv, Writing, wire[1] \in PhyFds PROVE wire[1] \in open
    BY DEF OwnDescriptorIsOpen
  <2> QED BY OutputAssumption DEF ConnectionInv, OfConnection, Fds
<1> QED BY <1>1, ConnectionInvariant, PTL

-----------------------------------------------------------------------------
\* What the pacer promises, promised to the threads that share it: the newest
\* report is the one that stays, writes keep their distance, whoever writes, and
\* the whole is the register with a rate cap that the class comment describes.
THEOREM ThreadsArePaced == OutputSpec => []NewestReportWins /\ RateCapped /\ ImplementsPacedOutput
  BY ThreadsUsePacer, NewestReportAlwaysWins, RateIsCapped, PacerImplementsPacedOutput, PTL

\* Types and pacer together, as the invariants below need them.
LEMMA ThreadsKeepPacer == OutputSpec => [](OutputTypeOK /\ IInv)
  BY OutputTypeCorrect, ThreadsUsePacer, InductiveInvariant, PTL

-----------------------------------------------------------------------------
\* The emulated device's report is on its way from cur_* to the pacer.
OwnOnItsWay == out.pc \in {"changed", "submit"} \/ (main.pc = "submit" /\ main.own)

\* Only one thread hears the device, and what it is about to submit is the state
\* recorded last.  Once such a report is the last one submitted, it has stayed the
\* state recorded last, and the pacer's newest report for this connection.
FollowInv ==
  /\ ~OutThread => out.pc = "read"
  /\ main.pc = "submit" /\ main.own => ~OutThread /\ main.report = <<phy_fd, cur>>
  /\ out.pc = "submit" => out.report[2] = cur
  /\ last_word = "device" /\ phy_fd # NoFd /\ ~OwnOnItsWay => newest = <<phy_fd, cur>>

\* A submit makes its report the newest; the flush thread and the clock, and a
\* write that returns, leave it.
LEMMA NewestMoves ==
  /\ \A r : submit(r) => newest' = r
  /\ FlushThread \/ flush_spurious_wake \/ Tick \/ submit_returns \/ stop_returns => newest' = newest
  /\ discard_pending \/ stop => newest' = NoReport
  BY DEF submit, discard_pending, stop, FlushThread, flush_loop, flush_write_returns, flush_timeout,
         flush_exits, flush_spurious_wake, Tick, submit_returns, stop_returns

\* What nobody hears moves neither the state recorded nor the last word.
LEMMA QuietStep ==
  ASSUME FollowInv, cur' = cur, newest' = newest, out' = out,
         phy_fd' = phy_fd \/ phy_fd' = NoFd,
         last_word' \in {last_word, "none"},
         main'.pc # "submit" \/ ~main'.own,
         main.pc # "submit"
  PROVE  FollowInv'
  BY DEF FollowInv, OwnOnItsWay

\* Somebody else's report ends the device's word.
LEMMA OtherSpeaks ==
  ASSUME FollowInv, cur' = cur, out' = out, main' = main, phy_fd' = phy_fd, last_word' = "push"
  PROVE  FollowInv'
  BY DEF FollowInv, OwnOnItsWay

\* The threads that hear the device submit every change of its state before
\* another, and whoever else submits, or drops the connection, takes the word.
LEMMA FollowingIsKept == OutputTypeOK /\ FollowInv /\ [OutputNext]_all_vars => FollowInv'
<1> SUFFICES ASSUME OutputTypeOK, FollowInv, [OutputNext]_all_vars PROVE FollowInv'
  OBVIOUS
<1> USE OutputAssumption
<1>0. /\ main = [pc |-> main.pc, report |-> main.report, own |-> main.own] /\ main.own \in BOOLEAN
      /\ out = [pc |-> out.pc, report |-> out.report]
      /\ out.pc \in {"read", "changed", "submit", "writing"}
      /\ phy_fd \in PhyFds \cup {NoFd} /\ NoFd \notin PhyFds
  BY DEF OutputTypeOK, Fds
<1>1. CASE UNCHANGED all_vars
  BY <1>1 DEF all_vars, vars, output, history, FollowInv, OwnOnItsWay
<1>2. ASSUME NEW d \in DupFds, Pusher(d) PROVE FollowInv'
  <2>1. CASE push_submits(d)
    BY <2>1, OtherSpeaks DEF push_submits
  <2>2. CASE push_write_returns(d)
    BY <2>2, NewestMoves DEF push_write_returns, history, FollowInv, OwnOnItsWay
  <2>3. CASE push_reads(d) \/ push_closes(d)
    BY <2>3 DEF push_reads, push_closes, pacer, vars, history, FollowInv, OwnOnItsWay
  <2> QED BY <1>2, <2>1, <2>2, <2>3 DEF Pusher
<1>3. CASE OutLoop
  <2>1. ASSUME NEW o \in Outputs, out_reads(o) PROVE FollowInv'
    <3>1. CASE phy_fd = NoFd \/ Asked(o) = cur
      BY <2>1, <3>1 DEF out_reads, filtered, pacer, vars, FollowInv, OwnOnItsWay, OutAt
    <3>2. CASE ~(phy_fd = NoFd \/ Asked(o) = cur)
      <4>1. out'.pc = "changed" /\ OutThread /\ main' = main
        BY <1>0, <2>1, <3>2 DEF out_reads, OutAt
      <4> QED BY <4>1 DEF FollowInv, OwnOnItsWay
    <3> QED BY <3>1, <3>2
  <2>2. CASE out_picks
    <3>1. out' = [pc |-> "submit", report |-> <<phy_fd, cur>>] /\ UNCHANGED <<main, cur, phy_fd>>
      BY <2>2 DEF out_picks
    <3>2. OutThread
      BY <2>2 DEF out_picks, FollowInv
    <3> QED BY <3>1, <3>2 DEF FollowInv, OwnOnItsWay
  <2>3. CASE out_submits
    <3>1. newest' = out.report /\ out'.pc \in {"read", "writing"} /\ UNCHANGED <<main, cur, phy_fd>>
      BY <2>3, NewestMoves DEF out_submits, OutIdle, OutAt
    <3>2. OutThread /\ out.report[2] = cur /\ out.report \in Reports
      BY <2>3 DEF out_submits, FollowInv, OutputTypeOK, OutAt
    <3>3. out.report = <<out.report[1], out.report[2]>>
      BY <3>2
    <3>4. last_word' = "device" => newest' = <<phy_fd, cur>>
      BY <2>3, <3>1, <3>2, <3>3 DEF out_submits, OutAt
    <3> QED BY <3>1, <3>2, <3>4 DEF FollowInv, OwnOnItsWay
  <2>4. CASE out_write_returns
    BY <2>4, NewestMoves DEF out_write_returns, history, OutIdle, FollowInv, OwnOnItsWay, OutAt
  <2> QED BY <1>3, <2>1, <2>2, <2>3, <2>4 DEF OutLoop
<1>4. CASE PacerSteps
  BY <1>4, NewestMoves DEF PacerSteps, output, history, FollowInv, OwnOnItsWay
<1>5. CASE Connecting
  <2>1. CASE connect
    BY <2>1 DEF connect, pacer, vars, FollowInv, OwnOnItsWay, MainAt
  <2>2. CASE connect_device \/ connect_push
    <3>1. /\ UNCHANGED <<cur, newest, out, phy_fd, last_word>> /\ main.pc # "submit"
          /\ main'.pc # "submit"
      BY <1>0, <2>2 DEF connect_device, connect_push, Polling, pacer, vars, history, MainAt
    <3> QED BY <3>1, QuietStep
  <2> QED BY <1>5, <2>1, <2>2 DEF Connecting
<1>6. CASE Creating \/ identify
  BY <1>6 DEF Creating, create_device, recreate_device, destroy_device, identify, pacer, vars, history,
              FollowInv, OwnOnItsWay
<1>7. ASSUME NEW o \in Outputs, uhid_output(o) PROVE FollowInv'
  <2>1. UNCHANGED <<out, phy_fd, newest>> /\ ~OutThread /\ main.pc = "poll"
    BY <1>7 DEF uhid_output, pacer, vars
  <2>2. CASE Asked(o) = cur
    BY <1>7, <2>1, <2>2 DEF uhid_output, filtered, FollowInv, OwnOnItsWay
  <2>3. CASE Asked(o) # cur /\ phy_fd = NoFd
    BY <1>7, <2>1, <2>3 DEF uhid_output, FollowInv, OwnOnItsWay
  <2>4. CASE Asked(o) # cur /\ phy_fd # NoFd
    <3>1. main' = [pc |-> "submit", report |-> <<phy_fd, cur'>>, own |-> TRUE]
      BY <1>7, <2>4 DEF uhid_output
    <3> QED BY <2>1, <3>1 DEF FollowInv, OwnOnItsWay
  <2> QED BY <2>2, <2>3, <2>4
<1>8. CASE led_reset \/ \E s \in States : led_test(s)
  <2>1. UNCHANGED <<cur, newest, out, phy_fd, last_word>> /\ main.pc = "poll"
    BY <1>8 DEF led_reset, led_test, pacer, vars, history
  <2>2. \/ main'.own = FALSE
        \/ main'.own = ~OutThread /\ main'.report = <<phy_fd, cur>>
    BY <1>8 DEF led_reset, led_test
  <2> QED BY <2>1, <2>2 DEF FollowInv, OwnOnItsWay
<1>9. CASE main_submits
  <2>1. /\ newest' = main.report /\ main'.pc # "submit" /\ UNCHANGED <<out, cur, phy_fd>>
        /\ main.pc = "submit" /\ last_word' = IF main.own THEN "device" ELSE "led"
    BY <1>9, NewestMoves DEF main_submits, Polling, MainAt
  <2> QED BY <2>1 DEF FollowInv, OwnOnItsWay
<1>10. CASE main_write_returns \/ main_drops \/ main_closes \/ main_exits
  <2>1. UNCHANGED <<cur, newest, out, last_word>> /\ phy_fd' \in {phy_fd, NoFd} /\ main.pc # "submit"
    BY <1>10, NewestMoves DEF main_write_returns, main_drops, main_closes, main_exits, pacer, vars,
                              history, MainAt
  <2>2. main'.pc # "submit"
    BY <1>0, <1>10 DEF main_write_returns, main_drops, main_closes, main_exits, Polling, MainAt
  <2> QED BY <2>1, <2>2, QuietStep
<1>11. CASE main_discards \/ main_stops
  BY <1>0, <1>11 DEF main_discards, main_stops, FollowInv, OwnOnItsWay, MainAt
<1> QED BY <1>1, <1>2, <1>3, <1>4, <1>5, <1>6, <1>7, <1>8, <1>9, <1>10, <1>11
        DEF OutputNext, MainLoop, Connecting, Creating

\* The controller follows the device from its report on until somebody else
\* writes, with either backend, for any number of connections, detached threads
\* and test commands (uhid_output, out_loop(), submit(), flush_loop()).
THEOREM PadIsNeverLeftBehind == OutputSpec => []PadFollowsDevice
<1>1. OutputInit => FollowInv
  BY DEF OutputInit, Init, FollowInv, OwnOnItsWay, Polling, OutIdle, MainAt, OutAt
<1>2. OutputTypeOK /\ FollowInv /\ IInv => PadFollowsDevice
  <2> SUFFICES ASSUME OutputTypeOK, FollowInv, IInv, Settled, phy_fd # NoFd, last_word = "device"
               PROVE  wire = <<phy_fd, cur>>
    BY DEF PadFollowsDevice
  <2>1. newest = <<phy_fd, cur>> /\ pending = NoReport
    BY DEF FollowInv, OwnOnItsWay, Settled
  <2>2. newest # NoReport
    BY <2>1, ReportsAre, OutputAssumption, PacerAssumption DEF OutputTypeOK, Fds
  <2>3. newest # NoReport => wire = newest
    BY <2>1 DEF IInv, NewestReportWins
  <2> QED BY <2>1, <2>2, <2>3
<1> QED BY <1>1, <1>2, FollowingIsKept, ThreadsKeepPacer, PTL DEF OutputSpec

-----------------------------------------------------------------------------
(* Who is inside write(2). *)

Pushing == {d \in DupFds : push[d].pc = "writing"}

\* mutex_ has one holder: a submit() that writes belongs to one thread, which
\* writes to the descriptor it brought.
OneWriter ==
  /\ submitting => main.pc = "writing" \/ out.pc = "writing" \/ Pushing # {}
  /\ main.pc = "writing" => submitting /\ out.pc # "writing" /\ Pushing = {} /\ wire[1] \in PhyFds
  /\ out.pc = "writing" => submitting /\ Pushing = {} /\ wire[1] \in PhyFds \cup {NoFd}
  /\ \A d \in Pushing : submitting /\ Pushing = {d} /\ wire[1] = d

\* A detached thread has its dup() from its start to its end, and nobody else has.
DupsHaveOwners == \A d \in DupFds : d \in open <=> push[d].pc # "idle"

\* The main loop brings a descriptor of a connection, and so does the OUT thread
\* but for the -1 it may have picked up.
BringTheirOwn ==
  /\ main.pc = "submit" => main.report[1] \in PhyFds
  /\ out.pc = "submit" => out.report[1] \in PhyFds \cup {NoFd}

WriterInv == OneWriter /\ DupsHaveOwners /\ BringTheirOwn

\* A submit finds nobody inside write(2) and is alone there afterwards.
LEMMA SubmitWrites ==
  ASSUME NEW r, submit(r)
  PROVE  ~submitting /\ (submitting' => wire' = r)
  BY DEF submit, submit_direct, submit_throttled, write_locked, mutex_free

\* What the flush thread and the clock do leaves a submit() that writes alone.
LEMMA FlushingLeavesWriters ==
  ASSUME FlushThread \/ flush_spurious_wake \/ Tick
  PROVE  submitting' = submitting /\ (submitting => wire' = wire)
  BY DEF FlushThread, flush_loop, flush_parks, flush_waits, flush_writes, mutex_free,
         flush_write_returns, flush_timeout, flush_exits, flush_spurious_wake, Tick

\* Nobody enters or leaves write(2) in a step that moves none of the writers.
LEMMA WritersStay ==
  ASSUME OneWriter, submitting' = submitting, submitting => wire' = wire,
         main'.pc = "writing" <=> main.pc = "writing",
         out'.pc = "writing" <=> out.pc = "writing",
         Pushing' = Pushing
  PROVE  OneWriter'
  BY DEF OneWriter

\* A detached thread's step, as the others see it.
LEMMA PushingMoves ==
  ASSUME push \in Pushes, NEW d \in DupFds, NEW pc, NEW todo,
         push' = [push EXCEPT ![d] = [pc |-> pc, todo |-> todo]]
  PROVE  /\ Pushing' = IF pc = "writing" THEN Pushing \cup {d} ELSE Pushing \ {d}
         /\ push'[d].pc = pc
         /\ \A e \in DupFds \ {d} : push'[e] = push[e]
  BY DEF Pushing, Pushes

\* A detached thread that does not enter write(2).
LEMMA PushingLeaves ==
  ASSUME push \in Pushes, NEW d \in DupFds, NEW pc \in {"idle", "submit"}, NEW todo,
         push' = [push EXCEPT ![d] = [pc |-> pc, todo |-> todo]]
  PROVE  /\ Pushing' = Pushing \ {d}
         /\ push'[d].pc = pc
         /\ \A e \in DupFds \ {d} : push'[e] = push[e]
  BY PushingMoves

\* Whoever enters write(2) is alone in it until it returns.
LEMMA WritersAreKept == OutputTypeOK /\ WriterInv /\ [OutputNext]_all_vars => WriterInv'
<1> SUFFICES ASSUME OutputTypeOK, WriterInv, [OutputNext]_all_vars PROVE WriterInv'
  OBVIOUS
<1> USE OutputAssumption DEF WriterInv
<1>0. /\ push \in Pushes /\ phy_fd \in PhyFds \cup {NoFd}
      /\ DupFds \cap PhyFds = {} /\ NoFd \notin DupFds
      /\ main = [pc |-> main.pc, report |-> main.report, own |-> main.own]
      /\ out = [pc |-> out.pc, report |-> out.report]
  BY DEF OutputTypeOK, Pushes, Fds
<1>1. CASE UNCHANGED all_vars
  <2>1. Pushing' = Pushing
    BY <1>1 DEF all_vars, output, Pushing
  <2> QED BY <1>1, <2>1, WritersStay DEF all_vars, vars, output, DupsHaveOwners, BringTheirOwn
<1>2. ASSUME NEW d \in DupFds, Pusher(d) PROVE WriterInv'
  <2> DEFINE pc == IF submitting' THEN "writing" ELSE "submit"
  <2>1. CASE push_submits(d)
    <3>1. /\ push[d].pc = "submit" /\ d \notin Pushing
          /\ push' = [push EXCEPT ![d] = [pc |-> pc, todo |-> Tail(push[d].todo)]]
          /\ UNCHANGED <<phy_fd, open, main, out>>
      BY <2>1 DEF push_submits, Pushing
    <3>2. PICK s : submit(<<d, s>>)
      BY <2>1 DEF push_submits
    <3>3. ~submitting /\ (submitting' => wire' = <<d, s>>)
      BY <3>2, SubmitWrites
    <3>4. /\ Pushing' = IF submitting' THEN Pushing \cup {d} ELSE Pushing \ {d}
          /\ push'[d].pc \in {"submit", "writing"}
          /\ \A e \in DupFds \ {d} : push'[e] = push[e]
      <4> DEFINE todo == Tail(push[d].todo)
      <4>1. push' = [push EXCEPT ![d] = [pc |-> pc, todo |-> todo]]
        BY <3>1
      <4>2. pc = IF submitting' THEN "writing" ELSE "submit"
        OBVIOUS
      <4> HIDE DEF pc, todo
      <4>3. /\ Pushing' = IF pc = "writing" THEN Pushing \cup {d} ELSE Pushing \ {d}
            /\ push'[d].pc = pc
            /\ \A e \in DupFds \ {d} : push'[e] = push[e]
        BY <1>0, <4>1, PushingMoves
      <4> QED BY <4>2, <4>3
    <3>5. main.pc # "writing" /\ out.pc # "writing" /\ Pushing = {}
      BY <3>3 DEF OneWriter
    <3> QED BY <3>1, <3>3, <3>4, <3>5 DEF OneWriter, DupsHaveOwners, BringTheirOwn
  <2>2. CASE push_write_returns(d)
    <3>1. /\ push' = [push EXCEPT ![d] = [push[d] EXCEPT !.pc = "submit"]]
          /\ d \in Pushing /\ push[d].pc = "writing" /\ submitting' = FALSE
          /\ UNCHANGED <<phy_fd, open, main, out>>
      BY <2>2 DEF push_write_returns, Pushing, submit_returns
    <3>2. [push[d] EXCEPT !.pc = "submit"] = [pc |-> "submit", todo |-> push[d].todo]
      BY <1>0 DEF Pushes
    <3>3. /\ Pushing' = Pushing \ {d} /\ push'[d].pc = "submit"
          /\ \A e \in DupFds \ {d} : push'[e] = push[e]
      <4> DEFINE todo == push[d].todo
                 p == "submit"
      <4>1. push' = [push EXCEPT ![d] = [pc |-> p, todo |-> todo]] /\ p \in {"idle", "submit"}
        BY <3>1, <3>2
      <4>2. p = "submit"
        OBVIOUS
      <4> HIDE DEF todo, p
      <4>3. /\ Pushing' = Pushing \ {d} /\ push'[d].pc = p
            /\ \A e \in DupFds \ {d} : push'[e] = push[e]
        BY <1>0, <4>1, PushingLeaves
      <4> QED BY <4>2, <4>3
    <3> QED BY <3>1, <3>3 DEF OneWriter, DupsHaveOwners, BringTheirOwn
  <2>4. CASE push_reads(d)
    <3> DEFINE todo == <<cur>> \o Tail(push[d].todo)
               p == "submit"
    <3>1. push' = [push EXCEPT ![d] = [pc |-> p, todo |-> todo]] /\ push[d].pc = p
      BY <2>4 DEF push_reads
    <3>2. p \in {"idle", "submit"} /\ p # "idle" /\ p # "writing"
      OBVIOUS
    <3>3. UNCHANGED <<submitting, wire, main, out, open>>
      BY <2>4 DEF push_reads, pacer, vars
    <3> HIDE DEF todo, p
    <3>4. /\ Pushing' = Pushing \ {d} /\ push'[d].pc = p
          /\ \A e \in DupFds \ {d} : push'[e] = push[e]
      BY <1>0, <3>1, <3>2, PushingLeaves
    <3>5. Pushing' = Pushing
      BY <3>1, <3>2, <3>4 DEF Pushing
    <3> QED BY <3>1, <3>2, <3>3, <3>4, <3>5, WritersStay DEF DupsHaveOwners, BringTheirOwn
  <2>3. CASE push_closes(d)
    <3>1. /\ push' = [push EXCEPT ![d] = Idle] /\ push[d].pc = "submit"
          /\ open' = open \ {d} /\ UNCHANGED <<phy_fd, main, out, submitting, wire>>
      BY <2>3 DEF push_closes, pacer, vars
    <3>2. /\ Pushing' = Pushing \ {d} /\ push'[d].pc = "idle"
          /\ \A e \in DupFds \ {d} : push'[e] = push[e]
      <4> DEFINE p == "idle"
      <4>1. push' = [push EXCEPT ![d] = [pc |-> p, todo |-> <<>>]] /\ p \in {"idle", "submit"}
        BY <3>1 DEF Idle
      <4>2. p = "idle"
        OBVIOUS
      <4> HIDE DEF p
      <4>3. /\ Pushing' = Pushing \ {d} /\ push'[d].pc = p
            /\ \A e \in DupFds \ {d} : push'[e] = push[e]
        BY <1>0, <4>1, PushingLeaves
      <4> QED BY <4>2, <4>3
    <3>3. Pushing' = Pushing
      BY <3>1, <3>2 DEF Pushing
    <3>4. OneWriter'
      BY <3>1, <3>3, WritersStay
    <3> QED BY <3>1, <3>2, <3>4 DEF DupsHaveOwners, BringTheirOwn
  <2> QED BY <1>2, <2>1, <2>2, <2>3, <2>4 DEF Pusher
<1>3. ASSUME UNCHANGED <<push, submitting, wire>>, open' \cap DupFds = open \cap DupFds,
             main'.pc = "writing" <=> main.pc = "writing",
             out'.pc = "writing" <=> out.pc = "writing",
             BringTheirOwn'
      PROVE  WriterInv'
  <2>1. Pushing' = Pushing
    BY <1>3 DEF Pushing
  <2> QED BY <1>3, <2>1, WritersStay DEF DupsHaveOwners
<1>4. CASE OutLoop
  <2>1. CASE out_picks \/ \E o \in Outputs : out_reads(o)
    <3>1. /\ UNCHANGED <<push, submitting, wire, open, main>>
          /\ out.pc # "writing" /\ out'.pc # "writing"
          /\ out'.pc = "submit" => out'.report[1] \in PhyFds \cup {NoFd}
      BY <1>0, <2>1 DEF out_reads, out_picks, pacer, vars, OutAt
    <3> QED BY <1>3, <3>1 DEF BringTheirOwn
  <2>2. CASE out_submits
    <3>1. ~submitting /\ (submitting' => wire' = out.report) /\ out.report[1] \in PhyFds \cup {NoFd}
      BY <2>2, SubmitWrites DEF out_submits, BringTheirOwn, OutAt
    <3>2. out'.pc = IF submitting' THEN "writing" ELSE "read"
      BY <1>0, <2>2 DEF out_submits, OutIdle, OutAt
    <3>3. Pushing' = Pushing /\ UNCHANGED <<main, push, open>>
      BY <2>2 DEF out_submits, Pushing, OutAt
    <3> QED BY <3>1, <3>2, <3>3 DEF OneWriter, DupsHaveOwners, BringTheirOwn
  <2>3. CASE out_write_returns
    <3>1. ~submitting' /\ out'.pc = "read" /\ out.pc = "writing" /\ UNCHANGED <<main, push, open>>
      BY <2>3 DEF out_write_returns, submit_returns, OutIdle, OutAt
    <3>2. Pushing' = Pushing
      BY <3>1 DEF Pushing
    <3> QED BY <3>1, <3>2 DEF OneWriter, DupsHaveOwners, BringTheirOwn
  <2> QED BY <1>4, <2>1, <2>2, <2>3 DEF OutLoop
<1>5. CASE PacerSteps
  <2>1. submitting' = submitting /\ (submitting => wire' = wire) /\ UNCHANGED <<main, push, out, open>>
    BY <1>5, FlushingLeavesWriters DEF PacerSteps, output
  <2>2. Pushing' = Pushing
    BY <2>1 DEF Pushing
  <2> QED BY <2>1, <2>2, WritersStay DEF DupsHaveOwners, BringTheirOwn
<1>6. ASSUME NEW d \in DupFds \ open, NEW f \in PhyFds \cup {NoFd}, NEW todo,
             push' = [push EXCEPT ![d] = [pc |-> "submit", todo |-> todo]],
             open' \cap DupFds = (open \cap DupFds) \cup {d},
             UNCHANGED <<submitting, wire, out>>,
             main'.pc = main.pc \/ {main.pc, main'.pc} \cap {"submit", "writing"} = {},
             main'.pc = "submit" => main' = main
      PROVE  WriterInv'
  <2>1. push[d].pc = "idle"
    BY <1>6 DEF DupsHaveOwners
  <2>2. /\ Pushing' = Pushing \ {d} /\ push'[d].pc = "submit"
        /\ \A e \in DupFds \ {d} : push'[e] = push[e]
    <3> DEFINE p == "submit"
    <3>1. push' = [push EXCEPT ![d] = [pc |-> p, todo |-> todo]] /\ p \in {"idle", "submit"}
      BY <1>6
    <3>2. p = "submit"
      OBVIOUS
    <3> HIDE DEF p
    <3>3. /\ Pushing' = Pushing \ {d} /\ push'[d].pc = p
          /\ \A e \in DupFds \ {d} : push'[e] = push[e]
      BY <1>0, <3>1, PushingLeaves
    <3> QED BY <3>2, <3>3
  <2>3. Pushing' = Pushing
    BY <2>1, <2>2 DEF Pushing
  <2>4. OneWriter'
    BY <1>6, <2>3, WritersStay
  <2> QED BY <1>6, <2>2, <2>4 DEF DupsHaveOwners, BringTheirOwn
<1>7. CASE connect_push
  <2> DEFINE todo == <<[motor |-> MotorsOff, led |-> cur.led]>>
  <2>1. detach(todo) /\ UNCHANGED <<submitting, wire, out>>
    BY <1>7 DEF connect_push, pacer, vars
  <2>2. main'.pc = "poll" /\ main.pc = "push"
    BY <1>7 DEF connect_push, Polling, MainAt
  <2> HIDE DEF todo
  <2>3. CASE UNCHANGED <<push, open>>
    BY <1>3, <2>1, <2>2, <2>3 DEF BringTheirOwn
  <2>4. CASE \E d \in DupFds \ open :
               /\ push' = [push EXCEPT ![d] = [pc |-> "submit", todo |-> todo]]
               /\ open' = open \cup {d}
    <3>1. PICK d \in DupFds \ open :
               /\ push' = [push EXCEPT ![d] = [pc |-> "submit", todo |-> todo]]
               /\ open' = open \cup {d}
      BY <2>4
    <3>2. open' \cap DupFds = (open \cap DupFds) \cup {d}
      BY <3>1
    <3> QED BY <1>6, <2>1, <2>2, <3>1, <3>2
  <2> QED BY <2>1, <2>3, <2>4 DEF detach
<1>14. CASE connect \/ connect_device \/ Creating
  <2>1. /\ UNCHANGED <<push, submitting, wire, out>> /\ open' \cap DupFds = open \cap DupFds
        /\ main.pc # "writing" /\ main'.pc \notin {"submit", "writing"}
    BY <1>0, <1>14 DEF connect, connect_device, Creating, create_device, recreate_device,
                       destroy_device, Polling, pacer, vars, MainAt
  <2> QED BY <1>3, <2>1 DEF BringTheirOwn
<1>8. CASE identify
  <2>1. PICK s \in States, t \in States : detach(<<s, t, Restore>>)
    BY <1>8 DEF identify
  <2>2. UNCHANGED <<submitting, wire, main, out>>
    BY <1>8 DEF identify, pacer, vars
  <2>3. CASE UNCHANGED <<push, open>>
    BY <1>3, <2>2, <2>3 DEF BringTheirOwn
  <2>4. CASE \E d \in DupFds \ open :
               /\ push' = [push EXCEPT ![d] = [pc |-> "submit", todo |-> <<s, t, Restore>>]]
               /\ open' = open \cup {d}
    <3>1. PICK d \in DupFds \ open :
               /\ push' = [push EXCEPT ![d] = [pc |-> "submit", todo |-> <<s, t, Restore>>]]
               /\ open' = open \cup {d}
      BY <2>4
    <3>2. open' \cap DupFds = (open \cap DupFds) \cup {d}
      BY <3>1
    <3> QED BY <1>6, <2>2, <3>1, <3>2
  <2> QED BY <2>1, <2>3, <2>4 DEF detach
<1>9. CASE led_reset \/ (\E s \in States : led_test(s)) \/ \E o \in Outputs : uhid_output(o)
  BY <1>0, <1>3, <1>9 DEF led_reset, uhid_output, led_test, pacer, vars, BringTheirOwn
<1>10. CASE main_submits
  <2>1. ~submitting /\ (submitting' => wire' = main.report) /\ main.report[1] \in PhyFds
    BY <1>10, SubmitWrites DEF main_submits, BringTheirOwn
  <2>2. main'.pc = IF submitting' THEN "writing" ELSE "poll"
    BY <1>0, <1>10 DEF main_submits, Polling, MainAt
  <2>3. Pushing' = Pushing /\ UNCHANGED <<out, push, open>>
    BY <1>10 DEF main_submits, Pushing
  <2> QED BY <2>1, <2>2, <2>3 DEF OneWriter, DupsHaveOwners, BringTheirOwn
<1>11. CASE main_write_returns
  <2>1. ~submitting' /\ main'.pc = "poll" /\ main.pc = "writing" /\ UNCHANGED <<out, push, open>>
    BY <1>11 DEF main_write_returns, submit_returns, Polling, MainAt
  <2>2. Pushing' = Pushing
    BY <2>1 DEF Pushing
  <2> QED BY <2>1, <2>2 DEF OneWriter, DupsHaveOwners, BringTheirOwn
<1>12. CASE main_drops \/ main_discards \/ main_stops
  <2>1. main'.pc \in {"discard", "close", "join"} /\ main.pc # "writing"
    BY <1>0, <1>12 DEF main_drops, main_discards, main_stops, MainAt
  <2>2. UNCHANGED <<push, submitting, wire, open, out>>
    BY <1>12 DEF main_drops, main_discards, main_stops, discard_pending, stop, pacer, vars, MainAt
  <2> QED BY <1>3, <2>1, <2>2 DEF BringTheirOwn
<1>13. CASE main_closes \/ main_exits
  <2>1. main'.pc \in {"poll", "down"} /\ main.pc # "writing"
    BY <1>13 DEF main_closes, main_exits, Polling, MainAt
  <2>2. UNCHANGED <<push, submitting, wire, out>> /\ open' = open \ {phy_fd}
    BY <1>13 DEF main_closes, main_exits, stop_returns, pacer, vars, MainAt
  <2> QED BY <1>0, <1>3, <2>1, <2>2 DEF BringTheirOwn
<1> QED BY <1>1, <1>2, <1>4, <1>5, <1>7, <1>8, <1>9, <1>10, <1>11, <1>12, <1>13, <1>14
        DEF OutputNext, MainLoop, Connecting, Creating

\* mutex_ has one holder, and no dup() of the descriptor is without a thread that
\* will close it, for any number of threads, with or without the OUT thread.
THEOREM OneThreadWrites == OutputSpec => [](OneWriter /\ DupsHaveOwners)
<1>1. OutputInit => WriterInv
  <2> SUFFICES ASSUME OutputInit PROVE WriterInv
    OBVIOUS
  <2>1. Pushing = {}
    BY DEF OutputInit, Pushing, Idle
  <2> QED BY <2>1 DEF OutputInit, Init, WriterInv, OneWriter, DupsHaveOwners, BringTheirOwn,
             Polling, OutIdle, Idle, MainAt, OutAt
<1>2. WriterInv => OneWriter /\ DupsHaveOwners
  BY DEF WriterInv
<1> QED BY <1>1, <1>2, WritersAreKept, OutputTypeCorrect, PTL DEF OutputSpec

\* Without the OUT thread, what a submit() writes itself goes to an open
\* descriptor, also a detached thread's: only the flush thread, which writes after
\* the submit() has returned, can come too late for a dup().
DirectWritesFindTheirs == submitting => wire[1] \in open

\* submit() never writes to a descriptor its caller has closed.
THEOREM NoDirectWriteToTheGone ==
  ASSUME ~OutThread
  PROVE  OutputSpec => []DirectWritesFindTheirs
<1>1. ConnectionInv /\ OneWriter /\ DupsHaveOwners => DirectWritesFindTheirs
  <2> SUFFICES ASSUME ConnectionInv, OneWriter, DupsHaveOwners, submitting PROVE wire[1] \in open
    BY DEF DirectWritesFindTheirs
  <2>1. CASE Pushing # {}
    BY <2>1 DEF OneWriter, DupsHaveOwners, Pushing
  <2>2. CASE Pushing = {}
    <3>1. wire[1] \in PhyFds
      BY <2>2 DEF OneWriter, ConnectionInv, OutIdle, OutAt
    <3> QED BY <3>1, OutputAssumption DEF ConnectionInv, OfConnection, Writing, Fds
  <2> QED BY <2>1, <2>2
<1> QED BY <1>1, ConnectionInvariant, OneThreadWrites, PTL
=============================================================================
