---------------------------- MODULE SettingsProofs ----------------------------
(***************************************************************************)
(* For any clients, commands, backlog and faults, and any number of        *)
(* restarts: what the clients were told is what the next daemon reads from *)
(* the file, the window counts the settings it waits for, and it never     *)
(* takes the answer to one command for the answer to another.              *)
(***************************************************************************)
EXTENDS Settings, SequenceTheorems, FiniteSetTheorems, FunctionTheorems, TLAPS

Own == Settings \cup {Status, Led}
Known == Own \cup Commands \cup {Silence, Idle}
Connection == [client : {"ui", "gone", "ctl"}, command : Known]

\* Nothing but the commands of the clients travels; the window's are its own.
Traffic ==
  /\ queue \in Seq(Own)
  /\ current \in Own \cup {Idle}
  /\ backlog \in Seq(Connection)

\* Settings have values that can be written to the file and read back.
Stored ==
  /\ mem = [k \in Keys |-> mem[k]] /\ \A k \in Keys : mem[k] \in Values[k]
  /\ file = [k \in Keys |-> file[k]] /\ \A k \in Keys : file[k] \in Values[k] \cup {"absent"}
  /\ asked = [k \in Keys |-> asked[k]]
  /\ pending_type \in Values["type"]

\* The file, and while a daemon runs its memory, hold what the clients were
\* told.  The property alone says nothing of the file between two restarts.
Kept ==
  \A k \in Keys \ excused :
    /\ Read(file)[k] = asked[k]
    /\ up => mem[k] = asked[k]

IInv == budget \in Nat /\ Traffic /\ Stored /\ Kept

-----------------------------------------------------------------------------
(* The file *)

\* The settings of the file, and that none of their values reads as a missing line.
LEMMA KeysAre ==
  /\ Keys = {"type", "backend_ds4", "backend_dualsense", "hide_method", "name_ds4", "name_dualsense"}
  /\ \A k \in Keys : "absent" \notin Values[k] /\ Default[k] \in Values[k]
  /\ Default = [k \in Keys |-> Default[k]]
  BY DEF Keys, Values, Default, Emulated

\* Reading back what was written gives the same settings.
LEMMA WrittenIsRead ==
  ASSUME NEW m, \A k \in Keys : m[k] \in Values[k]
  PROVE  \A k \in Keys : Read(Lines(m))[k] = m[k]
<1> SUFFICES ASSUME NEW k \in Keys PROVE Read(Lines(m))[k] = m[k]
  OBVIOUS
<1>1. Read(Lines(m))[k] = IF Lines(m)[k] = "absent" THEN Default[k] ELSE Lines(m)[k]
  BY DEF Read
<1>2. Lines(m)[k] = IF k \in {"name_ds4", "name_dualsense"} /\ m[k] = "default" THEN "absent" ELSE m[k]
  BY DEF Lines
<1>3. k \in {"name_ds4", "name_dualsense"} => Default[k] = "default"
  BY DEF Default
<1> QED BY <1>1, <1>2, <1>3, KeysAre

\* Every line of the file is one of the settings.
LEMMA LinesAreStored ==
  ASSUME NEW m, \A k \in Keys : m[k] \in Values[k]
  PROVE  /\ Lines(m) = [k \in Keys |-> Lines(m)[k]]
         /\ \A k \in Keys : Lines(m)[k] \in Values[k] \cup {"absent"}
  BY DEF Lines

\* What is read back is a setting for each key.
LEMMA ReadIsStored ==
  ASSUME Stored
  PROVE  /\ Read(file) = [k \in Keys |-> Read(file)[k]]
         /\ \A k \in Keys : Read(file)[k] \in Values[k]
  BY KeysAre DEF Stored, Read

\* A command that sets something names a key and one of its values.
LEMMA KnownAreSensible ==
  ASSUME NEW c \in Known
  PROVE  /\ IsSetting(c) => c.key \in Keys /\ c.to \in Values[c.key]
         /\ c.key = "virtual" => c.to \in Values["type"]
<1>1. "status" \notin Keys /\ "led" \notin Keys
      /\ "silence" \notin Keys /\ "none" \notin Keys /\ "virtual" \notin Keys
  BY KeysAre
<1>2. Emulated \subseteq Values["type"]
  BY DEF Values
<1> QED BY <1>1, <1>2, SettingsAssumption DEF Known, Own, IsSetting, Status, Led, Silence, Idle

-----------------------------------------------------------------------------
(* Init *)

\* An empty queue and an empty backlog have their types.
LEMMA Nothing == <<>> \in Seq(Own) /\ <<>> \in Seq(Connection) /\ Own \cup {Idle} \subseteq Known
  BY DEF Known

\* At first the file says what the daemon has.
LEMMA InitEstablishesIInv == Init => IInv
<1> SUFFICES ASSUME Init PROVE IInv
  OBVIOUS
<1>1. Traffic
  <2>1. queue = <<>> /\ current \in {Status, Idle}
    BY DEF Init
  <2>2. <<[client |-> "ui", command |-> Status]>> \in Seq(Connection)
    BY DEF Connection, Known, Own
  <2>3. backlog \in {<<[client |-> "ui", command |-> Status]>>, <<>>}
    BY DEF Init
  <2> QED BY <2>1, <2>2, <2>3, Nothing DEF Traffic, Own
<1>2. file = NoLines /\ mem = Read(file) /\ asked = mem /\ pending_type = mem["type"]
  BY DEF Init
<1>3. \A k \in Keys : file[k] = "absent" /\ mem[k] = Default[k]
  BY <1>2 DEF NoLines, Read
<1>4. mem = [k \in Keys |-> mem[k]] /\ file = [k \in Keys |-> file[k]]
  BY <1>2 DEF NoLines, Read
<1>5. "type" \in Keys
  BY KeysAre
<1>6. budget \in Nat
  BY SettingsAssumption DEF Init
<1>7. Stored
  <2>1. \A k \in Keys : mem[k] \in Values[k] /\ file[k] \in Values[k] \cup {"absent"}
    BY <1>3, KeysAre
  <2>2. pending_type \in Values["type"]
    BY <1>2, <1>5, <2>1
  <2>3. asked = [k \in Keys |-> asked[k]]
    BY <1>2, <1>4
  <2> QED BY <1>4, <2>1, <2>2, <2>3 DEF Stored
<1>8. Kept
  BY <1>2 DEF Kept
<1> QED BY <1>1, <1>6, <1>7, <1>8 DEF IInv

-----------------------------------------------------------------------------
(* The commands on their way *)

\* The connections of a window that went away are still connections.
LEMMA OrphansAreConnections ==
  ASSUME backlog \in Seq(Connection)
  PROVE  [i \in DOMAIN backlog |->
            IF backlog[i].client = "ui" THEN [backlog[i] EXCEPT !.client = "gone"] ELSE backlog[i]]
         \in Seq(Connection)
<1> DEFINE b == [i \in DOMAIN backlog |->
            IF backlog[i].client = "ui" THEN [backlog[i] EXCEPT !.client = "gone"] ELSE backlog[i]]
<1>1. Len(backlog) \in Nat /\ DOMAIN backlog = 1 .. Len(backlog)
  OBVIOUS
<1>2. \A i \in 1 .. Len(backlog) : b[i] \in Connection
  <2> TAKE i \in 1 .. Len(backlog)
  <2>1. backlog[i] \in Connection
    BY <1>1
  <2> QED BY <1>1, <2>1 DEF Connection
<1> HIDE DEF b
<1>3. b \in [1 .. Len(backlog) -> Connection]
  BY <1>1, <1>2 DEF b
<1>4. b \in Seq(Connection)
  BY <1>1, <1>3
<1> QED BY <1>4 DEF b

\* Whatever is next on the connection was waiting for it.
LEMMA StartNextKeepsTraffic ==
  ASSUME NEW q \in Seq(Own), NEW lines \in Seq(Connection), NEW p, NEW on, NEW m,
         startNext(q, p, on, m, lines)
  PROVE  Traffic'
<1>2. CASE q # <<>> /\ up
  <2>1. Head(q) \in Own /\ Head(q) \in Known /\ Tail(q) \in Seq(Own)
    BY <1>2, Nothing
  <2>2. [client |-> "ui", command |-> Head(q)] \in Connection
    BY <2>1 DEF Connection
  <2>3. Append(lines, [client |-> "ui", command |-> Head(q)]) \in Seq(Connection)
    BY <2>2
  <2>4. /\ current' = Head(q) /\ queue' = Tail(q)
        /\ backlog' \in {Append(lines, [client |-> "ui", command |-> Head(q)]), lines}
    BY <1>2 DEF startNext
  <2> QED BY <2>1, <2>3, <2>4 DEF Traffic
<1>3. CASE ~(q # <<>> /\ up)
  <2>1. current' = Idle /\ queue' = <<>> /\ backlog' = lines
    BY <1>3 DEF startNext
  <2> QED BY <2>1, Nothing DEF Traffic
<1> QED BY <1>2, <1>3

\* A new command waits at the end of the queue.
LEMMA SendKeepsTraffic ==
  ASSUME Traffic, NEW c \in Own, NEW p, send(c, p)
  PROVE  Traffic'
<1>1. CASE conn = "none"
  <2>1. <<c>> \in Seq(Own)
    OBVIOUS
  <2> QED BY <1>1, <2>1, StartNextKeepsTraffic DEF send, Traffic
<1>2. CASE conn # "none"
  <2>1. Append(queue, c) \in Seq(Own)
    BY DEF Traffic
  <2> QED BY <1>2, <2>1 DEF send, Traffic
<1> QED BY <1>1, <1>2

\* A command that fails leaves at most its connection behind.
LEMMA FailsKeepsTraffic == Traffic /\ fails => Traffic'
  BY OrphansAreConnections, StartNextKeepsTraffic DEF fails, Traffic

\* Every step keeps the queue and its connections in order.
LEMMA TrafficIsKept == Traffic /\ [Next]_vars => Traffic'
<1> SUFFICES ASSUME Traffic, [Next]_vars PROVE Traffic'
  OBVIOUS
<1>1. CASE connects
  <2>1. [client |-> "ui", command |-> current] \in Connection
    BY Nothing DEF Traffic, Connection
  <2> QED BY <1>1, <2>1, FailsKeepsTraffic DEF connects, Traffic
<1>2. CASE onReadable
  <2>1. CASE answered
    <3>1. Append(queue, Status) \in Seq(Own)
      BY DEF Traffic, Own
    <3> QED BY <2>1, <3>1, StartNextKeepsTraffic DEF answered, Traffic
  <2> QED BY <1>2, <2>1, FailsKeepsTraffic DEF onReadable
<1>3. CASE onTimeout
  BY <1>3, FailsKeepsTraffic DEF onTimeout
<1>4. CASE refreshStatus \/ sendCommand
  <2>1. Settings \cup {Led, Status} \subseteq Own
    BY DEF Own
  <2> QED BY <1>4, <2>1, SendKeepsTraffic DEF refreshStatus, sendCommand
<1>5. CASE beginInteraction \/ endInteraction
  BY <1>5 DEF beginInteraction, endInteraction, client, Traffic
<1>6. CASE serve
  <2>1. Tail(backlog) \in Seq(Connection) /\ <<>> \in Seq(Connection)
    BY <1>6 DEF serve, Traffic
  <2>2. backlog' \in {Tail(backlog), <<>>}
    BY <1>6 DEF serve, sets, refuses, already_set, create_virtual, serves
  <2>3. UNCHANGED <<queue, current>>
    BY <1>6 DEF serve
  <2> QED BY <2>1, <2>2, <2>3 DEF Traffic
<1>7. CASE send_command
  <2>1. PICK c \in Commands : backlog' = Append(backlog, [client |-> "ctl", command |-> c])
    BY <1>7 DEF send_command
  <2>2. [client |-> "ctl", command |-> c] \in Connection
    BY DEF Connection, Known
  <2> QED BY <1>7, <2>1, <2>2 DEF send_command, client, Traffic
<1>8. CASE client_leaves
  <2>1. [client |-> "gone", command |-> Silence] \in Connection
    BY DEF Connection, Known
  <2>2. Tail(backlog) \in Seq(Connection)
    BY <1>8 DEF client_leaves, Stuck, Traffic
  <2>3. <<[client |-> "gone", command |-> Silence]>> \o Tail(backlog) \in Seq(Connection)
    BY <2>1, <2>2, ConcatProperties
  <2> QED BY <1>8, <2>3 DEF client_leaves, client, Traffic
<1>9. CASE stop \/ start \/ UNCHANGED vars
  <2>1. UNCHANGED <<queue, current>> /\ backlog' \in {<<>>, backlog}
    BY <1>9 DEF stop, start, vars, client
  <2> QED BY <2>1, Nothing DEF Traffic
<1> QED BY <1>1, <1>2, <1>3, <1>4, <1>5, <1>6, <1>7, <1>8, <1>9 DEF Next, Window, Others

-----------------------------------------------------------------------------
(* The settings *)

\* A setting whose file could not be opened is excused, an emptied file as a whole.
LEMMA SetsKeeps ==
  ASSUME IInv, up, NEW c \in Known, IsSetting(c), NEW to, sets(to, c)
  PROVE  Stored' /\ Kept'
<1> DEFINE m == [mem EXCEPT ![c.key] = c.to]
<1>1. c.key \in Keys /\ c.to \in Values[c.key] /\ "type" \in Keys
  BY KnownAreSensible, KeysAre
<1>2. m = [k \in Keys |-> IF k = c.key THEN c.to ELSE mem[k]] /\ \A k \in Keys : m[k] \in Values[k]
  BY <1>1 DEF IInv, Stored
<1> HIDE DEF m
<1>3. mem' = m \/ mem' = [m EXCEPT !["type"] = pending_type]
  BY DEF sets, Changed, m
<1>4. pending_type \in Values["type"] /\ pending_type' \in Values["type"]
  BY <1>1 DEF IInv, Stored, sets
<1>5. /\ mem' = [k \in Keys |-> mem'[k]]
      /\ \A k \in Keys : mem'[k] \in Values[k]
      /\ \A k \in Keys \ {"type"} : mem'[k] = m[k]
  BY <1>1, <1>2, <1>3, <1>4
<1>6. asked' = [k \in Keys |-> IF k = c.key THEN c.to ELSE asked[k]]
  BY <1>1 DEF sets, IInv, Stored
<1>7. file' \in {Lines(m), file, NoLines}
  BY DEF sets, write_config, m
<1>8. file' = [k \in Keys |-> file'[k]] /\ \A k \in Keys : file'[k] \in Values[k] \cup {"absent"}
  BY <1>2, <1>7, LinesAreStored DEF IInv, Stored, NoLines
<1>9. Stored'
  <2>1. asked' = [k \in Keys |-> asked'[k]]
    BY <1>6
  <2> QED BY <1>4, <1>5, <1>8, <2>1 DEF Stored
<1>10. CASE Written
  <2>1. file' = Lines(m)
    <3>1. ~Spend
      BY <1>10 DEF Written, Spend, IInv
    <3>2. write_config(m)
      BY DEF sets, m
    <3> QED BY <3>1, <3>2 DEF write_config
  <2>2. \A k \in Keys : Read(file')[k] = m[k]
    BY <1>2, <2>1, WrittenIsRead
  <2>3. excused' = {k \in excused \ {c.key} : mem[k] # asked[k]}
                     \cup {k \in {"type"} : c.key # k /\ mem'["type"] # mem["type"]}
    BY <1>10 DEF sets
  <2>4. ASSUME NEW k \in Keys \ excused' PROVE m[k] = asked'[k] /\ mem'[k] = m[k]
    <3>1. CASE k = c.key
      <4>1. m[k] = c.to /\ asked'[k] = c.to
        BY <1>2, <1>6, <3>1
      <4>2. k = "type" => mem' = m
        BY <3>1 DEF sets, Changed, m
      <4> QED BY <4>1, <4>2, <1>5
    <3>2. CASE k # c.key
      <4>1. (k \in excused => mem[k] = asked[k]) /\ (k = "type" => mem'[k] = mem[k])
        BY <2>3, <2>4, <3>2
      <4>2. m[k] = mem[k] /\ asked'[k] = asked[k]
        BY <1>2, <1>6, <3>2, <2>4
      <4> QED BY <1>5, <4>1, <4>2 DEF IInv, Kept
    <3> QED BY <3>1, <3>2
  <2> QED BY <1>9, <2>2, <2>4 DEF Kept
<1>11. CASE ~Written /\ up'
  <2>1. file' = file
    BY <1>11 DEF sets, write_config, Written
  <2>2. excused' = excused \cup {c.key} \cup {k \in {"type"} : c.key # k /\ mem'["type"] # mem["type"]}
    BY <1>11 DEF sets
  <2>3. ASSUME NEW k \in Keys \ excused'
        PROVE  k \notin excused /\ asked'[k] = asked[k] /\ mem'[k] = mem[k]
    BY <1>2, <1>5, <1>6, <2>2, <2>3
  <2>4. \A k \in Keys \ excused' : Read(file)[k] = asked[k] /\ mem[k] = asked[k]
    BY <2>3 DEF IInv, Kept
  <2> QED BY <1>9, <2>1, <2>3, <2>4 DEF Kept, Read
<1>12. CASE ~Written /\ ~up'
  BY <1>9, <1>12 DEF sets, Kept
<1> QED BY <1>10, <1>11, <1>12

\* What is left of the bound stays a number.
LEMMA BudgetIsKept == budget \in Nat /\ [Next]_vars => budget' \in Nat
<1>1. budget \in Nat /\ Spend => budget' \in Nat
  BY DEF Spend
<1> QED BY <1>1 DEF Next, Window, Others, vars, connects, onReadable, onTimeout, refreshStatus, sendCommand,
           beginInteraction, endInteraction, serve, sets, write_config, refuses, already_set, create_virtual,
           send_command, client_leaves, stop, start

\* Settings and traffic together.
LEMMA NextPreservesIInv == IInv /\ [Next]_vars => IInv'
<1> SUFFICES ASSUME IInv, [Next]_vars PROVE Stored' /\ Kept'
  BY TrafficIsKept, BudgetIsKept DEF IInv
<1>1. ASSUME UNCHANGED <<daemon, history>> PROVE Stored' /\ Kept'
  BY <1>1 DEF IInv, Stored, Kept, daemon, history
<1>2. CASE Window \/ send_command \/ client_leaves \/ UNCHANGED vars
  BY <1>1, <1>2 DEF Window, connects, onReadable, onTimeout, refreshStatus, sendCommand, beginInteraction,
     endInteraction, send_command, client_leaves, vars
<1>3. CASE serve
  <2> DEFINE to == Head(backlog).client
             c == Head(backlog).command
  <2>1. up /\ c \in Known
    <3>1. Head(backlog) \in Connection
      BY <1>3 DEF serve, IInv, Traffic
    <3> QED BY <1>3, <3>1 DEF serve, Connection
  <2>2. CASE IsSetting(c) /\ sets(to, c)
    BY <2>1, <2>2, SetsKeeps
  <2>3. CASE c.key = "virtual" /\ create_virtual(c)
    <3>1. c.to \in Values["type"]
      BY <2>1, <2>3, KnownAreSensible
    <3> HIDE DEF c
    <3> QED BY <2>3, <3>1, KeysAre DEF create_virtual, IInv, Stored, Kept
  <2>4. CASE UNCHANGED <<daemon, history>>
    BY <1>1, <2>4
  <2> QED BY <1>3, <2>2, <2>3, <2>4 DEF serve, refuses, already_set
<1>4. CASE stop
  BY <1>4 DEF stop, history, IInv, Stored, Kept
<1>5. CASE start
  <2>1. /\ Read(file) = [k \in Keys |-> Read(file)[k]]
        /\ \A k \in Keys : Read(file)[k] \in Values[k]
    BY ReadIsStored DEF IInv
  <2>2. "hide_method" \in Keys /\ "type" \in Keys /\ "legacy" \in Values["hide_method"]
    BY KeysAre DEF Values
  <2>3. /\ file' = file /\ pending_type' = mem'["type"]
        /\ asked' = [k \in Keys |-> IF k \in excused THEN Read(file)[k] ELSE asked[k]]
        /\ \/ mem' = Read(file) /\ excused' = {}
           \/ mem' = [Read(file) EXCEPT !["hide_method"] = "legacy"] /\ excused' = {"hide_method"}
    BY <1>5 DEF start
  <2>4. mem' = [k \in Keys |-> mem'[k]] /\ \A k \in Keys : mem'[k] \in Values[k]
    BY <2>1, <2>2, <2>3
  <2>5. Stored'
    BY <2>2, <2>3, <2>4 DEF IInv, Stored
  <2>6. \A k \in Keys : asked'[k] = Read(file)[k]
    BY <2>3 DEF IInv, Kept
  <2>7. Read(file') = Read(file)
    BY <2>3
  <2>8. \A k \in Keys \ excused' : mem'[k] = Read(file)[k]
    BY <2>1, <2>3
  <2> QED BY <2>5, <2>6, <2>7, <2>8 DEF Kept
<1> QED BY <1>2, <1>3, <1>4, <1>5 DEF Next, Others

\* The inductive invariant of the settings.
THEOREM InductiveInvariant == Spec => []IInv
  BY InitEstablishesIInv, NextPreservesIInv, PTL DEF Spec

\* A daemon that starts has the settings the clients were told, through every
\* order of commands, restarts and failures.
THEOREM SettingsSurviveRestarts == Spec => SettingsSurvive
<1>1. IInv /\ [Next]_vars =>
        [~up /\ up' => \A k \in Keys \ (excused \cup excused') : mem'[k] = asked[k]]_vars
  <2> SUFFICES ASSUME IInv, [Next]_vars, ~up, up', NEW k \in Keys \ (excused \cup excused')
               PROVE  mem'[k] = asked[k]
    OBVIOUS
  <2>1. start
    BY DEF Next, Window, Others, vars, daemon, connects, onReadable, onTimeout, refreshStatus, sendCommand,
       beginInteraction, endInteraction, serve, send_command, client_leaves, stop
  <2>2. IInv'
    BY NextPreservesIInv
  <2>3. mem'[k] = asked'[k]
    BY <2>2 DEF IInv, Kept
  <2>4. asked'[k] = asked[k]
    BY <2>1 DEF start
  <2> QED BY <2>3, <2>4
<1> QED BY <1>1, InductiveInvariant, PTL DEF Spec, SettingsSurvive

-----------------------------------------------------------------------------
(* How many settings of the window have no answer yet *)

Waiting(q) == {i \in DOMAIN q : IsSetting(q[i])}
One(c) == IF IsSetting(c) THEN 1 ELSE 0

\* The queue of a window is finite, so its settings can be counted.
LEMMA UnansweredIsNat ==
  ASSUME NEW q \in Seq(Own)
  PROVE  IsFiniteSet(Waiting(q)) /\ Unanswered(q) = Cardinality(Waiting(q)) /\ Unanswered(q) \in Nat
<1>1. Waiting(q) \subseteq 1 .. Len(q) /\ Len(q) \in Nat
  BY DEF Waiting
<1>2. IsFiniteSet(1 .. Len(q))
  BY <1>1, FS_Interval
<1>3. IsFiniteSet(Waiting(q))
  BY <1>1, <1>2, FS_Subset
<1>4. Unanswered(q) = Cardinality(Waiting(q))
  BY DEF Unanswered, Waiting
<1> QED BY <1>3, <1>4, FS_CardinalityType

\* An empty queue waits for nothing.
LEMMA NobodyWaits == Unanswered(<<>>) = 0
<1>1. Waiting(<<>>) = {}
  BY DEF Waiting
<1> QED BY <1>1, FS_EmptySet DEF Unanswered, Waiting

\* A command that joins the queue is waited for if it is a setting.
LEMMA UnansweredOfAppend ==
  ASSUME NEW q \in Seq(Own), NEW c
  PROVE  Unanswered(Append(q, c)) = Unanswered(q) + One(c)
<1> DEFINE n == Len(q) + 1
<1>1. /\ DOMAIN q = 1 .. Len(q) /\ Len(q) \in Nat
      /\ DOMAIN Append(q, c) = 1 .. n
      /\ \A i \in 1 .. n : Append(q, c)[i] = IF i = n THEN c ELSE q[i]
  OBVIOUS
<1>2. n \notin Waiting(q)
  BY <1>1 DEF Waiting
<1>3. Waiting(Append(q, c)) = IF IsSetting(c) THEN Waiting(q) \cup {n} ELSE Waiting(q)
  BY <1>1 DEF Waiting
<1>4. Unanswered(Append(q, c)) = Cardinality(Waiting(Append(q, c)))
  BY DEF Unanswered, Waiting
<1>5. IsFiniteSet(Waiting(q)) /\ Unanswered(q) = Cardinality(Waiting(q)) /\ Unanswered(q) \in Nat
  BY UnansweredIsNat
<1> HIDE DEF n
<1>6. Cardinality(Waiting(q) \cup {n}) = Cardinality(Waiting(q)) + 1
  BY <1>2, <1>5, FS_AddElement
<1> QED BY <1>3, <1>4, <1>5, <1>6 DEF One

\* A command that leaves the queue was waited for if it is a setting.
LEMMA UnansweredOfTail ==
  ASSUME NEW q \in Seq(Own), q # <<>>
  PROVE  Unanswered(q) = Unanswered(Tail(q)) + One(Head(q))
<1> DEFINE later == Waiting(q) \ {1}
           f == [i \in Waiting(Tail(q)) |-> i + 1]
<1>1. /\ DOMAIN q = 1 .. Len(q) /\ Len(q) \in Nat /\ Len(q) >= 1
      /\ Tail(q) \in Seq(Own) /\ DOMAIN Tail(q) = 1 .. (Len(q) - 1)
      /\ \A i \in 1 .. (Len(q) - 1) : Tail(q)[i] = q[i + 1]
      /\ Head(q) = q[1]
  OBVIOUS
<1>2. Waiting(Tail(q)) \subseteq Nat
  BY <1>1 DEF Waiting
<1>3. f \in Bijection(Waiting(Tail(q)), later)
  <2>1. f \in [Waiting(Tail(q)) -> later]
    BY <1>1 DEF Waiting
  <2>2. \A a, b \in Waiting(Tail(q)) : f[a] = f[b] => a = b
    BY <1>2
  <2>3. ASSUME NEW j \in later PROVE \E i \in Waiting(Tail(q)) : f[i] = j
    <3>1. j - 1 \in Waiting(Tail(q))
      BY <1>1, <2>3 DEF Waiting
    <3>2. j \in Nat
      BY <1>1, <2>3 DEF Waiting
    <3>3. f[j - 1] = j
      BY <3>1, <3>2
    <3> QED BY <3>1, <3>3
  <2> HIDE DEF f, later
  <2> QED BY <2>1, <2>2, <2>3, Fun_IsBij
<1>4. /\ IsFiniteSet(Waiting(Tail(q))) /\ Unanswered(Tail(q)) = Cardinality(Waiting(Tail(q)))
      /\ Unanswered(Tail(q)) \in Nat
  BY <1>1, UnansweredIsNat
<1>5. IsFiniteSet(later) /\ Cardinality(later) = Unanswered(Tail(q))
  <2>1. ExistsBijection(Waiting(Tail(q)), later)
    BY <1>3, Fun_ExistsBij
  <2> HIDE DEF later
  <2> QED BY <1>4, <2>1, FS_Bijection
<1>6. Unanswered(q) = Cardinality(Waiting(q))
  BY UnansweredIsNat
<1>7. Waiting(q) = IF IsSetting(Head(q)) THEN later \cup {1} ELSE later
  BY <1>1 DEF Waiting
<1>8. 1 \notin later
  OBVIOUS
<1> HIDE DEF later
<1>9. Cardinality(later \cup {1}) = Cardinality(later) + 1
  BY <1>5, <1>8, FS_AddElement
<1> QED BY <1>4, <1>5, <1>6, <1>7, <1>9 DEF One

\* The window counts the settings it waits for; without a connection there are none.
Counted ==
  /\ pendingCommands = Unanswered(queue) + One(current)
  /\ conn = "none" => queue = <<>> /\ current = Idle

\* What the window goes on with, it counts.
LEMMA StartNextCounts ==
  ASSUME NEW q \in Seq(Own), NEW on, NEW m, NEW lines,
         startNext(q, Unanswered(q), on, m, lines)
  PROVE  Counted'
<1>1. CASE q # <<>> /\ up
  <2>1. /\ current' = Head(q) /\ queue' = Tail(q) /\ conn' # "none"
        /\ pendingCommands' = Unanswered(q)
    BY <1>1 DEF startNext
  <2> QED BY <1>1, <2>1, UnansweredOfTail DEF Counted
<1>2. CASE ~(q # <<>> /\ up)
  <2>1. /\ current' = Idle /\ queue' = <<>>
        /\ pendingCommands' = IF q = <<>> THEN Unanswered(q) ELSE Unanswered(q) - Unanswered(q)
    BY <1>2 DEF startNext
  <2>2. pendingCommands' = 0
    BY <2>1, NobodyWaits, UnansweredIsNat
  <2>3. One(Idle) = 0
    BY KeysAre DEF One, Idle, IsSetting
  <2> QED BY <2>1, <2>2, <2>3, NobodyWaits DEF Counted
<1> QED BY <1>1, <1>2

\* Settling the current command leaves those of the queue to wait for.
LEMMA SettledCounts ==
  ASSUME Traffic, Counted
  PROVE  Settled(current) = Unanswered(queue)
<1>1. Unanswered(queue) \in Nat
  BY UnansweredIsNat DEF Traffic
<1> QED BY <1>1 DEF Counted, Settled, One

\* A command that fails is counted off, and the next one starts.
LEMMA FailsCounts == Traffic /\ Counted /\ fails => Counted'
  BY SettledCounts, StartNextCounts DEF fails, Traffic

\* A setting that is sent is counted, whether it starts at once or waits.
LEMMA SendCounts ==
  ASSUME Traffic, Counted, NEW c \in Own,
         send(c, IF IsSetting(c) THEN pendingCommands + 1 ELSE pendingCommands)
  PROVE  Counted'
<1> DEFINE p == IF IsSetting(c) THEN pendingCommands + 1 ELSE pendingCommands
<1>1. Unanswered(queue) \in Nat /\ One(current) \in Nat
  BY UnansweredIsNat DEF Traffic, One
<1>2. p = Unanswered(queue) + One(c) + One(current)
  BY <1>1 DEF Counted, One
<1>3. CASE conn = "none"
  <2>1. queue = <<>> /\ One(current) = 0
    BY <1>3, KeysAre DEF Counted, One, Idle, IsSetting
  <2>2. <<c>> = Append(queue, c) /\ <<c>> \in Seq(Own)
    BY <2>1
  <2>3. p = Unanswered(<<c>>)
    <3>1. Unanswered(Append(queue, c)) = Unanswered(queue) + One(c)
      BY UnansweredOfAppend DEF Traffic
    <3>2. One(c) \in Nat
      BY DEF One
    <3> HIDE DEF p
    <3> QED BY <1>1, <1>2, <2>1, <2>2, <3>1, <3>2
  <2> HIDE DEF p
  <2>4. startNext(<<c>>, p, online, lastMessage, backlog)
    BY <1>3 DEF send, p
  <2> QED BY <2>2, <2>3, <2>4, StartNextCounts
<1>4. CASE conn # "none"
  <2>1. /\ queue' = Append(queue, c) /\ pendingCommands' = p
        /\ UNCHANGED <<current, conn>>
    BY <1>4 DEF send
  <2>2. Unanswered(queue') = Unanswered(queue) + One(c)
    BY <2>1, UnansweredOfAppend DEF Traffic
  <2> HIDE DEF p
  <2> QED BY <1>1, <1>2, <1>4, <2>1, <2>2 DEF Counted, One
<1> QED BY <1>3, <1>4

\* What the others do leaves the window's commands where they are.
LEMMA OthersLeaveTheWindow ==
  ASSUME Others
  PROVE  /\ UNCHANGED <<queue, current, pendingCommands, online, lastMessage, interactions>>
         /\ conn' \in {conn, "ok", "refused", "status", "closed"}
  BY DEF Others, serve, sets, refuses, already_set, create_virtual, serves, answer,
         send_command, client_leaves, stop, start, client, window

\* Every step keeps the count: replyReady() comes once for each command.
LEMMA CountIsKept == Traffic /\ Counted /\ [Next]_vars => Counted'
<1> SUFFICES ASSUME Traffic, Counted, [Next]_vars PROVE Counted'
  OBVIOUS
<1>1. CASE connects
  BY <1>1, FailsCounts DEF connects, window, Counted
<1>2. CASE onReadable
  <2>1. CASE answered
    <3>1. /\ queue \in Seq(Own) /\ Append(queue, Status) \in Seq(Own) /\ Unanswered(queue) \in Nat
      BY UnansweredIsNat DEF Traffic, Own
    <3>2. Unanswered(Append(queue, Status)) = Unanswered(queue) + One(Status)
      BY <3>1, UnansweredOfAppend
    <3>3. One(Status) = 0
      BY KeysAre DEF One, Status, IsSetting
    <3>4. Unanswered(Append(queue, Status)) = Settled(current) /\ Unanswered(queue) = Settled(current)
      BY <3>1, <3>2, <3>3, SettledCounts
    <3>5. CASE IsSetting(current)
      <4>1. startNext(Append(queue, Status), Unanswered(Append(queue, Status)), TRUE, conn, backlog)
        BY <2>1, <3>4, <3>5 DEF answered
      <4> QED BY <3>1, <4>1, StartNextCounts
    <3>6. CASE ~IsSetting(current)
      <4>1. startNext(queue, Unanswered(queue), TRUE,
                      IF conn = "refused" THEN conn ELSE Recovered, backlog)
        BY <2>1, <3>4, <3>6 DEF answered
      <4> QED BY <3>1, <4>1, StartNextCounts
    <3> QED BY <3>5, <3>6
  <2> QED BY <1>2, <2>1, FailsCounts DEF onReadable
<1>3. CASE onTimeout
  BY <1>3, FailsCounts DEF onTimeout
<1>4. CASE refreshStatus
  <2>1. Status \in Own /\ ~IsSetting(Status)
    BY KeysAre DEF Own, Status, IsSetting
  <2>2. send(Status, IF IsSetting(Status) THEN pendingCommands + 1 ELSE pendingCommands)
    BY <1>4, <2>1 DEF refreshStatus
  <2> QED BY <2>1, <2>2, SendCounts
<1>5. CASE sendCommand
  <2>1. Settings \cup {Led} \subseteq Own
    BY DEF Own
  <2> QED BY <1>5, <2>1, SendCounts DEF sendCommand
<1>6. CASE beginInteraction \/ endInteraction
  BY <1>6 DEF beginInteraction, endInteraction, client, window, Counted
<1>7. CASE Others
  BY <1>7, OthersLeaveTheWindow DEF Counted
<1>8. CASE UNCHANGED vars
  BY <1>8 DEF vars, client, window, Counted
<1> QED BY <1>1, <1>2, <1>3, <1>4, <1>5, <1>6, <1>7, <1>8 DEF Next, Window

\* The count of the window is right, for any clients and failures.
THEOREM CountInvariant == Spec => [](Traffic /\ Counted)
<1>1. Init => Counted
  <2> SUFFICES ASSUME Init PROVE Counted
    OBVIOUS
  <2>1. queue = <<>> /\ pendingCommands = 0 /\ current \in {Status, Idle}
        /\ (conn = "none" => current = Idle)
    BY DEF Init
  <2>2. One(Status) = 0 /\ One(Idle) = 0
    BY KeysAre DEF One, Status, Idle, IsSetting
  <2> QED BY <2>1, <2>2, NobodyWaits DEF Counted
<1>2. Init => Traffic
  BY InitEstablishesIInv DEF IInv
<1> QED BY <1>1, <1>2, CountIsKept, TrafficIsKept, PTL DEF Spec

\* The busy indicator counts the setting commands without an answer, whatever
\* times out, fails, is refused or restarts ("exactly one replyReady()").
THEOREM BusyIndicatorIsRight == Spec => []BusyWhileUnanswered
<1>1. Traffic /\ Counted => BusyWhileUnanswered
  BY UnansweredOfAppend DEF Traffic, Counted, BusyWhileUnanswered
<1> QED BY <1>1, CountInvariant, PTL

-----------------------------------------------------------------------------
(* Whose answer the window reads *)

NoUi(b) == \A i \in DOMAIN b : b[i].client # "ui"

OnlyUi(b, c) ==
  \E i \in DOMAIN b : /\ b[i] = [client |-> "ui", command |-> c]
                      /\ \A j \in DOMAIN b \ {i} : b[j].client # "ui"

\* A window that waits has one command in the daemon's queue, the one it shows as
\* current; one that gave up has none there that could be answered to it.  What
\* it is about to read answers the current command.
AnswersFit ==
  /\ conn = "waiting" => up /\ OnlyUi(backlog, current)
  /\ conn # "waiting" => NoUi(backlog)
  /\ conn = "none" <=> current = Idle
  /\ conn = "status" => current = Status
  /\ conn \in {"ok", "refused"} => IsSetting(current) \/ current = Led

\* The window's commands are told apart by their keys, and none of them is another client's.
LEMMA OwnAre ==
  ASSUME NEW c \in Own
  PROVE  /\ c # Idle /\ c.key # "virtual" /\ c.key # "silence"
         /\ c.key = "status" => c = Status
         /\ c.key = "led" => c = Led
         /\ IsSetting(c) => c.key \notin {"status", "led"}
  BY KeysAre, SettingsAssumption DEF Own, Status, Led, Idle, IsSetting

\* The queue of the daemon grows at its end and shrinks at its head.
LEMMA UiAtTheEnd ==
  ASSUME NEW b \in Seq(Connection), NoUi(b), NEW c
  PROVE  OnlyUi(Append(b, [client |-> "ui", command |-> c]), c)
<1> DEFINE a == Append(b, [client |-> "ui", command |-> c])
           n == Len(b) + 1
<1>1. /\ DOMAIN b = 1 .. Len(b) /\ Len(b) \in Nat /\ DOMAIN a = 1 .. n
      /\ a[n] = [client |-> "ui", command |-> c]
      /\ \A i \in 1 .. Len(b) : a[i] = b[i]
  OBVIOUS
<1>2. n \in DOMAIN a /\ \A j \in DOMAIN a \ {n} : j \in DOMAIN b /\ a[j] = b[j]
  BY <1>1
<1> HIDE DEF a, n
<1>3. OnlyUi(a, c)
  BY <1>1, <1>2 DEF OnlyUi, NoUi
<1> QED BY <1>3 DEF a

\* A client that connects does not change which connections are the window's.
LEMMA OthersAtTheEnd ==
  ASSUME NEW b \in Seq(Connection), NEW x, x.client # "ui", NEW c
  PROVE  /\ NoUi(b) => NoUi(Append(b, x))
         /\ OnlyUi(b, c) => OnlyUi(Append(b, x), c)
<1> DEFINE a == Append(b, x)
           n == Len(b) + 1
<1>1. /\ DOMAIN b = 1 .. Len(b) /\ Len(b) \in Nat /\ DOMAIN a = 1 .. n /\ a[n] = x
      /\ \A i \in 1 .. Len(b) : a[i] = b[i]
  OBVIOUS
<1>2. /\ DOMAIN b \subseteq DOMAIN a /\ n \notin DOMAIN b
      /\ \A j \in DOMAIN a : j \in DOMAIN b \/ j = n
      /\ \A i \in DOMAIN b : a[i] = b[i]
  BY <1>1
<1> HIDE DEF a, n
<1>3. NoUi(b) => NoUi(a)
  BY <1>1, <1>2 DEF NoUi
<1>4. OnlyUi(b, c) => OnlyUi(a, c)
  BY <1>1, <1>2 DEF OnlyUi
<1> QED BY <1>3, <1>4 DEF a

\* What the daemon serves first is the window's only connection, or is not the window's.
LEMMA UiAtTheHead ==
  ASSUME NEW b \in Seq(Connection), b # <<>>, NEW c
  PROVE  /\ NoUi(b) => Head(b).client # "ui" /\ NoUi(Tail(b))
         /\ OnlyUi(b, c) /\ Head(b).client = "ui" => Head(b).command = c /\ NoUi(Tail(b))
         /\ OnlyUi(b, c) /\ Head(b).client # "ui" => OnlyUi(Tail(b), c)
<1> DEFINE t == Tail(b)
<1>1. /\ DOMAIN b = 1 .. Len(b) /\ Len(b) \in Nat /\ Len(b) >= 1 /\ Head(b) = b[1]
      /\ DOMAIN t = 1 .. (Len(b) - 1)
      /\ \A i \in 1 .. (Len(b) - 1) : t[i] = b[i + 1]
  OBVIOUS
<1>2. /\ 1 \in DOMAIN b
      /\ \A i \in DOMAIN t : i + 1 \in DOMAIN b \ {1} /\ t[i] = b[i + 1]
      /\ \A i \in DOMAIN b \ {1} : i - 1 \in DOMAIN t /\ t[i - 1] = b[i]
  BY <1>1
<1> HIDE DEF t
<1>3. NoUi(b) => Head(b).client # "ui" /\ NoUi(t)
  BY <1>1, <1>2 DEF NoUi
<1>4. ASSUME OnlyUi(b, c) PROVE /\ Head(b).client = "ui" => Head(b).command = c /\ NoUi(t)
                                /\ Head(b).client # "ui" => OnlyUi(t, c)
  <2>1. PICK i \in DOMAIN b : /\ b[i] = [client |-> "ui", command |-> c]
                              /\ \A j \in DOMAIN b \ {i} : b[j].client # "ui"
    BY <1>4 DEF OnlyUi
  <2>2. CASE i = 1
    BY <1>1, <1>2, <2>1, <2>2 DEF NoUi
  <2>3. CASE i # 1
    <3>1. Head(b).client # "ui"
      BY <1>1, <1>2, <2>1, <2>3
    <3>2. i - 1 \in DOMAIN t /\ t[i - 1] = [client |-> "ui", command |-> c]
      BY <1>2, <2>1, <2>3
    <3>3. \A j \in DOMAIN t \ {i - 1} : j + 1 \in DOMAIN b \ {i} /\ t[j] = b[j + 1]
      BY <1>1, <1>2
    <3> QED BY <2>1, <3>1, <3>2, <3>3 DEF OnlyUi
  <2> QED BY <2>2, <2>3
<1> QED BY <1>3, <1>4 DEF t

\* A client that leaves stays in the queue, as nobody.
LEMMA LeavingIsNoUi ==
  ASSUME NEW b \in Seq(Connection), b # <<>>, Head(b).client # "ui", NEW c, NEW x, x.client # "ui"
  PROVE  /\ NoUi(b) => NoUi(<<x>> \o Tail(b))
         /\ OnlyUi(b, c) => OnlyUi(<<x>> \o Tail(b), c)
<1> DEFINE a == <<x>> \o Tail(b)
<1>1. /\ DOMAIN b = 1 .. Len(b) /\ Len(b) \in Nat /\ Len(b) >= 1 /\ Head(b) = b[1]
      /\ DOMAIN a = 1 .. Len(b) /\ a[1] = x
      /\ \A i \in 2 .. Len(b) : a[i] = b[i]
  <2>1. Tail(b) \in Seq(Connection) /\ Len(Tail(b)) = Len(b) - 1 /\ Len(b) \in Nat /\ Len(b) >= 1
    OBVIOUS
  <2>2. \A i \in 1 .. (Len(b) - 1) : Tail(b)[i] = b[i + 1]
    OBVIOUS
  <2>3. Len(a) = Len(b) /\ DOMAIN a = 1 .. Len(b) /\ a[1] = x
    BY <2>1
  <2>4. \A i \in 2 .. Len(b) : a[i] = Tail(b)[i - 1]
    BY <2>1
  <2>5. ASSUME NEW i \in 2 .. Len(b) PROVE a[i] = b[i]
    <3>1. i - 1 \in 1 .. (Len(b) - 1) /\ (i - 1) + 1 = i
      BY <2>1
    <3> HIDE DEF a
    <3> QED BY <2>2, <2>4, <3>1
  <2> HIDE DEF a
  <2> QED BY <2>1, <2>3, <2>5
<1>2. /\ DOMAIN a = DOMAIN b /\ 1 \in DOMAIN b
      /\ \A i \in DOMAIN b \ {1} : a[i] = b[i]
  BY <1>1
<1> HIDE DEF a
<1>3. NoUi(b) => NoUi(a)
  BY <1>1, <1>2 DEF NoUi
<1>4. OnlyUi(b, c) => OnlyUi(a, c)
  BY <1>1, <1>2 DEF OnlyUi
<1> QED BY <1>3, <1>4 DEF a

\* The window's command is in the daemon's queue from connect() to the answer.
LEMMA StartNextFits ==
  ASSUME NEW q \in Seq(Own), NEW p, NEW on, NEW m, NEW lines \in Seq(Connection), NoUi(lines),
         UNCHANGED up, startNext(q, p, on, m, lines)
  PROVE  AnswersFit'
<1>1. CASE q # <<>> /\ up
  <2>1. Head(q) \in Own /\ Head(q) # Idle
    BY <1>1, OwnAre
  <2>2. /\ current' = Head(q)
        /\ \/ conn' = "connecting" /\ backlog' = lines
           \/ conn' = "waiting" /\ backlog' = Append(lines, [client |-> "ui", command |-> Head(q)])
    BY <1>1 DEF startNext
  <2> QED BY <1>1, <2>1, <2>2, UiAtTheEnd DEF AnswersFit
<1>2. CASE ~(q # <<>> /\ up)
  BY <1>2 DEF startNext, AnswersFit
<1> QED BY <1>1, <1>2

\* A window that disconnects leaves no connection of its own.
LEMMA OrphansAreNoUi ==
  ASSUME backlog \in Seq(Connection)
  PROVE  NoUi([i \in DOMAIN backlog |->
            IF backlog[i].client = "ui" THEN [backlog[i] EXCEPT !.client = "gone"] ELSE backlog[i]])
<1> SUFFICES ASSUME NEW i \in DOMAIN backlog
             PROVE  (IF backlog[i].client = "ui" THEN [backlog[i] EXCEPT !.client = "gone"]
                     ELSE backlog[i]).client # "ui"
  BY DEF NoUi
<1>1. backlog[i] \in Connection
  OBVIOUS
<1> QED BY <1>1 DEF Connection

\* A failed command takes its connection and its answer along.
LEMMA FailsFits ==
  ASSUME Traffic, fails, UNCHANGED up
  PROVE  AnswersFit'
<1> DEFINE b == [i \in DOMAIN backlog |->
            IF backlog[i].client = "ui" THEN [backlog[i] EXCEPT !.client = "gone"] ELSE backlog[i]]
<1>1. b \in Seq(Connection) /\ NoUi(b)
  BY OrphansAreConnections, OrphansAreNoUi DEF Traffic
<1>2. startNext(queue, Settled(current), FALSE, Failed(lastMessage, <<current>>), b)
  BY DEF fails
<1> HIDE DEF b
<1> QED BY <1>1, <1>2, StartNextFits DEF Traffic

\* A command that is sent starts on a connection of its own, or waits for one.
LEMMA SendFits ==
  ASSUME Traffic, Counted, AnswersFit, NEW c \in Own, NEW p, send(c, p), UNCHANGED up
  PROVE  AnswersFit'
<1>1. CASE conn = "none"
  <2>1. NoUi(backlog) /\ <<c>> \in Seq(Own) /\ backlog \in Seq(Connection)
    BY <1>1 DEF AnswersFit, Traffic
  <2> QED BY <1>1, <2>1, StartNextFits DEF send
<1>2. CASE conn # "none"
  BY <1>2 DEF send, AnswersFit
<1> QED BY <1>1, <1>2

\* Serving a command answers the window's if it was the window's.
LEMMA ServingFits ==
  ASSUME Traffic, AnswersFit, up, backlog # <<>>, NEW what \in {"ok", "refused", "status"},
         serves(Head(backlog).client, what), UNCHANGED current,
         Head(backlog).client = "ui" =>
            IF what = "status" THEN Head(backlog).command = Status \/ Head(backlog).command = Silence
            ELSE IsSetting(Head(backlog).command) \/ Head(backlog).command.key = "led"
  PROVE  AnswersFit'
<1>1. CASE ~up'
  <2>1. NoUi(<<>>)
    BY DEF NoUi
  <2>2. backlog' = <<>> /\ conn' = IF conn = "waiting" THEN "closed" ELSE conn
    BY <1>1 DEF serves
  <2> QED BY <2>1, <2>2, <1>1 DEF AnswersFit, Traffic
<1>2. CASE up' /\ Head(backlog).client = "ui"
  <2>1. conn = "waiting" /\ Head(backlog).command = current /\ NoUi(Tail(backlog))
    BY <1>2, UiAtTheHead DEF AnswersFit, Traffic
  <2>2. conn' = what /\ backlog' = Tail(backlog)
    BY <1>2 DEF serves, answer
  <2>3. current \in Own
    BY <2>1 DEF Traffic, AnswersFit
  <2>4. current # Silence
    BY <2>3, OwnAre DEF Silence
  <2>5. current # Idle /\ (current.key = "led" => current = Led)
    BY <2>3, OwnAre
  <2>6. current' = current /\ conn' \notin {"none", "waiting"} /\ NoUi(backlog')
    BY <2>1, <2>2
  <2>7. conn' = "status" => current = Status
    BY <1>2, <2>1, <2>2, <2>4
  <2>8. conn' \in {"ok", "refused"} => IsSetting(current) \/ current = Led
    BY <1>2, <2>1, <2>2, <2>5
  <2> QED BY <2>5, <2>6, <2>7, <2>8 DEF AnswersFit, IsSetting
<1>3. CASE up' /\ Head(backlog).client # "ui"
  <2>1. conn' = conn /\ backlog' = Tail(backlog)
    BY <1>3 DEF serves, answer
  <2> QED BY <1>3, <2>1, UiAtTheHead DEF AnswersFit, Traffic
<1> QED BY <1>1, <1>2, <1>3

\* No step gives the window an answer that is not its command's.
LEMMA AnswersAreKept == Traffic /\ Counted /\ AnswersFit /\ [Next]_vars => AnswersFit'
<1> SUFFICES ASSUME Traffic, Counted, AnswersFit, [Next]_vars PROVE AnswersFit'
  OBVIOUS
<1>1. CASE connects
  <2>1. CASE up
    <3>1. NoUi(backlog) /\ current # Idle /\ backlog \in Seq(Connection)
      BY <1>1 DEF connects, AnswersFit, Traffic
    <3>2. /\ conn' = "waiting" /\ UNCHANGED <<up, current>>
          /\ backlog' = Append(backlog, [client |-> "ui", command |-> current])
      BY <1>1, <2>1 DEF connects, daemon
    <3> QED BY <2>1, <3>1, <3>2, UiAtTheEnd DEF AnswersFit
  <2>2. CASE ~up
    BY <1>1, <2>2, FailsFits DEF connects, daemon
  <2> QED BY <2>1, <2>2
<1>2. CASE onReadable
  <2>1. CASE answered
    <3>1. /\ queue \in Seq(Own) /\ Append(queue, Status) \in Seq(Own)
          /\ backlog \in Seq(Connection) /\ NoUi(backlog) /\ UNCHANGED up
      BY <1>2 DEF Traffic, Own, onReadable, AnswersFit, daemon
    <3> QED BY <2>1, <3>1, StartNextFits DEF answered
  <2> QED BY <1>2, <2>1, FailsFits DEF onReadable, daemon
<1>3. CASE onTimeout
  BY <1>3, FailsFits DEF onTimeout, daemon
<1>4. CASE refreshStatus \/ sendCommand
  <2>1. Settings \cup {Led, Status} \subseteq Own
    BY DEF Own
  <2> QED BY <1>4, <2>1, SendFits DEF refreshStatus, sendCommand, daemon
<1>5. CASE beginInteraction \/ endInteraction \/ UNCHANGED vars
  BY <1>5 DEF beginInteraction, endInteraction, client, daemon, vars, AnswersFit
<1>6. CASE serve
  <2> DEFINE to == Head(backlog).client
             c == Head(backlog).command
  <2>1. up /\ backlog # <<>> /\ UNCHANGED current
    BY <1>6 DEF serve
  <2>2. CASE IsSetting(c) /\ (sets(to, c) \/ refuses(to, c) \/ already_set(to, c))
    <3>1. serves(to, "ok") \/ serves(to, "refused")
      BY <2>2 DEF sets, refuses, already_set
    <3> QED BY <2>1, <2>2, <3>1, ServingFits
  <2>3. CASE c.key = "virtual" /\ create_virtual(c)
    <3>1. to # "ui"
      <4>1. to = "ui" => c = current /\ current # Idle
        BY <2>1, UiAtTheHead DEF AnswersFit, Traffic
      <4> QED BY <2>3, <4>1, OwnAre DEF Traffic
    <3>2. backlog' = Tail(backlog) /\ UNCHANGED <<up, conn>>
      BY <2>3 DEF create_virtual
    <3> QED BY <2>1, <3>1, <3>2, UiAtTheHead DEF AnswersFit, Traffic
  <2>4. CASE c.key = "led" /\ (serves(to, "ok") \/ serves(to, "refused"))
    BY <2>1, <2>4, ServingFits
  <2>5. CASE c.key \in {"status", "silence"} /\ serves(to, "status")
    <3>1. to = "ui" => c = Status
      <4>1. to = "ui" => c = current /\ current # Idle
        BY <2>1, UiAtTheHead DEF AnswersFit, Traffic
      <4> QED BY <2>5, <4>1, OwnAre DEF Traffic
    <3> QED BY <2>1, <2>5, <3>1, ServingFits
  <2> QED BY <1>6, <2>2, <2>3, <2>4, <2>5 DEF serve
<1>7. CASE send_command
  <2>1. PICK d \in Commands : backlog' = Append(backlog, [client |-> "ctl", command |-> d])
    BY <1>7 DEF send_command
  <2>2. [client |-> "ctl", command |-> d].client # "ui"
    OBVIOUS
  <2>3. UNCHANGED <<up, conn, current>>
    BY <1>7 DEF send_command, daemon, client
  <2> QED BY <2>1, <2>2, <2>3, OthersAtTheEnd DEF AnswersFit, Traffic
<1>8. CASE client_leaves
  <2>1. /\ backlog # <<>> /\ Head(backlog).client # "ui"
        /\ backlog' = <<[client |-> "gone", command |-> Silence]>> \o Tail(backlog)
        /\ UNCHANGED <<up, conn, current>>
    BY <1>8 DEF client_leaves, Stuck, daemon, client
  <2>2. [client |-> "gone", command |-> Silence].client # "ui"
    OBVIOUS
  <2> QED BY <2>1, <2>2, LeavingIsNoUi DEF AnswersFit, Traffic
<1>9. CASE stop
  <2>1. NoUi(<<>>)
    BY DEF NoUi
  <2>2. backlog' = <<>> /\ conn' = (IF conn = "waiting" THEN "closed" ELSE conn) /\ UNCHANGED current
    BY <1>9 DEF stop
  <2> QED BY <2>1, <2>2 DEF AnswersFit
<1>10. CASE start
  BY <1>10 DEF start, client, AnswersFit
<1> QED BY <1>1, <1>2, <1>3, <1>4, <1>5, <1>6, <1>7, <1>8, <1>9, <1>10 DEF Next, Window, Others

\* The window never takes the answer to one command for that to another, though it
\* gives up waiting, sends the next and the daemon still serves the first
\* (IpcClient's startNext(), finish(); the daemon serves in the order of accept()).
THEOREM AnswersAreNeverMixedUp == Spec => []AnswersFit
<1>1. Init => AnswersFit
  <2> SUFFICES ASSUME Init PROVE AnswersFit
    OBVIOUS
  <2>1. CASE up
    <3> DEFINE b == Append(<<>>, [client |-> "ui", command |-> Status])
    <3>1. b = <<[client |-> "ui", command |-> Status]>>
      OBVIOUS
    <3>2. OnlyUi(b, Status)
      <4>1. NoUi(<<>>) /\ <<>> \in Seq(Connection)
        BY DEF NoUi
      <4> QED BY <4>1, UiAtTheEnd
    <3>3. Status # Idle
      BY DEF Status, Idle
    <3> HIDE DEF b
    <3> QED BY <2>1, <3>1, <3>2, <3>3 DEF Init, AnswersFit
  <2>2. CASE ~up
    BY <2>2 DEF Init, AnswersFit, NoUi
  <2> QED BY <2>1, <2>2
<1> QED BY <1>1, AnswersAreKept, CountInvariant, PTL DEF Spec

-----------------------------------------------------------------------------
(* Types *)

\* What TypeOK says beyond the stored settings and the count.
OtherTypes ==
  /\ up \in BOOLEAN /\ monitor \in BOOLEAN /\ online \in BOOLEAN
  /\ conn \in {"none", "connecting", "waiting", "ok", "refused", "status", "closed"}
  /\ lastMessage \in {"", "ok", "refused", "failure"}
  /\ interactions \in {0, 1}
  /\ excused \subseteq Keys

\* Starting a command leaves a message of the known kinds.
LEMMA StartNextKeepsTypes ==
  ASSUME OtherTypes, NEW q, NEW p, NEW on \in BOOLEAN,
         NEW m \in {"", "ok", "refused", "failure"}, NEW lines,
         startNext(q, p, on, m, lines), UNCHANGED <<up, monitor, interactions, excused>>
  PROVE  OtherTypes'
  BY DEF OtherTypes, startNext, Failed

\* A failed command leaves a message of the known kinds.
LEMMA FailsKeepsTypes ==
  ASSUME OtherTypes, fails, UNCHANGED <<up, monitor, interactions, excused>>
  PROVE  OtherTypes'
<1>1. Failed(lastMessage, <<current>>) \in {"", "ok", "refused", "failure"}
  BY DEF OtherTypes, Failed
<1> QED BY <1>1, StartNextKeepsTypes DEF fails

\* The flags and the message of the window keep their types in every step.
LEMMA TypesAreKept == IInv /\ AnswersFit /\ OtherTypes /\ [Next]_vars => OtherTypes'
<1> SUFFICES ASSUME IInv, AnswersFit, OtherTypes, [Next]_vars PROVE OtherTypes'
  OBVIOUS
<1>1. CASE connects
  BY <1>1, FailsKeepsTypes DEF connects, window, daemon, history, OtherTypes
<1>2. CASE onReadable
  <2>1. CASE conn = "closed" /\ fails
    BY <1>2, <2>1, FailsKeepsTypes DEF onReadable, daemon, history
  <2>2. CASE conn # "closed" /\ answered
    <3>1. conn \in {"ok", "refused", "status"} /\ UNCHANGED <<up, monitor, interactions, excused>>
      BY <1>2, <2>2 DEF onReadable, daemon, history, OtherTypes
    <3>2. CASE IsSetting(current)
      <4>1. conn # "status"
        BY <3>2, KeysAre DEF AnswersFit, Status, IsSetting
      <4>2. conn \in {"", "ok", "refused", "failure"}
        BY <3>1, <4>1
      <4> QED BY <2>2, <3>1, <3>2, <4>2, StartNextKeepsTypes DEF answered
    <3>3. CASE ~IsSetting(current)
      <4> DEFINE m == IF conn = "refused" THEN conn ELSE Recovered
      <4>1. m \in {"", "ok", "refused", "failure"}
        BY DEF Recovered, OtherTypes
      <4>2. startNext(queue, Settled(current), TRUE, m, backlog)
        BY <2>2, <3>3 DEF answered
      <4> HIDE DEF m
      <4> QED BY <3>1, <4>1, <4>2, StartNextKeepsTypes
    <3> QED BY <3>2, <3>3
  <2> QED BY <1>2, <2>1, <2>2 DEF onReadable
<1>3. CASE onTimeout
  BY <1>3, FailsKeepsTypes DEF onTimeout, daemon, history
<1>4. CASE refreshStatus \/ sendCommand
  <2>0. PICK c : \E p : send(c, p)
    BY <1>4 DEF refreshStatus, sendCommand
  <2>1. PICK p : send(c, p)
    BY <2>0
  <2>2. UNCHANGED <<up, monitor, interactions, excused>>
    BY <1>4 DEF refreshStatus, sendCommand, daemon, history
  <2>3. CASE conn = "none"
    <3>1. startNext(<<c>>, p, online, lastMessage, backlog)
      BY <2>1, <2>3 DEF send
    <3>2. online \in BOOLEAN /\ lastMessage \in {"", "ok", "refused", "failure"}
      BY DEF OtherTypes
    <3> QED BY <2>2, <3>1, <3>2, StartNextKeepsTypes
  <2>4. CASE conn # "none"
    BY <2>1, <2>2, <2>4 DEF send, OtherTypes
  <2> QED BY <2>3, <2>4
<1>5. CASE beginInteraction \/ endInteraction \/ UNCHANGED vars
  <2>1. interactions' \in {0, 1}
    <3>1. interactions \in {0, 1}
      BY DEF OtherTypes
    <3>2. \/ interactions' = 1 \/ interactions' = interactions
          \/ interactions > 0 /\ interactions' = interactions - 1
      BY <1>5 DEF beginInteraction, endInteraction, vars
    <3> QED BY <3>1, <3>2
  <2>2. UNCHANGED <<daemon, client, window, history>>
    BY <1>5 DEF beginInteraction, endInteraction, vars
  <2> QED BY <2>1, <2>2 DEF client, daemon, window, history, OtherTypes
<1>6. CASE serve
  <2> DEFINE c == Head(backlog).command
             to == Head(backlog).client
  <2>1. IsSetting(c) => c.key \in Keys
    BY DEF IsSetting
  <2>2. conn' \in {conn, "ok", "refused", "status", "closed"} /\ UNCHANGED <<online, lastMessage, interactions>>
    BY <1>6, OthersLeaveTheWindow DEF Others
  <2>3. CASE IsSetting(c) /\ sets(to, c)
    <3>1. up' \in BOOLEAN /\ monitor' \in BOOLEAN
      BY <2>3 DEF sets, write_config, OtherTypes
    <3>2. excused' \subseteq Keys
      BY <2>1, <2>3, KeysAre DEF sets, OtherTypes
    <3> QED BY <2>2, <3>1, <3>2 DEF OtherTypes
  <2>4. CASE c.key = "virtual" /\ create_virtual(c)
    BY <2>2, <2>4, KeysAre DEF create_virtual, OtherTypes
  <2>5. CASE UNCHANGED <<daemon, history>>
    BY <2>2, <2>5 DEF daemon, history, OtherTypes
  <2> QED BY <1>6, <2>3, <2>4, <2>5 DEF serve, refuses, already_set
<1>7. CASE send_command \/ client_leaves
  <2>1. UNCHANGED <<daemon, client, window, interactions, history>>
    BY <1>7 DEF send_command, client_leaves
  <2> QED BY <2>1 DEF daemon, client, window, history, OtherTypes
<1>8. CASE stop
  BY <1>8 DEF stop, window, history, OtherTypes
<1>9. CASE start
  <2>1. "hide_method" \in Keys
    BY KeysAre
  <2> QED BY <1>9, <2>1 DEF start, client, window, OtherTypes
<1> QED BY <1>1, <1>2, <1>3, <1>4, <1>5, <1>6, <1>7, <1>8, <1>9 DEF Next, Window, Others

\* Every variable of the daemon's settings and of the window keeps its type.
THEOREM TypeCorrect == Spec => []TypeOK
<1>1. Init => OtherTypes
  BY DEF Init, OtherTypes
<1>2. IInv /\ Traffic /\ Counted /\ OtherTypes => TypeOK
  <2> SUFFICES ASSUME IInv, Traffic, Counted, OtherTypes PROVE TypeOK
    OBVIOUS
  <2>1. pendingCommands \in Nat
    BY UnansweredIsNat DEF Counted, Traffic, One
  <2>2. DOMAIN mem = Keys /\ DOMAIN file = Keys
    BY DEF IInv, Stored
  <2> QED BY <2>1, <2>2 DEF IInv, Stored, OtherTypes, TypeOK
<1> QED BY <1>1, <1>2, TypesAreKept, InductiveInvariant, CountInvariant, AnswersAreNeverMixedUp, PTL DEF Spec
===============================================================================
